----------------------------- MODULE MCCatalog ------------------------------
(* Two clients, so that the thread outlives one of them. *)
EXTENDS Catalog

CONSTANTS c1, c2

TwoClients == {c1, c2}

(* Serials matter through their differences only: the state is seen with   *)
(* each serial relative to the nRequest it belongs to.                     *)
Behind(s) == (s.nRequest + Serials - s.nResponse) % Serials
Since(request, serial) == (request + Serials - serial) % Serials

Relative ==
  <<managerVars, vClients, pCatalog, life, pThread, cancelled, at, left, busy,
    sThread, sMutex, asked, count,
    [c \in Client |-> <<Behind(sUpdate[c]), Behind(sApply[c]),
                        IF life[c] \in {"attach", "locked", "update", "start"}
                        THEN <<Since(sUpdate[c].nRequest, saved[c].upd),
                               Since(sApply[c].nRequest, saved[c].apl)>>
                        ELSE <<>>,
                        IF busy = c THEN Since(IF at = "update"
                                               THEN sUpdate[c].nRequest
                                               ELSE sApply[c].nRequest, took)
                        ELSE 0>>]>>
=============================================================================
