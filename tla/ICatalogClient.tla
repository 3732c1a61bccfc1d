--------------------------- MODULE ICatalogClient ---------------------------
(***************************************************************************)
(* The requests of a core::ICatalogClient (include/.../core/               *)
(* ICatalogClient.h, src/main/core/ICatalogClient.cpp).  Any thread raises *)
(* a request by adding one to nRequest; the thread of core::Catalog loads  *)
(* nRequest, serves the request and stores what it loaded to nResponse.    *)
(* Both are 32-bit words that wrap; here they wrap at Serials.             *)
(***************************************************************************)
EXTENDS Naturals

CONSTANT Serials    \* how many values a serial has (2^32 in the code)

ASSUME SerialsAssumption == Serials \in Nat /\ Serials > 1

Serial == 0..(Serials - 1)

State == [nRequest : Serial, nResponse : Serial]

NoRequest == [nRequest |-> 0, nResponse |-> 0]

(* atomic_add(&s.nRequest, 1) *)
Requested(s) ==
  [nRequest |-> (s.nRequest + 1) % Serials, nResponse |-> s.nResponse]

(* Some request has not been served. *)
Owed(s) == s.nRequest # s.nResponse

(* s.nResponse = response *)
Answered(s, response) == [nRequest |-> s.nRequest, nResponse |-> response]

(* attach(): "Mark for update" *)
Marked(s) == Answered(s, (s.nRequest + Serials - 1) % Serials)
=============================================================================
