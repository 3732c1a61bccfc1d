------------------------------ MODULE Catalog -------------------------------
(***************************************************************************)
(* core::Catalog (src/main/core/Catalog.cpp) with the CatalogManager that  *)
(* owns it and the life of its clients (ICatalogClient, ShmClient): one    *)
(* thread serves the update and apply requests of all clients; it starts   *)
(* with the first client and is joined by the last one.                    *)
(*                                                                         *)
(* sThread serialises attach_client() and detach_client(), sMutex guards   *)
(* vClients and is held by the thread for a whole pass over the clients.   *)
(* What a client does when it is called is left to it: a call succeeds or  *)
(* fails.  request_apply() comes from the audio thread of the client and   *)
(* takes no lock, so it interleaves with everything.                       *)
(***************************************************************************)
EXTENDS ICatalogClient, FiniteSets

CONSTANTS
  Client,
  MaxAsks, MaxSyncs,  \* bounds: request_apply() calls, changes seen by sync(),
  MaxFails            \* calls of a client and starts of the thread that fail

ASSUME CatalogAssumption ==
  /\ IsFiniteSet(Client) /\ Client \cap {"free", "service", "nobody"} = {}
  /\ MaxAsks \in Nat /\ MaxSyncs \in Nat /\ MaxFails \in Nat
  \* more requests than a serial can tell apart are never outstanding
  /\ MaxSyncs + 2 < Serials /\ MaxAsks + 1 < Serials

VARIABLES
  alive, nCatalogRefs,       \* CatalogManager: pCatalog # NULL, references
  vClients, sUpdate, sApply, \* attached clients and their requests
  pCatalog,                  \* which clients believe that they are attached
  life,                      \* where the owner of each client is in a call
  saved,                     \* responses attach() restores when it fails
  pThread,                   \* "NULL", "thread" or "dangling"
  cancelled,                 \* ipc::Thread::cancel() was called
  at,                        \* the thread: "off", "test" or a pass
  left, busy, took,          \* clients the pass has left, called, the serial
  sThread, sMutex,           \* owners of the mutexes
  asked,                     \* history: "yes" when c asked to apply since the
                             \* last call of apply(), "taken" during the call
  count                      \* how often each bounded action was taken

managerVars == <<alive, nCatalogRefs>>
clientVars == <<vClients, sUpdate, sApply>>
ownerVars == <<pCatalog, life, saved>>
threadVars == <<at, left, busy, took>>
vars == <<managerVars, clientVars, ownerVars, pThread, cancelled, threadVars,
          sThread, sMutex, asked, count>>

Free == "free"
Service == "service"
Nobody == "nobody"
NotSaved == [upd |-> 0, apl |-> 0]
Passes == {"update", "apply"}

TypeOK ==
  /\ alive \in BOOLEAN /\ nCatalogRefs \in 0..Cardinality(Client)
  /\ vClients \subseteq Client
  /\ sUpdate \in [Client -> State] /\ sApply \in [Client -> State]
  /\ pCatalog \in [Client -> BOOLEAN]
  /\ life \in [Client -> {"gone", "holds", "attach", "locked", "update",
                          "start", "remove", "stop", "join"}]
  /\ saved \in [Client -> [upd : Serial, apl : Serial]]
  /\ pThread \in {"NULL", "thread", "dangling"} /\ cancelled \in BOOLEAN
  /\ at \in Passes \cup {"off", "test", "sync"}
  /\ left \subseteq Client /\ busy \in Client \cup {Nobody} /\ took \in Serial
  /\ asked \in [Client -> {"no", "yes", "taken"}]
  /\ sThread \in Client \cup {Free} /\ sMutex \in Client \cup {Free, Service}
  /\ count \in [asks : 0..MaxAsks, syncs : 0..MaxSyncs, fails : 0..MaxFails]

Init ==
  /\ alive = FALSE /\ nCatalogRefs = 0
  /\ vClients = {}
  /\ sUpdate = [c \in Client |-> NoRequest]
  /\ sApply = [c \in Client |-> NoRequest]
  /\ pCatalog = [c \in Client |-> FALSE]
  /\ life = [c \in Client |-> "gone"]
  /\ saved = [c \in Client |-> NotSaved]
  /\ pThread = "NULL" /\ cancelled = FALSE
  /\ at = "off" /\ left = {} /\ busy = Nobody /\ took = 0
  /\ sThread = Free /\ sMutex = Free
  /\ asked = [c \in Client |-> "no"]
  /\ count = [asks |-> 0, syncs |-> 0, fails |-> 0]

(* The outcome of a call of a client's update() or apply(), or of a start. *)
Outcome(ok) ==
  \/ ok /\ UNCHANGED count
  \/ ~ok /\ count.fails < MaxFails /\ count' = [count EXCEPT !.fails = @ + 1]

Goes(c, from, to) == life[c] = from /\ life' = [life EXCEPT ![c] = to]

-----------------------------------------------------------------------------
(* CatalogManager: called by ShmClient::init() and ShmClient::destroy().   *)

Acquire(c) ==
  /\ Goes(c, "gone", "holds")
  /\ alive' = TRUE /\ nCatalogRefs' = nCatalogRefs + 1
  /\ UNCHANGED <<asked, clientVars, pCatalog, saved, pThread, cancelled,
                 threadVars, sThread, sMutex, count>>

(* Slip: the reference is kept. *)
ReleaseKeeps(c) ==
  /\ ~pCatalog[c] /\ Goes(c, "holds", "gone")
  /\ UNCHANGED <<asked, managerVars, clientVars, pCatalog, saved, pThread,
                 cancelled, threadVars, sThread, sMutex, count>>

Release(c) ==
  /\ ~pCatalog[c] /\ Goes(c, "holds", "gone")
  /\ nCatalogRefs' = nCatalogRefs - 1 /\ alive' = (nCatalogRefs > 1)
  /\ UNCHANGED <<asked, clientVars, pCatalog, saved, pThread, cancelled,
                 threadVars, sThread, sMutex, count>>

-----------------------------------------------------------------------------
(* attach()                                                                *)

(* ICatalogClient::attach() up to the call of attach_client(). *)
Attach(c) ==
  /\ ~pCatalog[c] /\ Goes(c, "holds", "attach")
  /\ saved' = [saved EXCEPT ![c] = [upd |-> sUpdate[c].nResponse,
                                    apl |-> sApply[c].nResponse]]
  /\ sUpdate' = [sUpdate EXCEPT ![c] = Marked(@)]
  /\ sApply' = [sApply EXCEPT ![c] = Marked(@)]
  /\ UNCHANGED <<asked, managerVars, vClients, pCatalog, pThread, cancelled,
                 threadVars, sThread, sMutex, count>>

AttachLock(c) ==
  /\ Goes(c, "attach", "locked")
  /\ sThread = Free /\ sThread' = c
  /\ UNCHANGED <<asked, managerVars, clientVars, pCatalog, saved, pThread,
                 cancelled, threadVars, sMutex, count>>

(* "Add client", request_update() *)
AttachAdd(c) ==
  /\ asked' = [asked EXCEPT ![c] = "yes"]
  /\ Goes(c, "locked", "update")
  /\ sMutex = Free /\ sMutex' = c
  /\ vClients' = vClients \cup {c}
  /\ sUpdate' = [sUpdate EXCEPT ![c] = Requested(@)]
  /\ UNCHANGED <<managerVars, sApply, pCatalog, saved, pThread, cancelled,
                 threadVars, sThread, count>>

(* The first update() of the client, in the thread of its owner. *)
AttachUpdate(c, ok) ==
  /\ Goes(c, "update", "start") /\ Outcome(ok)
  /\ sUpdate' = IF ok THEN [sUpdate EXCEPT ![c] = Answered(@, @.nRequest)]
                ELSE sUpdate
  /\ sMutex' = Free
  /\ UNCHANGED <<asked, managerVars, vClients, sApply, pCatalog, saved,
                 pThread, cancelled, threadVars, sThread>>

(* "Check that we have a dispatcher tread running" *)
AttachDone(c) ==
  /\ Goes(c, "start", "holds")
  /\ sThread' = Free
  /\ pCatalog' = [pCatalog EXCEPT ![c] = TRUE]
  /\ saved' = [saved EXCEPT ![c] = NotSaved]
  /\ IF pThread # "NULL" THEN UNCHANGED <<pThread, at>>
     ELSE pThread' = "thread" /\ at' = "test"
  /\ UNCHANGED <<asked, managerVars, clientVars, cancelled, left, busy, took,
                 sMutex, count>>

(* The thread does not start: pThread keeps the address of what was        *)
(* deleted, and attach() restores the responses.  The last client will     *)
(* cancel and join what is no thread, which is undefined; here it returns. *)
AttachFailed(c) ==
  /\ asked' = [asked EXCEPT ![c] = "no"]
  /\ pThread = "NULL"
  /\ Goes(c, "start", "holds")
  /\ sThread' = Free
  /\ pThread' = "dangling"
  /\ vClients' = vClients \ {c}
  /\ sUpdate' = [sUpdate EXCEPT ![c] = Answered(@, saved[c].upd)]
  /\ sApply' = [sApply EXCEPT ![c] = Answered(@, saved[c].apl)]
  /\ saved' = [saved EXCEPT ![c] = NotSaved]
  /\ Outcome(FALSE)
  /\ UNCHANGED <<managerVars, pCatalog, cancelled, threadVars, sMutex>>

-----------------------------------------------------------------------------
(* detach(): do_close() and detach_client()                                *)

Detach(c) ==
  /\ pCatalog[c] /\ Goes(c, "holds", "remove")
  /\ sThread = Free /\ sThread' = c
  /\ UNCHANGED <<asked, managerVars, clientVars, pCatalog, saved, pThread,
                 cancelled, threadVars, sMutex, count>>

Detached(c) ==
  /\ sThread' = Free /\ pCatalog' = [pCatalog EXCEPT ![c] = FALSE]

(* Slip: the client is taken out while the thread is in a pass. *)
DetachRemoveUnlocked(c) ==
  /\ vClients' = vClients \ {c}
  /\ IF vClients' # {}
     THEN Goes(c, "remove", "holds") /\ Detached(c)
     ELSE Goes(c, "remove", "stop") /\ UNCHANGED <<sThread, pCatalog>>
  /\ UNCHANGED <<asked, managerVars, sUpdate, sApply, saved, pThread,
                 cancelled, threadVars, sMutex, count>>

DetachRemove(c) ==
  /\ sMutex = Free
  /\ vClients' = vClients \ {c}
  /\ IF vClients' # {}
     THEN Goes(c, "remove", "holds") /\ Detached(c)
     ELSE Goes(c, "remove", "stop") /\ UNCHANGED <<sThread, pCatalog>>
  /\ UNCHANGED <<asked, managerVars, sUpdate, sApply, saved, pThread,
                 cancelled, threadVars, sMutex, count>>

(* Slip: the owner holds the client's mutex while it waits for the thread. *)
DetachStopLocked(c) ==
  /\ sMutex = Free /\ sMutex' = c
  /\ Goes(c, "stop", "join") /\ cancelled' = TRUE
  /\ UNCHANGED <<asked, managerVars, clientVars, pCatalog, saved, pThread,
                 threadVars, sThread, count>>

(* pThread->cancel(), or nothing to stop *)
DetachStop(c) ==
  /\ IF pThread = "NULL"
     THEN Goes(c, "stop", "holds") /\ Detached(c) /\ UNCHANGED cancelled
     ELSE /\ Goes(c, "stop", "join") /\ cancelled' = TRUE
          /\ UNCHANGED <<sThread, pCatalog>>
  /\ UNCHANGED <<asked, managerVars, clientVars, saved, pThread, threadVars,
                 sMutex, count>>

(* Slip: the pointer to the thread is left as it is. *)
DetachJoinKeeps(c) ==
  /\ at = "off" /\ cancelled' = FALSE
  /\ Goes(c, "join", "holds") /\ Detached(c)
  /\ UNCHANGED <<asked, managerVars, clientVars, saved, pThread, threadVars,
                 sMutex, count>>

(* pThread->join() returns *)
DetachJoin(c) ==
  /\ at = "off" /\ cancelled' = FALSE
  /\ Goes(c, "join", "holds") /\ Detached(c)
  /\ pThread' = "NULL"
  /\ UNCHANGED <<asked, managerVars, clientVars, saved, threadVars, sMutex,
                 count>>

-----------------------------------------------------------------------------
(* ICatalogClient::request_apply(), from the audio thread of the client.   *)
RequestApply(c) ==
  /\ asked' = [asked EXCEPT ![c] = "yes"]
  /\ life[c] # "gone" /\ count.asks < MaxAsks
  /\ sApply' = [sApply EXCEPT ![c] = Requested(@)]
  /\ count' = [count EXCEPT !.asks = @ + 1]
  /\ UNCHANGED <<managerVars, vClients, sUpdate, ownerVars, pThread, cancelled,
                 threadVars, sThread, sMutex>>

-----------------------------------------------------------------------------
(* The thread: run() and process_events().                                 *)

OwnersKeep == UNCHANGED <<managerVars, vClients, ownerVars, pThread, cancelled,
                          sThread>>

(* "while (!is_cancelled())", closing the catalog behind the loop *)
Test ==
  /\ at = "test" /\ at' = IF cancelled THEN "off" ELSE "sync"
  /\ OwnersKeep /\ UNCHANGED <<asked, sUpdate, sApply, left, busy, took,
                               sMutex, count>>

(* sync_catalog(): if the shared catalog changed, all clients must look.   *)
(* process_keep_alive() follows: it calls the clients under the mutex as   *)
(* the passes below do, and changes nothing of what is modelled here.      *)
Sync ==
  /\ at = "sync" /\ at' = "update"
  /\ \/ UNCHANGED <<sUpdate, count>>
     \/ /\ sMutex = Free /\ count.syncs < MaxSyncs
        /\ sUpdate' = [c \in Client |->
             IF c \in vClients THEN Requested(sUpdate[c]) ELSE sUpdate[c]]
        /\ count' = [count EXCEPT !.syncs = @ + 1]
  /\ OwnersKeep /\ UNCHANGED <<asked, sApply, left, busy, took, sMutex>>

Lock ==
  /\ at \in Passes /\ sMutex = Free
  /\ sMutex' = Service /\ left' = vClients
  /\ OwnersKeep /\ UNCHANGED <<asked, sUpdate, sApply, at, busy, took, count>>

(* process_update() calls c when an update is owed, process_apply() when   *)
(* an apply is owed and no update is.                                      *)
MustCall(c) ==
  \/ at = "update" /\ Owed(sUpdate[c])
  \/ at = "apply" /\ ~Owed(sUpdate[c]) /\ Owed(sApply[c])

Skip(c) ==
  /\ sMutex = Service /\ busy = Nobody /\ c \in left /\ ~MustCall(c)
  /\ left' = left \ {c}
  /\ OwnersKeep /\ UNCHANGED <<asked, sUpdate, sApply, at, busy, took, sMutex,
                               count>>

Call(c) ==
  /\ asked' = IF at = "apply" THEN [asked EXCEPT ![c] = "taken"] ELSE asked
  /\ sMutex = Service /\ busy = Nobody /\ c \in left /\ MustCall(c)
  /\ busy' = c
  /\ took' = IF at = "update" THEN sUpdate[c].nRequest ELSE sApply[c].nRequest
  /\ OwnersKeep /\ UNCHANGED <<sUpdate, sApply, at, left, sMutex, count>>

(* Slip: what is answered is loaded after the call. *)
ReturnNewest(c, ok) ==
  /\ asked' = IF at = "apply" /\ asked[c] = "taken"
              THEN [asked EXCEPT ![c] = IF ok THEN "no" ELSE "yes"] ELSE asked
  /\ busy = c /\ Outcome(ok)
  /\ busy' = Nobody /\ left' = left \ {c} /\ took' = 0
  /\ sUpdate' = IF at = "update" /\ ok
                THEN [sUpdate EXCEPT ![c] = Answered(@, @.nRequest)] ELSE sUpdate
  /\ sApply' = IF at = "apply" /\ ok
               THEN [sApply EXCEPT ![c] = Answered(@, @.nRequest)] ELSE sApply
  /\ OwnersKeep /\ UNCHANGED <<at, sMutex>>

(* "Commit only if update was successful" *)
Return(c, ok) ==
  /\ asked' = IF at = "apply" /\ asked[c] = "taken"
              THEN [asked EXCEPT ![c] = IF ok THEN "no" ELSE "yes"] ELSE asked
  /\ busy = c /\ Outcome(ok)
  /\ busy' = Nobody /\ left' = left \ {c} /\ took' = 0
  /\ sUpdate' = IF at = "update" /\ ok
                THEN [sUpdate EXCEPT ![c] = Answered(@, took)] ELSE sUpdate
  /\ sApply' = IF at = "apply" /\ ok
               THEN [sApply EXCEPT ![c] = Answered(@, took)] ELSE sApply
  /\ OwnersKeep /\ UNCHANGED <<at, sMutex>>

Unlock ==
  /\ sMutex = Service /\ left = {} /\ busy = Nobody
  /\ sMutex' = Free
  /\ at' = IF at = "update" THEN "apply" ELSE "test"
  /\ OwnersKeep /\ UNCHANGED <<asked, sUpdate, sApply, left, busy, took,
                               count>>

ServiceStep ==
  \/ Test \/ Sync \/ Unlock
  \/ \E c \in Client : Skip(c) \/ Call(c) \/ \E ok \in BOOLEAN : Return(c, ok)

(* What an owner does once it has begun to attach or detach: steps that    *)
(* wait for a mutex, and others.                                           *)
OwnerWaits(c) == AttachLock(c) \/ AttachAdd(c) \/ DetachRemove(c)

OwnerStep(c) ==
  \/ \E ok \in BOOLEAN : AttachUpdate(c, ok)
  \/ AttachDone(c) \/ AttachFailed(c) \/ DetachStop(c) \/ DetachJoin(c)

Next ==
  \/ ServiceStep \/ Lock
  \/ \E c \in Client :
       \/ Acquire(c) \/ Release(c) \/ RequestApply(c)
       \/ Attach(c) \/ Detach(c) \/ OwnerWaits(c) \/ OwnerStep(c)

Spec == Init /\ [][Next]_vars

(* The thread and a call that has begun run on; whoever waits for a mutex  *)
(* that is free again and again gets it.                                   *)
Fairness ==
  /\ WF_vars(ServiceStep) /\ SF_vars(Lock)
  /\ \A c \in Client : WF_vars(OwnerStep(c)) /\ SF_vars(OwnerWaits(c))

FairSpec == Spec /\ Fairness

-----------------------------------------------------------------------------
(* A client is called only while it is attached, and the thread runs only  *)
(* while the catalog it works on exists: whoever detaches its client, or   *)
(* lets the catalog go, may free it at once.                               *)
NeverCalledAfterDetach ==
  /\ busy # Nobody => busy \in vClients /\ alive
  /\ at # "off" => alive
  /\ \A c \in Client : pCatalog[c] /\ life[c] = "holds" => c \in vClients

(* Between calls of attach_client() and detach_client() there is a thread  *)
(* that serves the clients exactly if there are clients ("Check that we    *)
(* have a dispatcher tread running", Catalog.cpp).  The exception is a     *)
(* start that failed: it leaves a pointer that later clients take for a    *)
(* thread, until the last of them is gone.                                 *)
ThreadServes ==
  sThread = Free /\ pThread # "dangling" =>
    (vClients # {} <=> at # "off" /\ ~cancelled)

(* Every request to apply of an attached client, attach() being one, is    *)
(* followed by a call of apply() that begins after it and succeeds, unless *)
(* the client detaches first or the thread failed to start: a request that *)
(* comes while an earlier one is being served is not taken for served.     *)
RequestServed ==
  \A c \in Client :
    c \in vClients /\ asked[c] # "no" ~>
      c \notin vClients \/ asked[c] = "no" \/ pThread = "dangling"

(* detach() returns: the thread ends when it is cancelled and neither side *)
(* waits for a mutex the other keeps.                                      *)
DetachReturns ==
  \A c \in Client : life[c] \in {"remove", "stop", "join"} ~> life[c] = "holds"
=============================================================================
