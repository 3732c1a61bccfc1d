--------------------------- MODULE CatalogProofs ----------------------------
(***************************************************************************)
(* Proofs about Catalog for every finite set of clients and every width of *)
(* the serials: no client is called after it was detached, the thread does *)
(* not outlive the catalog, and between the calls that attach and detach   *)
(* it runs exactly if there are clients.                                   *)
(***************************************************************************)
EXTENDS Catalog, FiniteSetTheorems, TLAPS

(* The owner of a client that holds sThread. *)
Owning == {"locked", "update", "start", "remove", "stop", "join"}

(* Who owns the mutexes can be told from where the owners are. *)
Locks ==
  \A c \in Client : /\ sThread = c <=> life[c] \in Owning
                    /\ sMutex = c <=> life[c] = "update"

(* The thread works on clients under sMutex, and on attached ones. *)
Pass ==
  /\ sMutex = Service => at \in Passes
  /\ sMutex # Service => left = {} /\ busy = Nobody
  /\ left \subseteq vClients /\ busy \in left \cup {Nobody}

(* The list has the clients whose owner has got through the first half of  *)
(* attach_client() and not through the first half of detach_client().      *)
Attached ==
  \A c \in Client :
    /\ c \in vClients => \/ life[c] \in {"update", "start"}
                         \/ pCatalog[c] /\ life[c] \in {"holds", "remove"}
    /\ life[c] \in {"update", "start", "remove"} => c \in vClients
    /\ pCatalog[c] /\ life[c] = "holds" => c \in vClients
    /\ pCatalog[c] => life[c] \in {"holds", "remove", "stop", "join"}
    /\ life[c] \in {"stop", "join"} => vClients = {}

(* The thread runs while there are clients or the last one waits for it.   *)
Thread ==
  /\ at # "off" => pThread = "thread"
  /\ pThread = "thread" => \/ vClients # {}
                           \/ \E c \in Client : life[c] \in {"stop", "join"}

Holders == {c \in Client : life[c] # "gone"}

(* The manager counts the clients that hold the catalog. *)
References ==
  /\ nCatalogRefs = Cardinality(Holders)
  /\ alive <=> nCatalogRefs > 0

Core == TypeOK /\ Locks /\ Pass /\ Attached /\ Thread /\ References

-----------------------------------------------------------------------------
LEMMA SerialsType ==
  /\ NoRequest \in State /\ NotSaved \in [upd : Serial, apl : Serial]
  /\ 0 \in Serial
  /\ \A s \in State : /\ Requested(s) \in State /\ Marked(s) \in State
                      /\ \A r \in Serial : Answered(s, r) \in State
                      /\ s.nRequest \in Serial /\ s.nResponse \in Serial
<1>1. 0 \in Serial
  BY SerialsAssumption DEF Serial
<1>2. \A x \in Serial : (x + 1) % Serials \in Serial /\ (x + Serials - 1) % Serials \in Serial
  BY SerialsAssumption DEF Serial
<1>3. NoRequest \in State /\ NotSaved \in [upd : Serial, apl : Serial]
  BY <1>1 DEF NoRequest, NotSaved, State
<1>4. ASSUME NEW s \in State
      PROVE  /\ Requested(s) \in State /\ Marked(s) \in State
             /\ \A r \in Serial : Answered(s, r) \in State
             /\ s.nRequest \in Serial /\ s.nResponse \in Serial
  <2>1. s.nRequest \in Serial /\ s.nResponse \in Serial
    BY DEF State
  <2>2. \A r \in Serial : Answered(s, r) \in State
    BY <2>1 DEF Answered, State
  <2>3. Requested(s) \in State /\ Marked(s) \in State
    BY <1>2, <2>1, <2>2 DEF Requested, Marked, State
  <2>4. QED
    BY <2>1, <2>2, <2>3
<1>5. QED
  BY <1>1, <1>3, <1>4

(* A client that takes or gives up its hold changes the count by one. *)
LEMMA HoldersCount ==
  /\ Cardinality(Holders) \in 0..Cardinality(Client)
  /\ \A c \in Client : life[c] # "gone" => Cardinality(Holders) > 0
  /\ \A c \in Client : Cardinality(Holders \cup {c}) =
       IF life[c] = "gone" THEN Cardinality(Holders) + 1 ELSE Cardinality(Holders)
  /\ \A c \in Client : Cardinality(Holders \ {c}) =
       IF life[c] = "gone" THEN Cardinality(Holders) ELSE Cardinality(Holders) - 1
<1>1. /\ IsFiniteSet(Holders) /\ Cardinality(Holders) <= Cardinality(Client)
      /\ Cardinality(Holders) \in Nat /\ Cardinality(Client) \in Nat
  BY FS_Subset, FS_CardinalityType, CatalogAssumption DEF Holders
<1>2. \A c \in Client : Cardinality(Holders \cup {c}) =
       IF life[c] = "gone" THEN Cardinality(Holders) + 1 ELSE Cardinality(Holders)
  BY <1>1, FS_AddElement DEF Holders
<1>3. \A c \in Client : Cardinality(Holders \ {c}) =
       IF life[c] = "gone" THEN Cardinality(Holders) ELSE Cardinality(Holders) - 1
  BY <1>1, FS_RemoveElement DEF Holders
<1>4. \A c \in Client : life[c] # "gone" => Cardinality(Holders) > 0
  BY <1>1, FS_EmptySet DEF Holders
<1>5. Cardinality(Holders) \in 0..Cardinality(Client)
  BY <1>1
<1>6. QED
  BY <1>2, <1>3, <1>4, <1>5, Zenon

(* The count is never larger than the number of clients. *)
Bounded == Cardinality(Holders) \in 0..Cardinality(Client)

LEMMA HoldersBounded == Bounded
BY HoldersCount DEF Bounded

-----------------------------------------------------------------------------
(* The invariant is kept, one part at a time.                              *)

(* Mutexes are taken and released where the owners are said to be. *)
LEMMA LocksStep == TypeOK /\ Locks /\ [Next]_vars => Locks'
<1> SUFFICES ASSUME TypeOK, Locks, [Next]_vars PROVE Locks'
  OBVIOUS
<1> USE CatalogAssumption DEF TypeOK, Locks, Owning, Passes, Free, Service, Nobody
<1>1. ASSUME NEW c \in Client, Acquire(c) PROVE Locks'
  BY <1>1 DEF Acquire, Goes, managerVars, clientVars, ownerVars, threadVars
<1>2. ASSUME NEW c \in Client, Release(c) PROVE Locks'
  BY <1>2 DEF Release, Goes, managerVars, clientVars, ownerVars, threadVars
<1>3. ASSUME NEW c \in Client, Attach(c) PROVE Locks'
  BY <1>3 DEF Attach, Goes, managerVars, clientVars, ownerVars, threadVars
<1>4. ASSUME NEW c \in Client, AttachLock(c) PROVE Locks'
  BY <1>4 DEF AttachLock, Goes, managerVars, clientVars, ownerVars, threadVars
<1>5. ASSUME NEW c \in Client, AttachAdd(c) PROVE Locks'
  BY <1>5 DEF AttachAdd, Goes, managerVars, clientVars, ownerVars, threadVars
<1>6. ASSUME NEW c \in Client, AttachDone(c) PROVE Locks'
  BY <1>6 DEF AttachDone, Goes, managerVars, clientVars, ownerVars, threadVars
<1>7. ASSUME NEW c \in Client, AttachFailed(c) PROVE Locks'
  BY <1>7 DEF AttachFailed, Goes, managerVars, clientVars, ownerVars, threadVars
<1>8. ASSUME NEW c \in Client, Detach(c) PROVE Locks'
  BY <1>8 DEF Detach, Goes, managerVars, clientVars, ownerVars, threadVars
<1>9. ASSUME NEW c \in Client, DetachRemove(c) PROVE Locks'
  BY <1>9 DEF DetachRemove, Detached, Goes, managerVars, clientVars, ownerVars, threadVars
<1>10. ASSUME NEW c \in Client, DetachStop(c) PROVE Locks'
  BY <1>10 DEF DetachStop, Detached, Goes, managerVars, clientVars, ownerVars, threadVars
<1>11. ASSUME NEW c \in Client, DetachJoin(c) PROVE Locks'
  BY <1>11 DEF DetachJoin, Detached, Goes, managerVars, clientVars, ownerVars, threadVars
<1>12. ASSUME NEW c \in Client, RequestApply(c) PROVE Locks'
  BY <1>12 DEF RequestApply, managerVars, clientVars, ownerVars, threadVars
<1>13. ASSUME NEW c \in Client, NEW ok \in BOOLEAN, AttachUpdate(c, ok) PROVE Locks'
  BY <1>13 DEF AttachUpdate, Outcome, Goes, managerVars, clientVars, ownerVars, threadVars
<1>14. CASE Test
  BY <1>14 DEF Test, OwnersKeep, managerVars, clientVars, ownerVars, threadVars
<1>15. CASE Sync
  BY <1>15 DEF Sync, OwnersKeep, managerVars, clientVars, ownerVars, threadVars
<1>16. CASE Unlock
  BY <1>16 DEF Unlock, OwnersKeep, managerVars, clientVars, ownerVars, threadVars
<1>17. CASE Lock
  BY <1>17 DEF Lock, OwnersKeep, managerVars, clientVars, ownerVars, threadVars
<1>18. ASSUME NEW c \in Client, Skip(c) PROVE Locks'
  BY <1>18 DEF Skip, OwnersKeep, managerVars, clientVars, ownerVars, threadVars
<1>19. ASSUME NEW c \in Client, Call(c) PROVE Locks'
  BY <1>19 DEF Call, OwnersKeep, managerVars, clientVars, ownerVars, threadVars
<1>20. ASSUME NEW c \in Client, NEW ok \in BOOLEAN, Return(c, ok) PROVE Locks'
  BY <1>20 DEF Return, Outcome, OwnersKeep, managerVars, clientVars, ownerVars, threadVars
<1>21. CASE UNCHANGED vars
  BY <1>21 DEF vars, managerVars, clientVars, ownerVars, threadVars
<1>22. QED
  BY <1>1, <1>2, <1>3, <1>4, <1>5, <1>6, <1>7, <1>8, <1>9, <1>10, <1>11,
     <1>12, <1>13, <1>14, <1>15, <1>16, <1>17, <1>18, <1>19, <1>20,
     <1>21
     DEF Next, ServiceStep, OwnerWaits, OwnerStep

(* The list does not change under a pass of the thread. *)
LEMMA PassStep == TypeOK /\ Locks /\ Pass /\ Attached /\ Thread /\ [Next]_vars => Pass'
<1> SUFFICES ASSUME TypeOK, Locks, Pass, Attached, Thread, [Next]_vars PROVE Pass'
  OBVIOUS
<1> USE CatalogAssumption DEF TypeOK, Locks, Pass, Attached, Thread, Owning, Passes, Free, Service, Nobody
<1>1. ASSUME NEW c \in Client, Acquire(c) PROVE Pass'
  BY <1>1 DEF Acquire, Goes, managerVars, clientVars, ownerVars, threadVars
<1>2. ASSUME NEW c \in Client, Release(c) PROVE Pass'
  BY <1>2 DEF Release, Goes, managerVars, clientVars, ownerVars, threadVars
<1>3. ASSUME NEW c \in Client, Attach(c) PROVE Pass'
  BY <1>3 DEF Attach, Goes, managerVars, clientVars, ownerVars, threadVars
<1>4. ASSUME NEW c \in Client, AttachLock(c) PROVE Pass'
  BY <1>4 DEF AttachLock, Goes, managerVars, clientVars, ownerVars, threadVars
<1>5. ASSUME NEW c \in Client, AttachAdd(c) PROVE Pass'
  BY <1>5 DEF AttachAdd, Goes, managerVars, clientVars, ownerVars, threadVars
<1>6. ASSUME NEW c \in Client, AttachDone(c) PROVE Pass'
  BY <1>6 DEF AttachDone, Goes, managerVars, clientVars, ownerVars, threadVars
<1>7. ASSUME NEW c \in Client, AttachFailed(c) PROVE Pass'
  BY <1>7 DEF AttachFailed, Goes, managerVars, clientVars, ownerVars, threadVars
<1>8. ASSUME NEW c \in Client, Detach(c) PROVE Pass'
  BY <1>8 DEF Detach, Goes, managerVars, clientVars, ownerVars, threadVars
<1>9. ASSUME NEW c \in Client, DetachRemove(c) PROVE Pass'
  BY <1>9 DEF DetachRemove, Detached, Goes, managerVars, clientVars, ownerVars, threadVars
<1>10. ASSUME NEW c \in Client, DetachStop(c) PROVE Pass'
  BY <1>10 DEF DetachStop, Detached, Goes, managerVars, clientVars, ownerVars, threadVars
<1>11. ASSUME NEW c \in Client, DetachJoin(c) PROVE Pass'
  BY <1>11 DEF DetachJoin, Detached, Goes, managerVars, clientVars, ownerVars, threadVars
<1>12. ASSUME NEW c \in Client, RequestApply(c) PROVE Pass'
  BY <1>12 DEF RequestApply, managerVars, clientVars, ownerVars, threadVars
<1>13. ASSUME NEW c \in Client, NEW ok \in BOOLEAN, AttachUpdate(c, ok) PROVE Pass'
  BY <1>13 DEF AttachUpdate, Outcome, Goes, managerVars, clientVars, ownerVars, threadVars
<1>14. CASE Test
  BY <1>14 DEF Test, OwnersKeep, managerVars, clientVars, ownerVars, threadVars
<1>15. CASE Sync
  BY <1>15 DEF Sync, OwnersKeep, managerVars, clientVars, ownerVars, threadVars
<1>16. CASE Unlock
  BY <1>16 DEF Unlock, OwnersKeep, managerVars, clientVars, ownerVars, threadVars
<1>17. CASE Lock
  BY <1>17 DEF Lock, OwnersKeep, managerVars, clientVars, ownerVars, threadVars
<1>18. ASSUME NEW c \in Client, Skip(c) PROVE Pass'
  BY <1>18 DEF Skip, OwnersKeep, managerVars, clientVars, ownerVars, threadVars
<1>19. ASSUME NEW c \in Client, Call(c) PROVE Pass'
  BY <1>19 DEF Call, OwnersKeep, managerVars, clientVars, ownerVars, threadVars
<1>20. ASSUME NEW c \in Client, NEW ok \in BOOLEAN, Return(c, ok) PROVE Pass'
  BY <1>20 DEF Return, Outcome, OwnersKeep, managerVars, clientVars, ownerVars, threadVars
<1>21. CASE UNCHANGED vars
  BY <1>21 DEF vars, managerVars, clientVars, ownerVars, threadVars
<1>22. QED
  BY <1>1, <1>2, <1>3, <1>4, <1>5, <1>6, <1>7, <1>8, <1>9, <1>10, <1>11,
     <1>12, <1>13, <1>14, <1>15, <1>16, <1>17, <1>18, <1>19, <1>20,
     <1>21
     DEF Next, ServiceStep, OwnerWaits, OwnerStep

(* attach_client() and detach_client() keep the list right. *)
LEMMA AttachedStep == TypeOK /\ Locks /\ Pass /\ Attached /\ [Next]_vars => Attached'
<1> SUFFICES ASSUME TypeOK, Locks, Pass, Attached, [Next]_vars PROVE Attached'
  OBVIOUS
<1> USE CatalogAssumption DEF TypeOK, Locks, Pass, Attached, Owning, Passes, Free, Service, Nobody
<1>1. ASSUME NEW c \in Client, Acquire(c) PROVE Attached'
  BY <1>1 DEF Acquire, Goes, managerVars, clientVars, ownerVars, threadVars
<1>2. ASSUME NEW c \in Client, Release(c) PROVE Attached'
  BY <1>2 DEF Release, Goes, managerVars, clientVars, ownerVars, threadVars
<1>3. ASSUME NEW c \in Client, Attach(c) PROVE Attached'
  BY <1>3 DEF Attach, Goes, managerVars, clientVars, ownerVars, threadVars
<1>4. ASSUME NEW c \in Client, AttachLock(c) PROVE Attached'
  BY <1>4 DEF AttachLock, Goes, managerVars, clientVars, ownerVars, threadVars
<1>5. ASSUME NEW c \in Client, AttachAdd(c) PROVE Attached'
  BY <1>5 DEF AttachAdd, Goes, managerVars, clientVars, ownerVars, threadVars
<1>6. ASSUME NEW c \in Client, AttachDone(c) PROVE Attached'
  BY <1>6 DEF AttachDone, Goes, managerVars, clientVars, ownerVars, threadVars
<1>7. ASSUME NEW c \in Client, AttachFailed(c) PROVE Attached'
  BY <1>7 DEF AttachFailed, Goes, managerVars, clientVars, ownerVars, threadVars
<1>8. ASSUME NEW c \in Client, Detach(c) PROVE Attached'
  BY <1>8 DEF Detach, Goes, managerVars, clientVars, ownerVars, threadVars
<1>9. ASSUME NEW c \in Client, DetachRemove(c) PROVE Attached'
  BY <1>9 DEF DetachRemove, Detached, Goes, managerVars, clientVars, ownerVars, threadVars
<1>10. ASSUME NEW c \in Client, DetachStop(c) PROVE Attached'
  BY <1>10 DEF DetachStop, Detached, Goes, managerVars, clientVars, ownerVars, threadVars
<1>11. ASSUME NEW c \in Client, DetachJoin(c) PROVE Attached'
  BY <1>11 DEF DetachJoin, Detached, Goes, managerVars, clientVars, ownerVars, threadVars
<1>12. ASSUME NEW c \in Client, RequestApply(c) PROVE Attached'
  BY <1>12 DEF RequestApply, managerVars, clientVars, ownerVars, threadVars
<1>13. ASSUME NEW c \in Client, NEW ok \in BOOLEAN, AttachUpdate(c, ok) PROVE Attached'
  BY <1>13 DEF AttachUpdate, Outcome, Goes, managerVars, clientVars, ownerVars, threadVars
<1>14. CASE Test
  BY <1>14 DEF Test, OwnersKeep, managerVars, clientVars, ownerVars, threadVars
<1>15. CASE Sync
  BY <1>15 DEF Sync, OwnersKeep, managerVars, clientVars, ownerVars, threadVars
<1>16. CASE Unlock
  <2>1. UNCHANGED <<vClients, pCatalog, life>>
    BY <1>16 DEF Unlock, OwnersKeep, ownerVars
  <2>2. QED
    BY <2>1
<1>17. CASE Lock
  BY <1>17 DEF Lock, OwnersKeep, managerVars, clientVars, ownerVars, threadVars
<1>18. ASSUME NEW c \in Client, Skip(c) PROVE Attached'
  BY <1>18 DEF Skip, OwnersKeep, managerVars, clientVars, ownerVars, threadVars
<1>19. ASSUME NEW c \in Client, Call(c) PROVE Attached'
  BY <1>19 DEF Call, OwnersKeep, managerVars, clientVars, ownerVars, threadVars
<1>20. ASSUME NEW c \in Client, NEW ok \in BOOLEAN, Return(c, ok) PROVE Attached'
  BY <1>20 DEF Return, Outcome, OwnersKeep, managerVars, clientVars, ownerVars, threadVars
<1>21. CASE UNCHANGED vars
  BY <1>21 DEF vars, managerVars, clientVars, ownerVars, threadVars
<1>22. QED
  BY <1>1, <1>2, <1>3, <1>4, <1>5, <1>6, <1>7, <1>8, <1>9, <1>10, <1>11,
     <1>12, <1>13, <1>14, <1>15, <1>16, <1>17, <1>18, <1>19, <1>20,
     <1>21
     DEF Next, ServiceStep, OwnerWaits, OwnerStep

(* The thread starts with a client and is joined by the last one. *)
LEMMA ThreadStep == TypeOK /\ Locks /\ Pass /\ Attached /\ Thread /\ [Next]_vars => Thread'
<1> SUFFICES ASSUME TypeOK, Locks, Pass, Attached, Thread, [Next]_vars PROVE Thread'
  OBVIOUS
<1> USE CatalogAssumption DEF TypeOK, Locks, Pass, Attached, Thread, Owning, Passes, Free, Service, Nobody
<1>1. ASSUME NEW c \in Client, Acquire(c) PROVE Thread'
  BY <1>1 DEF Acquire, Goes, managerVars, clientVars, ownerVars, threadVars
<1>2. ASSUME NEW c \in Client, Release(c) PROVE Thread'
  BY <1>2 DEF Release, Goes, managerVars, clientVars, ownerVars, threadVars
<1>3. ASSUME NEW c \in Client, Attach(c) PROVE Thread'
  BY <1>3 DEF Attach, Goes, managerVars, clientVars, ownerVars, threadVars
<1>4. ASSUME NEW c \in Client, AttachLock(c) PROVE Thread'
  BY <1>4 DEF AttachLock, Goes, managerVars, clientVars, ownerVars, threadVars
<1>5. ASSUME NEW c \in Client, AttachAdd(c) PROVE Thread'
  BY <1>5 DEF AttachAdd, Goes, managerVars, clientVars, ownerVars, threadVars
<1>6. ASSUME NEW c \in Client, AttachDone(c) PROVE Thread'
  BY <1>6 DEF AttachDone, Goes, managerVars, clientVars, ownerVars, threadVars
<1>7. ASSUME NEW c \in Client, AttachFailed(c) PROVE Thread'
  BY <1>7 DEF AttachFailed, Goes, managerVars, clientVars, ownerVars, threadVars
<1>8. ASSUME NEW c \in Client, Detach(c) PROVE Thread'
  BY <1>8 DEF Detach, Goes, managerVars, clientVars, ownerVars, threadVars
<1>9. ASSUME NEW c \in Client, DetachRemove(c) PROVE Thread'
  BY <1>9 DEF DetachRemove, Detached, Goes, managerVars, clientVars, ownerVars, threadVars
<1>10. ASSUME NEW c \in Client, DetachStop(c) PROVE Thread'
  BY <1>10 DEF DetachStop, Detached, Goes, managerVars, clientVars, ownerVars, threadVars
<1>11. ASSUME NEW c \in Client, DetachJoin(c) PROVE Thread'
  BY <1>11 DEF DetachJoin, Detached, Goes, managerVars, clientVars, ownerVars, threadVars
<1>12. ASSUME NEW c \in Client, RequestApply(c) PROVE Thread'
  BY <1>12 DEF RequestApply, managerVars, clientVars, ownerVars, threadVars
<1>13. ASSUME NEW c \in Client, NEW ok \in BOOLEAN, AttachUpdate(c, ok) PROVE Thread'
  BY <1>13 DEF AttachUpdate, Outcome, Goes, managerVars, clientVars, ownerVars, threadVars
<1>14. CASE Test
  BY <1>14 DEF Test, OwnersKeep, managerVars, clientVars, ownerVars, threadVars
<1>15. CASE Sync
  BY <1>15 DEF Sync, OwnersKeep, managerVars, clientVars, ownerVars, threadVars
<1>16. CASE Unlock
  <2>1. UNCHANGED <<vClients, life, pThread>> /\ (at # "off" <=> at' # "off")
    BY <1>16 DEF Unlock, OwnersKeep, ownerVars
  <2>2. QED
    BY <2>1
<1>17. CASE Lock
  BY <1>17 DEF Lock, OwnersKeep, managerVars, clientVars, ownerVars, threadVars
<1>18. ASSUME NEW c \in Client, Skip(c) PROVE Thread'
  BY <1>18 DEF Skip, OwnersKeep, managerVars, clientVars, ownerVars, threadVars
<1>19. ASSUME NEW c \in Client, Call(c) PROVE Thread'
  BY <1>19 DEF Call, OwnersKeep, managerVars, clientVars, ownerVars, threadVars
<1>20. ASSUME NEW c \in Client, NEW ok \in BOOLEAN, Return(c, ok) PROVE Thread'
  BY <1>20 DEF Return, Outcome, OwnersKeep, managerVars, clientVars, ownerVars, threadVars
<1>21. CASE UNCHANGED vars
  BY <1>21 DEF vars, managerVars, clientVars, ownerVars, threadVars
<1>22. QED
  BY <1>1, <1>2, <1>3, <1>4, <1>5, <1>6, <1>7, <1>8, <1>9, <1>10, <1>11,
     <1>12, <1>13, <1>14, <1>15, <1>16, <1>17, <1>18, <1>19, <1>20,
     <1>21
     DEF Next, ServiceStep, OwnerWaits, OwnerStep

(* A step that keeps the holders keeps the references. *)
LEMMA ReferencesStep == TypeOK /\ References /\ [Next]_vars => References'
<1> SUFFICES ASSUME TypeOK, References, [Next]_vars PROVE References'
  OBVIOUS
<1> USE DEF TypeOK, References, Holders
<1>0. ASSUME UNCHANGED managerVars,
             \A c \in Client : life'[c] = "gone" <=> life[c] = "gone"
      PROVE  References'
  BY <1>0 DEF managerVars
<1>1. ASSUME NEW c \in Client, Acquire(c) PROVE References'
  <2>1. Holders' = Holders \cup {c} /\ life[c] = "gone"
    BY <1>1 DEF Acquire, Goes
  <2>2. QED
    BY <1>1, <2>1, HoldersCount DEF Acquire
<1>2. ASSUME NEW c \in Client, Release(c) PROVE References'
  <2>1. Holders' = Holders \ {c} /\ life[c] # "gone"
    BY <1>2 DEF Release, Goes
  <2>2. QED
    <3>1. nCatalogRefs' = nCatalogRefs - 1 /\ (alive' <=> nCatalogRefs > 1)
      BY <1>2 DEF Release
    <3>2. Cardinality(Holders') = nCatalogRefs - 1 /\ nCatalogRefs \in Nat
      BY <2>1, HoldersCount, FS_CardinalityType, CatalogAssumption
    <3>3. QED
      BY <3>1, <3>2
<1>3. ASSUME NEW c \in Client, Attach(c) PROVE References'
  BY <1>0, <1>3 DEF Attach, Goes, managerVars
<1>4. ASSUME NEW c \in Client, AttachLock(c) PROVE References'
  BY <1>0, <1>4 DEF AttachLock, Goes, managerVars
<1>5. ASSUME NEW c \in Client, AttachAdd(c) PROVE References'
  BY <1>0, <1>5 DEF AttachAdd, Goes, managerVars
<1>6. ASSUME NEW c \in Client, AttachDone(c) PROVE References'
  BY <1>0, <1>6 DEF AttachDone, Goes, managerVars
<1>7. ASSUME NEW c \in Client, AttachFailed(c) PROVE References'
  BY <1>0, <1>7 DEF AttachFailed, Goes, managerVars
<1>8. ASSUME NEW c \in Client, Detach(c) PROVE References'
  BY <1>0, <1>8 DEF Detach, Goes, managerVars
<1>9. ASSUME NEW c \in Client, DetachRemove(c) PROVE References'
  BY <1>0, <1>9 DEF DetachRemove, Goes, managerVars
<1>10. ASSUME NEW c \in Client, DetachStop(c) PROVE References'
  BY <1>0, <1>10 DEF DetachStop, Goes, managerVars
<1>11. ASSUME NEW c \in Client, DetachJoin(c) PROVE References'
  BY <1>0, <1>11 DEF DetachJoin, Goes, managerVars
<1>12. ASSUME NEW c \in Client, RequestApply(c) PROVE References'
  BY <1>0, <1>12 DEF RequestApply, OwnersKeep, managerVars, ownerVars
<1>13. ASSUME NEW c \in Client, NEW ok \in BOOLEAN, AttachUpdate(c, ok) PROVE References'
  BY <1>0, <1>13 DEF AttachUpdate, Goes, managerVars
<1>14. CASE Test
  BY <1>0, <1>14 DEF Test, OwnersKeep, managerVars, ownerVars
<1>15. CASE Sync
  BY <1>0, <1>15 DEF Sync, OwnersKeep, managerVars, ownerVars
<1>16. CASE Unlock
  BY <1>0, <1>16 DEF Unlock, OwnersKeep, managerVars, ownerVars
<1>17. CASE Lock
  BY <1>0, <1>17 DEF Lock, OwnersKeep, managerVars, ownerVars
<1>18. ASSUME NEW c \in Client, Skip(c) PROVE References'
  BY <1>0, <1>18 DEF Skip, OwnersKeep, managerVars, ownerVars
<1>19. ASSUME NEW c \in Client, Call(c) PROVE References'
  BY <1>0, <1>19 DEF Call, OwnersKeep, managerVars, ownerVars
<1>20. ASSUME NEW c \in Client, NEW ok \in BOOLEAN, Return(c, ok) PROVE References'
  BY <1>0, <1>20 DEF Return, OwnersKeep, managerVars, ownerVars
<1>21. CASE UNCHANGED vars
  BY <1>0, <1>21 DEF vars, managerVars, ownerVars
<1>22. QED
  BY <1>1, <1>2, <1>3, <1>4, <1>5, <1>6, <1>7, <1>8, <1>9, <1>10, <1>11,
     <1>12, <1>13, <1>14, <1>15, <1>16, <1>17, <1>18, <1>19, <1>20,
     <1>21
     DEF Next, ServiceStep, OwnerWaits, OwnerStep

(* Types, which need the references to bound their number. *)
LEMMA TypeStep == TypeOK /\ References /\ [Next]_vars => TypeOK'
<1> SUFFICES ASSUME TypeOK, References, [Next]_vars PROVE TypeOK'
  OBVIOUS
<1> USE CatalogAssumption DEF TypeOK, Passes, Free, Service, Nobody
<1>1. ASSUME NEW c \in Client, Acquire(c) PROVE TypeOK'
  <2>1. nCatalogRefs' \in 0..Cardinality(Client)
    <3>1. Bounded'
      BY HoldersBounded, PTL
    <3>2. References'
      BY ReferencesStep
    <3>3. QED
      BY <3>1, <3>2, Zenon DEF References, Bounded
  <2>2. QED
    BY <1>1, <2>1 DEF Acquire, Goes, managerVars, clientVars, ownerVars, threadVars
<1>2. ASSUME NEW c \in Client, Release(c) PROVE TypeOK'
  <2>1. nCatalogRefs' \in 0..Cardinality(Client)
    <3>1. Bounded'
      BY HoldersBounded, PTL
    <3>2. References'
      BY ReferencesStep
    <3>3. QED
      BY <3>1, <3>2, Zenon DEF References, Bounded
  <2>2. QED
    BY <1>2, <2>1 DEF Release, Goes, managerVars, clientVars, ownerVars, threadVars
<1>3. ASSUME NEW c \in Client, Attach(c) PROVE TypeOK'
  BY <1>3, SerialsType DEF Attach, Goes, managerVars, clientVars, ownerVars, threadVars
<1>4. ASSUME NEW c \in Client, AttachLock(c) PROVE TypeOK'
  BY <1>4, SerialsType DEF AttachLock, Goes, managerVars, clientVars, ownerVars, threadVars
<1>5. ASSUME NEW c \in Client, AttachAdd(c) PROVE TypeOK'
  BY <1>5, SerialsType DEF AttachAdd, Goes, managerVars, clientVars, ownerVars, threadVars
<1>6. ASSUME NEW c \in Client, AttachDone(c) PROVE TypeOK'
  BY <1>6, SerialsType DEF AttachDone, Goes, managerVars, clientVars, ownerVars, threadVars
<1>7. ASSUME NEW c \in Client, AttachFailed(c) PROVE TypeOK'
  <2>1. /\ sUpdate' \in [Client -> State] /\ sApply' \in [Client -> State]
        /\ saved' \in [Client -> [upd : Serial, apl : Serial]]
    BY <1>7, SerialsType DEF AttachFailed
  <2>2. count' \in [asks : 0..MaxAsks, syncs : 0..MaxSyncs, fails : 0..MaxFails]
    BY <1>7 DEF AttachFailed, Outcome
  <2>3. QED
    BY <1>7, <2>1, <2>2 DEF AttachFailed, Goes, managerVars, threadVars
<1>8. ASSUME NEW c \in Client, Detach(c) PROVE TypeOK'
  BY <1>8, SerialsType DEF Detach, Goes, managerVars, clientVars, ownerVars, threadVars
<1>9. ASSUME NEW c \in Client, DetachRemove(c) PROVE TypeOK'
  BY <1>9, SerialsType DEF DetachRemove, Detached, Goes, managerVars, clientVars, ownerVars, threadVars
<1>10. ASSUME NEW c \in Client, DetachStop(c) PROVE TypeOK'
  BY <1>10, SerialsType DEF DetachStop, Detached, Goes, managerVars, clientVars, ownerVars, threadVars
<1>11. ASSUME NEW c \in Client, DetachJoin(c) PROVE TypeOK'
  BY <1>11, SerialsType DEF DetachJoin, Detached, Goes, managerVars, clientVars, ownerVars, threadVars
<1>12. ASSUME NEW c \in Client, RequestApply(c) PROVE TypeOK'
  BY <1>12, SerialsType DEF RequestApply, managerVars, clientVars, ownerVars, threadVars
<1>13. ASSUME NEW c \in Client, NEW ok \in BOOLEAN, AttachUpdate(c, ok) PROVE TypeOK'
  BY <1>13, SerialsType DEF AttachUpdate, Outcome, Goes, managerVars, clientVars, ownerVars, threadVars
<1>14. CASE Test
  BY <1>14, SerialsType DEF Test, OwnersKeep, managerVars, clientVars, ownerVars, threadVars
<1>15. CASE Sync
  <2>1. sUpdate' \in [Client -> State]
    BY <1>15, SerialsType DEF Sync
  <2>2. count' \in [asks : 0..MaxAsks, syncs : 0..MaxSyncs, fails : 0..MaxFails]
    BY <1>15 DEF Sync
  <2>3. QED
    BY <1>15, <2>1, <2>2 DEF Sync, OwnersKeep, managerVars, clientVars, ownerVars, threadVars
<1>16. CASE Unlock
  BY <1>16, SerialsType DEF Unlock, OwnersKeep, managerVars, clientVars, ownerVars, threadVars
<1>17. CASE Lock
  BY <1>17, SerialsType DEF Lock, OwnersKeep, managerVars, clientVars, ownerVars, threadVars
<1>18. ASSUME NEW c \in Client, Skip(c) PROVE TypeOK'
  BY <1>18, SerialsType DEF Skip, OwnersKeep, managerVars, clientVars, ownerVars, threadVars
<1>19. ASSUME NEW c \in Client, Call(c) PROVE TypeOK'
  BY <1>19, SerialsType DEF Call, OwnersKeep, managerVars, clientVars, ownerVars, threadVars
<1>20. ASSUME NEW c \in Client, NEW ok \in BOOLEAN, Return(c, ok) PROVE TypeOK'
  <2>1. sUpdate' \in [Client -> State] /\ sApply' \in [Client -> State]
    BY <1>20, SerialsType DEF Return
  <2>2. count' \in [asks : 0..MaxAsks, syncs : 0..MaxSyncs, fails : 0..MaxFails]
    BY <1>20 DEF Return, Outcome
  <2>3. asked' \in [Client -> {"no", "yes", "taken"}]
    BY <1>20 DEF Return
  <2>4. QED
    BY <1>20, <2>1, <2>2, <2>3, SerialsType DEF Return, OwnersKeep, managerVars, clientVars, ownerVars, threadVars
<1>21. CASE UNCHANGED vars
  BY <1>21 DEF vars, managerVars, clientVars, ownerVars, threadVars
<1>22. QED
  BY <1>1, <1>2, <1>3, <1>4, <1>5, <1>6, <1>7, <1>8, <1>9, <1>10, <1>11,
     <1>12, <1>13, <1>14, <1>15, <1>16, <1>17, <1>18, <1>19, <1>20,
     <1>21
     DEF Next, ServiceStep, OwnerWaits, OwnerStep

(* Core is an invariant. *)
LEMMA CoreInvariant == Spec => []Core
<1>1. Init => Core
  <2> SUFFICES ASSUME Init PROVE Core
    OBVIOUS
  <2> USE CatalogAssumption DEF Init
  <2>1. Holders = {}
    BY DEF Holders
  <2>2. References
    BY <2>1, FS_EmptySet DEF References
  <2>3. TypeOK
    <3>1. 0 \in 0..Cardinality(Client)
      BY FS_CardinalityType
    <3>2. count \in [asks : 0..MaxAsks, syncs : 0..MaxSyncs, fails : 0..MaxFails]
      OBVIOUS
    <3>3. /\ sUpdate \in [Client -> State] /\ sApply \in [Client -> State]
          /\ saved \in [Client -> [upd : Serial, apl : Serial]]
      BY SerialsType
    <3>4. QED
      BY <3>1, <3>2, <3>3, SerialsType DEF TypeOK, Passes, Free, Service, Nobody
  <2>4. Locks /\ Pass /\ Attached /\ Thread
    BY DEF Locks, Pass, Attached, Thread, Owning, Passes, Free, Service, Nobody
  <2>5. QED
    BY <2>2, <2>3, <2>4 DEF Core
<1>2. Core /\ [Next]_vars => Core'
  BY TypeStep, LocksStep, PassStep, AttachedStep, ThreadStep, ReferencesStep DEF Core
<1>3. QED
  BY <1>1, <1>2, PTL DEF Spec

-----------------------------------------------------------------------------
(* Every variable keeps its type; the manager never counts more references *)
(* than there are clients, and never less than none.                       *)
THEOREM TypeCorrect == Spec => []TypeOK
<1>1. Core => TypeOK
  BY DEF Core
<1>2. QED
  BY <1>1, CoreInvariant, PTL

(* No client is called after detach() returned for it, and the thread ends *)
(* before the catalog it works on is deleted.                              *)
THEOREM NoLateCall == Spec => []NeverCalledAfterDetach
<1>1. Core => NeverCalledAfterDetach
  <2> SUFFICES ASSUME Core PROVE NeverCalledAfterDetach
    OBVIOUS
  <2>1. \A c \in Client : life[c] # "gone" => alive
    BY HoldersCount DEF Core, References
  <2>2. at # "off" => alive
    <3>1. at # "off" => \E c \in Client : life[c] # "gone"
      BY DEF Core, TypeOK, Thread, Attached
    <3>2. QED
      BY <2>1, <3>1
  <2>3. busy # Nobody => busy \in vClients /\ at # "off"
    BY DEF Core, Pass, Passes
  <2>4. \A c \in Client : pCatalog[c] /\ life[c] = "holds" => c \in vClients
    BY DEF Core, Attached
  <2>5. QED
    BY <2>2, <2>3, <2>4 DEF NeverCalledAfterDetach
<1>2. QED
  BY <1>1, CoreInvariant, PTL

-----------------------------------------------------------------------------
(* The thread that serves: the pointer tells whether there is a thread     *)
(* unless it dangles, the thread is cancelled only by the owner that joins *)
(* it, and the pointer is set before a client is attached for good.        *)
Serving ==
  /\ pThread = "thread" /\ ~cancelled => at # "off"
  /\ cancelled <=> \E c \in Client : life[c] = "join"
  /\ vClients # {} => \/ pThread # "NULL"
                      \/ \E c \in Client : life[c] \in {"update", "start"}

(* Each call leaves the pointer and the thread in step. *)
LEMMA ServingStep == Core /\ Serving /\ [Next]_vars => Serving'
<1> SUFFICES ASSUME Core, Serving, [Next]_vars PROVE Serving'
  OBVIOUS
<1> USE CatalogAssumption DEF Core, TypeOK, Locks, Pass, Attached, Thread, Serving, Owning, Passes, Free, Service, Nobody
<1>1. ASSUME NEW c \in Client, Acquire(c) PROVE Serving'
  BY <1>1 DEF Acquire, Goes, managerVars, clientVars, ownerVars, threadVars
<1>2. ASSUME NEW c \in Client, Release(c) PROVE Serving'
  BY <1>2 DEF Release, Goes, managerVars, clientVars, ownerVars, threadVars
<1>3. ASSUME NEW c \in Client, Attach(c) PROVE Serving'
  BY <1>3 DEF Attach, Goes, managerVars, clientVars, ownerVars, threadVars
<1>4. ASSUME NEW c \in Client, AttachLock(c) PROVE Serving'
  BY <1>4 DEF AttachLock, Goes, managerVars, clientVars, ownerVars, threadVars
<1>5. ASSUME NEW c \in Client, AttachAdd(c) PROVE Serving'
  BY <1>5 DEF AttachAdd, Goes, managerVars, clientVars, ownerVars, threadVars
<1>6. ASSUME NEW c \in Client, AttachDone(c) PROVE Serving'
  BY <1>6 DEF AttachDone, Goes, managerVars, clientVars, ownerVars, threadVars
<1>7. ASSUME NEW c \in Client, AttachFailed(c) PROVE Serving'
  BY <1>7 DEF AttachFailed, Goes, managerVars, clientVars, ownerVars, threadVars
<1>8. ASSUME NEW c \in Client, Detach(c) PROVE Serving'
  BY <1>8 DEF Detach, Goes, managerVars, clientVars, ownerVars, threadVars
<1>9. ASSUME NEW c \in Client, DetachRemove(c) PROVE Serving'
  BY <1>9 DEF DetachRemove, Detached, Goes, managerVars, clientVars, ownerVars, threadVars
<1>10. ASSUME NEW c \in Client, DetachStop(c) PROVE Serving'
  BY <1>10 DEF DetachStop, Detached, Goes, managerVars, clientVars, ownerVars, threadVars
<1>11. ASSUME NEW c \in Client, DetachJoin(c) PROVE Serving'
  BY <1>11 DEF DetachJoin, Detached, Goes, managerVars, clientVars, ownerVars, threadVars
<1>12. ASSUME NEW c \in Client, RequestApply(c) PROVE Serving'
  BY <1>12 DEF RequestApply, managerVars, clientVars, ownerVars, threadVars
<1>13. ASSUME NEW c \in Client, NEW ok \in BOOLEAN, AttachUpdate(c, ok) PROVE Serving'
  BY <1>13 DEF AttachUpdate, Outcome, Goes, managerVars, clientVars, ownerVars, threadVars
<1>14. CASE Test
  BY <1>14 DEF Test, OwnersKeep, managerVars, clientVars, ownerVars, threadVars
<1>15. CASE Sync
  BY <1>15 DEF Sync, OwnersKeep, managerVars, clientVars, ownerVars, threadVars
<1>16. CASE Unlock
  BY <1>16 DEF Unlock, OwnersKeep, managerVars, clientVars, ownerVars, threadVars
<1>17. CASE Lock
  BY <1>17 DEF Lock, OwnersKeep, managerVars, clientVars, ownerVars, threadVars
<1>18. ASSUME NEW c \in Client, Skip(c) PROVE Serving'
  BY <1>18 DEF Skip, OwnersKeep, managerVars, clientVars, ownerVars, threadVars
<1>19. ASSUME NEW c \in Client, Call(c) PROVE Serving'
  BY <1>19 DEF Call, OwnersKeep, managerVars, clientVars, ownerVars, threadVars
<1>20. ASSUME NEW c \in Client, NEW ok \in BOOLEAN, Return(c, ok) PROVE Serving'
  BY <1>20 DEF Return, Outcome, OwnersKeep, managerVars, clientVars, ownerVars, threadVars
<1>21. CASE UNCHANGED vars
  BY <1>21 DEF vars, managerVars, clientVars, ownerVars, threadVars
<1>22. QED
  BY <1>1, <1>2, <1>3, <1>4, <1>5, <1>6, <1>7, <1>8, <1>9, <1>10, <1>11,
     <1>12, <1>13, <1>14, <1>15, <1>16, <1>17, <1>18, <1>19, <1>20,
     <1>21
     DEF Next, ServiceStep, OwnerWaits, OwnerStep

(* Between the calls that attach and detach there is a thread that serves  *)
(* exactly if there are clients, unless a start failed before.             *)
THEOREM ClientsServed == Spec => []ThreadServes
<1>1. Init => Serving
  BY DEF Init, Serving
<1>2. Core /\ Serving => ThreadServes
  BY CatalogAssumption DEF Core, TypeOK, Serving, ThreadServes, Locks, Thread, Owning, Free
<1>3. QED
  BY <1>1, <1>2, ServingStep, CoreInvariant, PTL DEF Spec

=============================================================================
