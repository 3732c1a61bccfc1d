----------------------------- MODULE KVTStorage -----------------------------
(***************************************************************************)
(* core::KVTStorage (src/main/core/KVTStorage.cpp): the key-value tree in  *)
(* which the plugin (DSP) side and the UI side share named parameters.     *)
(*                                                                         *)
(* Nodes are reference counted by hand: a node counts its own parameter    *)
(* and each child that is itself referenced.  A node moves between the     *)
(* lists sValid and sGarbage when its count leaves or reaches zero and is  *)
(* freed by gc().  Replaced and removed parameters wait in pTrash, so a    *)
(* pointer handed out by get() stays usable until gc().                    *)
(*                                                                         *)
(* The storage is called under the wrapper's KVT mutex, so one call is one *)
(* step, except touch_all(), commit_all() and remove_branch(): these call  *)
(* the listeners from inside their loops, so one round of the loop is one  *)
(* step and what a listener can see between two rounds is a state here.    *)
(***************************************************************************)
EXTENDS Integers, FiniteSets

CONSTANTS
  Node,      \* the paths below "/"; also names the kvt_node_t at that path
  Root,      \* sRoot
  Parent,    \* Parent[n]: the path n without its last component
  Above,     \* Above[n]: the proper prefixes of n, the root included
  Spare,     \* the kvt_node_t objects malloc can return that are never linked
  Param,     \* the kvt_gcparam_t objects malloc can return
  Private,   \* those that carry KVT_PRIVATE
  NULL

Tree == Node \cup {Root}
Flags == {"TX", "RX"}

(* A path and its prefixes: what the loops "x = x->parent" visit. *)
Upto(n) == {n} \cup Above[n]

(* Paths ordered by "is a proper prefix of" form a tree below the root:    *)
(* the order is strict, the prefixes of a path are ordered among each      *)
(* other, each but the path itself is extended by one component towards    *)
(* it, and two paths have a longest common prefix.                         *)
ASSUME TreeAssumption ==
  /\ IsFiniteSet(Node)
  /\ Root \notin Node
  /\ Parent \in [Node -> Tree]
  /\ Above \in [Tree -> SUBSET Tree]
  /\ Above[Root] = {}
  /\ \A n \in Node : n \notin Above[n] /\ Above[n] = {Parent[n]} \cup Above[Parent[n]]
  /\ \A n \in Tree : \A a \in Above[n] : Above[a] \subseteq Above[n]
  /\ \A n \in Tree : \A a, b \in Upto(n) : a = b \/ a \in Above[b] \/ b \in Above[a]
  /\ \A n \in Tree : \A a \in Above[n] : \E c \in Upto(n) \cap Node : Parent[c] = a
  /\ \A m, n \in Tree : \E b \in Upto(m) \cap Upto(n) :
        \A a \in Upto(m) \cap Upto(n) : a \in Upto(b)

ASSUME SpareAssumption == Spare \cap Tree = {}

ASSUME ParamAssumption == Private \subseteq Param /\ NULL \notin Param

VARIABLES
  children,    \* kvt_node_t::children, as sets: the order is for iterators only
  refs,        \* kvt_node_t::refs
  param,       \* kvt_node_t::param
  pending,     \* kvt_node_t::pending
  sValid,      \* the list of referenced nodes
  sGarbage,    \* the list of nodes gc() will free
  sTx, sRx,    \* the lists of nodes with KVT_TX / KVT_RX pending
  pTrash,      \* parameters gc() will free
  nNodes, nValues, nTxPending, nRxPending,
  loop,        \* the multi-step call in progress and the nodes it has yet to visit
  ret          \* path, status and value of the last call, NoReturn while it loops

treeVars    == <<children, refs, sValid, sGarbage, nNodes>>
valueVars   == <<param, pTrash, nValues>>
pendingVars == <<pending, sTx, sRx, nTxPending, nRxPending>>
vars == <<treeVars, valueVars, pendingVars, loop, ret>>

Status == {"OK", "NOT_FOUND", "ALREADY_EXISTS", "BAD_TYPE", "NO_MEM",
           "INVALID_VALUE"}
Ops == {"idle", "remove_branch", "touch_all", "commit_all"}
Idle == [op |-> "idle", base |-> Root, flags |-> {}, private |-> FALSE, todo |-> {}]

Return(n, s, v) == ret' = [path |-> n, status |-> s, value |-> v]
NoReturn == [path |-> Root, status |-> "OK", value |-> NULL]

(* The nodes put() and walk_node() pass on their way from the root to n. *)
Path(n) == Upto(n) \ {Root}

(* The nodes a climb from n has passed when it comes to y. *)
Passed(y, n) == {z \in Upto(n) : y \in Above[z]}

(* malloc: an object that is neither stored nor in the trash. *)
Fresh == Param \ (pTrash \cup {param[n] : n \in Node})

Init ==
  /\ children = [n \in Tree |-> {}]
  /\ refs = [n \in Tree |-> IF n = Root THEN 1 ELSE 0]
  /\ param = [n \in Tree |-> NULL]
  /\ pending = [n \in Tree |-> {}]
  /\ sValid = {} /\ sGarbage = {} /\ sTx = {} /\ sRx = {} /\ pTrash = {}
  /\ nNodes = 0 /\ nValues = 0 /\ nTxPending = 0 /\ nRxPending = 0
  /\ loop = Idle
  /\ ret = NoReturn

-----------------------------------------------------------------------------
(* set_pending_state(): a list and its counter change only when the flag does. *)
Relist(list, n, had, has) ==
  IF had = has THEN list ELSE IF has THEN list \cup {n} ELSE list \ {n}

(* Slip: the counter moves although the flag does not. *)
RecountAlways(count, had, has) == IF has THEN count + 1 ELSE count - 1

Recount(count, had, has) ==
  IF had = has THEN count ELSE IF has THEN count + 1 ELSE count - 1

SetPending(n, flags) ==
  LET had(f) == f \in pending[n]
      has(f) == f \in flags
  IN  /\ pending' = [pending EXCEPT ![n] = flags]
      /\ sTx' = Relist(sTx, n, had("TX"), has("TX"))
      /\ nTxPending' = Recount(nTxPending, had("TX"), has("TX"))
      /\ sRx' = Relist(sRx, n, had("RX"), has("RX"))
      /\ nRxPending' = Recount(nRxPending, had("RX"), has("RX"))

(* Slip: the climb does not stop at a node that was referenced already. *)
RaisedToRoot(n) == Upto(n)

(* reference_up(): every node from n upwards counts one more, up to and    *)
(* including the first one that was referenced already.                    *)
Raised(n) == {y \in Upto(n) : \A z \in Passed(y, n) : refs[z] <= 0}

ReferenceUp(n, garbage) ==
  LET moved == {y \in Raised(n) : refs[y] <= 0}
  IN  /\ refs' = [y \in Tree |-> IF y \in Raised(n) THEN refs[y] + 1 ELSE refs[y]]
      /\ sValid' = sValid \cup moved
      /\ sGarbage' = garbage \ moved
      /\ nNodes' = nNodes + Cardinality(moved)

(* reference_down(): every node from n upwards counts one less, up to and  *)
(* including the first one that remains referenced.                        *)
Lowered(n) == {y \in Upto(n) : \A z \in Passed(y, n) : refs[z] - 1 <= 0}

ReferenceDown(n) ==
  LET moved == {y \in Lowered(n) : refs[y] - 1 <= 0}
  IN  /\ refs' = [y \in Tree |-> IF y \in Lowered(n) THEN refs[y] - 1 ELSE refs[y]]
      /\ sValid' = sValid \ moved
      /\ sGarbage' = sGarbage \cup moved
      /\ nNodes' = nNodes - Cardinality(moved)

(* create_node() for each component: what is missing is allocated into the *)
(* garbage list with no references and linked to its parent.               *)
Missing(n) == {y \in Path(n) : y \notin children[Parent[y]]}
Linked(n) == [p \in Tree |-> children[p] \cup {y \in Missing(n) : Parent[y] = p}]

(* walk_node(): every node of the path is linked and referenced. *)
Found(n) == \A y \in Path(n) : y \in children[Parent[y]] /\ refs[y] > 0

-----------------------------------------------------------------------------
(* put() of a path that has no parameter. *)
PutCreated(n, v, flags) ==
  /\ param[n] = NULL
  /\ v \in Fresh
  /\ children' = Linked(n)
  /\ SetPending(n, pending[n] \cup flags)
  /\ ReferenceUp(n, sGarbage \cup Missing(n))
  /\ param' = [param EXCEPT ![n] = v]
  /\ nValues' = nValues + 1
  /\ Return(n, "OK", NULL)
  /\ UNCHANGED pTrash

(* put() that replaces a parameter: the old one goes to the trash. *)
PutChanged(n, v, flags) ==
  /\ param[n] # NULL
  /\ v \in Fresh
  /\ children' = Linked(n)
  /\ sGarbage' = sGarbage \cup Missing(n)
  /\ SetPending(n, pending[n] \cup flags)
  /\ pTrash' = pTrash \cup {param[n]}
  /\ param' = [param EXCEPT ![n] = v]
  /\ Return(n, "OK", NULL)
  /\ UNCHANGED <<refs, sValid, nNodes, nValues>>

(* put() with KVT_KEEP of a path that has a parameter. *)
PutRejected(n) ==
  /\ param[n] # NULL
  /\ children' = Linked(n)
  /\ sGarbage' = sGarbage \cup Missing(n)
  /\ Return(n, "ALREADY_EXISTS", NULL)
  /\ UNCHANGED <<refs, sValid, nNodes, valueVars, pendingVars>>

(* put() that fails after it created the nodes of n: an empty component    *)
(* follows ("/a/"), or malloc fails for the next node or the parameter.    *)
(* PutOrphaned is the other way to fail.                                   *)
PutFailed(n) ==
  /\ children' = Linked(n)
  /\ sGarbage' = sGarbage \cup Missing(n)
  /\ \E s \in {"INVALID_VALUE", "NO_MEM"} : Return(n, s, NULL)
  /\ UNCHANGED <<refs, sValid, nNodes, valueVars, pendingVars>>

(* put() that fails in create_node() for n itself: allocate_node() has put *)
(* the object s in the garbage list when realloc fails for the children    *)
(* array of the parent, so s is linked nowhere and its parent stays NULL.  *)
PutOrphaned(n, s) ==
  /\ n \in Missing(n)
  /\ s \notin sGarbage
  /\ children' = Linked(Parent[n])
  /\ sGarbage' = sGarbage \cup Missing(Parent[n]) \cup {s}
  /\ Return(n, "NO_MEM", NULL)
  /\ UNCHANGED <<refs, sValid, nNodes, valueVars, pendingVars>>

(* get() and exists(); match: the caller asks for the type the value has. *)
Get(n, match) ==
  /\ IF ~Found(n) \/ param[n] = NULL THEN Return(n, "NOT_FOUND", NULL)
     ELSE IF match THEN Return(n, "OK", param[n]) ELSE Return(n, "BAD_TYPE", NULL)
  /\ UNCHANGED <<treeVars, valueVars, pendingVars>>

(* Slip: the parameter goes while its node stays pending. *)
TakeParamPending(n) ==
  /\ ReferenceDown(n)
  /\ pTrash' = pTrash \cup {param[n]}
  /\ param' = [param EXCEPT ![n] = NULL]
  /\ nValues' = nValues - 1
  /\ UNCHANGED <<children, pendingVars>>

(* Slip: the node keeps its pointer to the parameter it gave to the trash. *)
TakeParamKept(n) ==
  /\ SetPending(n, {})
  /\ ReferenceDown(n)
  /\ pTrash' = pTrash \cup {param[n]}
  /\ nValues' = nValues - 1
  /\ UNCHANGED <<children, param>>

(* What do_remove_node() and do_remove_branch() do to one parameter. *)
TakeParam(n) ==
  /\ SetPending(n, {})
  /\ ReferenceDown(n)
  /\ pTrash' = pTrash \cup {param[n]}
  /\ param' = [param EXCEPT ![n] = NULL]
  /\ nValues' = nValues - 1
  /\ UNCHANGED children

Remove(n, match) ==
  IF Found(n) /\ param[n] # NULL /\ match
  THEN TakeParam(n) /\ Return(n, "OK", param[n])
  ELSE /\ Return(n, IF Found(n) /\ param[n] # NULL THEN "BAD_TYPE" ELSE "NOT_FOUND", NULL)
       /\ UNCHANGED <<treeVars, valueVars, pendingVars>>

(* do_touch(): a private parameter is skipped unless KVT_PRIVATE is given. *)
Skipped(n, private) == param[n] = NULL \/ (param[n] \in Private /\ ~private)

Touch(n, flags, private) ==
  /\ Return(n, IF Found(n) /\ param[n] # NULL THEN "OK" ELSE "NOT_FOUND", NULL)
  /\ IF Found(n) /\ ~Skipped(n, private)
     THEN SetPending(n, pending[n] \cup flags)
     ELSE UNCHANGED pendingVars
  /\ UNCHANGED <<treeVars, valueVars>>

(* do_commit(): the transfer of the flags is done. *)
Commit(n, flags) ==
  /\ Return(n, IF Found(n) /\ param[n] # NULL THEN "OK" ELSE "NOT_FOUND", NULL)
  /\ IF Found(n) /\ param[n] # NULL
     THEN SetPending(n, pending[n] \ flags)
     ELSE UNCHANGED pendingVars
  /\ UNCHANGED <<treeVars, valueVars>>

(* Slip: a parent with one reference is taken for garbage. *)
SweptBusy == {p \in Tree : refs[p] > 1 /\ sGarbage \cap children[p] # {}}

(* The referenced parents of garbage nodes, whose arrays gc() cleans.  A   *)
(* node that was never linked has none (parent == NULL).                   *)
Swept == {p \in Tree : refs[p] > 0 /\ sGarbage \cap children[p] # {}}

(* gc(): free the trash, clean the children arrays, free the garbage. *)
Gc ==
  /\ pTrash' = {}
  /\ children' = [p \in Tree |->
                    IF p \in sGarbage THEN {}
                    ELSE IF p \in Swept THEN {c \in children[p] : refs[c] > 0}
                    ELSE children[p]]
  /\ refs' = [n \in Tree |-> IF n \in sGarbage THEN 0 ELSE refs[n]]
  /\ param' = [n \in Tree |-> IF n \in sGarbage THEN NULL ELSE param[n]]
  /\ pending' = [n \in Tree |-> IF n \in sGarbage THEN {} ELSE pending[n]]
  /\ sTx' = sTx \ sGarbage
  /\ sRx' = sRx \ sGarbage
  /\ sGarbage' = {}
  /\ UNCHANGED <<sValid, nNodes, nValues, nTxPending, nRxPending, ret>>

-----------------------------------------------------------------------------
(* remove_branch(), and clear() which is remove_branch() of the root. *)
RemoveBranch(n) ==
  /\ \/ /\ Found(n)
        /\ loop' = [op |-> "remove_branch", base |-> n, flags |-> {},
                    private |-> FALSE, todo |-> {n}]
        /\ ret' = NoReturn
     \/ /\ Return(n, IF Found(n) THEN "NO_MEM" ELSE "NOT_FOUND", NULL)
        /\ UNCHANGED loop
  /\ UNCHANGED <<treeVars, valueVars, pendingVars>>

(* No memory for the path a listener is told, or for a task: the loop ends *)
(* with part of its work done.                                             *)
GiveUp == loop' = Idle /\ Return(loop.base, "NO_MEM", NULL)

(* Slip: the children are pushed only by a node without a parameter. *)
RemoveBranchStepShallow(n) ==
  /\ loop.op = "remove_branch"
  /\ n \in loop.todo
  /\ IF param[n] # NULL THEN TakeParam(n)
                        ELSE UNCHANGED <<treeVars, valueVars, pendingVars>>
  /\ loop' = [loop EXCEPT !.todo = (@ \ {n}) \cup
                {c \in children[n] : param[n] = NULL /\ refs[c] > 0}]
  /\ UNCHANGED ret

(* Slip: a node without a parameter is treated like one that has it. *)
RemoveBranchStepBlind(n) ==
  /\ loop.op = "remove_branch"
  /\ n \in loop.todo
  /\ TakeParam(n)
  /\ loop' = [loop EXCEPT !.todo = (@ \ {n}) \cup {c \in children[n] : refs[c] > 0}]
  /\ UNCHANGED ret

(* One round of do_remove_branch(): take a task, drop its parameter, push  *)
(* its referenced children.  The stack's order is left open.               *)
RemoveBranchStep(n) ==
  /\ loop.op = "remove_branch"
  /\ n \in loop.todo
  /\ IF param[n] # NULL THEN TakeParam(n)
                        ELSE UNCHANGED <<treeVars, valueVars, pendingVars>>
  /\ \/ /\ loop' = [loop EXCEPT !.todo = (@ \ {n}) \cup {c \in children[n] : refs[c] > 0}]
        /\ UNCHANGED ret
     \/ ((param[n] # NULL \/ \E c \in children[n] : refs[c] > 0) /\ GiveUp)

TouchAll(flags, private) ==
  /\ loop' = [op |-> "touch_all", base |-> Root, flags |-> flags,
              private |-> private, todo |-> sValid]
  /\ ret' = NoReturn
  /\ UNCHANGED <<treeVars, valueVars, pendingVars>>

TouchAllStep(n) ==
  /\ loop.op = "touch_all"
  /\ n \in loop.todo
  /\ IF Skipped(n, loop.private) THEN UNCHANGED pendingVars
                                 ELSE SetPending(n, pending[n] \cup loop.flags)
  /\ \/ loop' = [loop EXCEPT !.todo = @ \ {n}] /\ UNCHANGED ret
     \/ (pending' # pending /\ GiveUp)
  /\ UNCHANGED <<treeVars, valueVars>>

CommitAll(flags) ==
  /\ loop' = [Idle EXCEPT !.op = "commit_all", !.flags = flags]
  /\ ret' = NoReturn
  /\ UNCHANGED <<treeVars, valueVars, pendingVars>>

(* The nodes commit_all() has left: first the TX list, then the RX list. *)
CommitList == IF "TX" \in loop.flags /\ sTx # {} THEN sTx
              ELSE IF "RX" \in loop.flags THEN sRx ELSE {}

(* One round of commit_all(): a pending node without a parameter is met    *)
(* again in the next round, for ever.                                      *)
CommitAllStep(n) ==
  /\ loop.op = "commit_all"
  /\ n \in CommitList
  /\ IF param[n] = NULL THEN UNCHANGED pendingVars
     ELSE SetPending(n, pending[n] \
            {IF "TX" \in loop.flags /\ sTx # {} THEN "TX" ELSE "RX"})
  /\ UNCHANGED <<loop, ret>> \/ (pending' # pending /\ GiveUp)
  /\ UNCHANGED <<treeVars, valueVars>>

LoopDone ==
  /\ loop.op # "idle"
  /\ loop.op = "commit_all" => CommitList = {}
  /\ loop.op # "commit_all" => loop.todo = {}
  /\ loop' = Idle
  /\ Return(loop.base, "OK", NULL)
  /\ UNCHANGED <<treeVars, valueVars, pendingVars>>

-----------------------------------------------------------------------------
(* A call that is one step, made while no other call is in progress. *)
Call ==
  /\ loop.op = "idle"
  /\ UNCHANGED loop
  /\ \/ \E n \in Node, v \in Param, flags \in SUBSET Flags :
          PutCreated(n, v, flags) \/ PutChanged(n, v, flags)
     \/ \E n \in Node : PutRejected(n) \/ PutFailed(n)
     \/ \E n \in Node, s \in Spare : PutOrphaned(n, s)
     \/ \E n \in Node, match \in BOOLEAN : Get(n, match) \/ Remove(n, match)
     \/ \E n \in Node, flags \in SUBSET Flags \ {{}} :
          Commit(n, flags) \/ \E private \in BOOLEAN : Touch(n, flags, private)
     \/ Gc

LoopStart ==
  /\ loop.op = "idle"
  /\ \/ \E n \in Tree : RemoveBranch(n)
     \/ \E flags \in SUBSET Flags :
          CommitAll(flags) \/ \E private \in BOOLEAN : TouchAll(flags, private)

LoopStep == \E n \in Tree : RemoveBranchStep(n) \/ TouchAllStep(n) \/ CommitAllStep(n)

Next == Call \/ LoopStart \/ LoopStep \/ LoopDone

Spec == Init /\ [][Next]_vars

(* A call that has begun keeps running: it holds the mutex and never waits. *)
FairSpec == Spec /\ WF_vars(LoopStep) /\ WF_vars(LoopDone)
-----------------------------------------------------------------------------
TypeOK ==
  /\ children \in [Tree -> SUBSET Node]
  /\ refs \in [Tree -> Int]
  /\ param \in [Tree -> Param \cup {NULL}] /\ param[Root] = NULL
  /\ pending \in [Tree -> SUBSET Flags]
  /\ sValid \subseteq Node /\ sGarbage \subseteq Node \cup Spare
  /\ sTx \subseteq Node /\ sRx \subseteq Node
  /\ pTrash \subseteq Param
  /\ nNodes \in Int /\ nValues \in Int /\ nTxPending \in Int /\ nRxPending \in Int
  /\ loop \in [op : Ops, base : Tree, flags : SUBSET Flags, private : BOOLEAN,
               todo : SUBSET Tree]
  /\ ret \in [path : Tree, status : Status, value : Param \cup {NULL}]

Allocated == sValid \cup sGarbage
Children(n) == {c \in Node : Parent[c] = n}
Referenced(n) == {c \in children[n] : refs[c] > 0}
Own(n) == (IF param[n] # NULL THEN 1 ELSE 0) + (IF n = Root THEN 1 ELSE 0)

(* A node counts its own parameter and each of its referenced children,    *)
(* nothing more and nothing less (reference_up() and reference_down()      *)
(* climb only as far as needed).  A count too low frees a node in use, a   *)
(* count too high never lets it go.                                        *)
RefsExact == \A n \in Tree : refs[n] = Own(n) + Cardinality(Referenced(n))

(* Nothing dangles: the children arrays hold only nodes that are not freed *)
(* yet, and all of them but those that failed to be linked, a referenced   *)
(* node is reachable from the root through referenced nodes, and the two   *)
(* lists split the allocated nodes by their counts.                        *)
TreeSound ==
  /\ sValid = {n \in Node : refs[n] > 0}
  /\ sGarbage \cap sValid = {}
  /\ \A n \in Tree : children[n] = Allocated \cap Children(n)
  /\ \A n \in Allocated \cap Node : Parent[n] \in Allocated \cup {Root}
  /\ \A n \in sValid : Path(n) \subseteq sValid

(* A node is pending for transfer only while it holds a parameter: garbage *)
(* nodes leave no link in the TX and RX lists, and commit_all(), which     *)
(* skips nodes without a parameter without unlinking them, comes to an end.*)
PendingHasParam ==
  /\ sTx = {n \in Node : "TX" \in pending[n]}
  /\ sRx = {n \in Node : "RX" \in pending[n]}
  /\ \A n \in Tree : param[n] = NULL => pending[n] = {}

(* nodes(), values(), tx_pending() and rx_pending() tell the truth. *)
CountersExact ==
  /\ nNodes = Cardinality(sValid)
  /\ nValues = Cardinality({n \in Node : param[n] # NULL})
  /\ nTxPending = Cardinality(sTx)
  /\ nRxPending = Cardinality(sRx)

(* A parameter has one owner, a node or the trash, so gc() frees none that *)
(* a node still holds and frees none twice.                                *)
ParamsOwned ==
  /\ \A m, n \in Tree : param[m] = param[n] /\ m # n => param[m] = NULL
  /\ \A n \in Tree : param[n] \notin pTrash

(* The tree keeps the promises of the map.  In particular get() finds what *)
(* put() stored whatever was removed around it, and the calls that visit   *)
(* many parameters leave out none of them.                                 *)
Map == INSTANCE KVTMap WITH
         store <- [n \in Node |-> param[n]],
         marks <- [n \in Node |-> pending[n]],
         bulk  <- [op |-> loop.op, base |-> loop.base, flags |-> loop.flags,
                   private |-> loop.private]
ImplementsMap == Map!MapSpec

(* Every call that loops comes to an end. *)
LoopsEnd == []<>(loop.op = "idle")
=============================================================================
