------------------------------- MODULE KVTMap -------------------------------
(***************************************************************************)
(* What core::KVTStorage promises to its callers, with no tree in it: a    *)
(* map from paths to parameters, the KVT_TX / KVT_RX marks of each path,   *)
(* and the status the last call returned.  touch_all(), commit_all() and   *)
(* remove_branch() visit their parameters one at a time and call the       *)
(* listeners in between, so here too they are a series of steps; each of   *)
(* them may say OK only when its work is complete.                         *)
(***************************************************************************)
EXTENDS Integers

CONSTANTS
  Node,      \* the paths a parameter can be stored under
  Root,      \* the path "/", which never holds a parameter
  Above,     \* Above[n]: every path that is a proper prefix of n
  Param,     \* the parameters (kvt_gcparam_t objects)
  Private,   \* the parameters that carry KVT_PRIVATE
  NULL

Flags == {"TX", "RX"}

VARIABLES
  store,     \* store[n]: the parameter stored under n, or NULL
  marks,     \* marks[n]: the pending flags of n
  bulk,      \* the call in progress that visits several parameters
  ret        \* path, status and value of the last call, NoReturn while it loops

mapVars == <<store, marks, bulk, ret>>

Status == {"OK", "NOT_FOUND", "ALREADY_EXISTS", "BAD_TYPE", "NO_MEM",
           "INVALID_VALUE"}
Idle == [op |-> "idle", base |-> Root, flags |-> {}, private |-> FALSE]
Bulk == [op : {"idle", "remove_branch", "touch_all", "commit_all"},
         base : Node \cup {Root}, flags : SUBSET Flags, private : BOOLEAN]

(* A parameter is marked only while it is stored. *)
MapOK ==
  /\ store \in [Node -> Param \cup {NULL}]
  /\ marks \in [Node -> SUBSET Flags]
  /\ \A n \in Node : store[n] = NULL => marks[n] = {}
  /\ bulk \in Bulk
  /\ ret \in [path : Node \cup {Root}, status : Status, value : Param \cup {NULL}]

Return(n, s, v) == ret' = [path |-> n, status |-> s, value |-> v]
NoReturn == [path |-> Root, status |-> "OK", value |-> NULL]

MapInit ==
  /\ store = [n \in Node |-> NULL]
  /\ marks = [n \in Node |-> {}]
  /\ bulk = Idle
  /\ ret = NoReturn

(* A parameter that is not stored yet becomes the value of n. *)
MapPut(n, v, flags) ==
  /\ \A m \in Node : store[m] # v
  /\ store' = [store EXCEPT ![n] = v]
  /\ marks' = [marks EXCEPT ![n] = @ \cup flags]
  /\ Return(n, "OK", NULL)
  /\ UNCHANGED bulk

MapReject(n) ==
  /\ store[n] # NULL
  /\ Return(n, "ALREADY_EXISTS", NULL)
  /\ UNCHANGED <<store, marks, bulk>>

(* An empty component follows n in the path, or memory is short. *)
MapFail(n, s) ==
  /\ s \in {"INVALID_VALUE", "NO_MEM"}
  /\ Return(n, s, NULL)
  /\ UNCHANGED <<store, marks, bulk>>

MapGet(n, match) ==
  /\ IF store[n] = NULL THEN Return(n, "NOT_FOUND", NULL)
     ELSE IF match THEN Return(n, "OK", store[n]) ELSE Return(n, "BAD_TYPE", NULL)
  /\ UNCHANGED <<store, marks, bulk>>

(* remove_branch() may say NOT_FOUND only of a branch that stores nothing. *)
MapNoBranch(n) ==
  /\ \A m \in Node : n \in {m} \cup Above[m] => store[m] = NULL
  /\ Return(n, "NOT_FOUND", NULL)
  /\ UNCHANGED <<store, marks, bulk>>

Drop(n) ==
  /\ store' = [store EXCEPT ![n] = NULL]
  /\ marks' = [marks EXCEPT ![n] = {}]

MapRemove(n) ==
  /\ store[n] # NULL
  /\ Drop(n)
  /\ Return(n, "OK", store[n])
  /\ UNCHANGED bulk

(* A caller that does not pass KVT_PRIVATE never marks a private parameter. *)
Touchable(n, private) == store[n] # NULL /\ (store[n] \in Private => private)

MapMark(n, flags, private) ==
  /\ store[n] # NULL
  /\ marks' = [marks EXCEPT ![n] = IF Touchable(n, private) THEN @ \cup flags
                                                           ELSE @]
  /\ Return(n, "OK", NULL)
  /\ UNCHANGED <<store, bulk>>

MapUnmark(n, flags) ==
  /\ store[n] # NULL
  /\ marks' = [marks EXCEPT ![n] = @ \ flags]
  /\ Return(n, "OK", NULL)
  /\ UNCHANGED <<store, bulk>>

(* One call on one path. *)
MapCall ==
  /\ bulk.op = "idle"
  /\ \/ \E n \in Node, v \in Param, flags \in SUBSET Flags : MapPut(n, v, flags)
     \/ \E n \in Node : MapReject(n) \/ MapRemove(n)
     \/ \E n \in Node, match \in BOOLEAN : MapGet(n, match)
     \/ \E n \in Node, flags \in SUBSET Flags :
          MapUnmark(n, flags) \/ \E p \in BOOLEAN : MapMark(n, flags, p)
     \/ \E n \in Node \cup {Root}, s \in Status : MapFail(n, s)
     \/ \E n \in Node : MapNoBranch(n)

MapBulkStart ==
  /\ bulk.op = "idle"
  /\ bulk' \in {b \in Bulk : b.op # "idle"}
  /\ ret' = NoReturn
  /\ UNCHANGED <<store, marks>>

(* The memory for the rest of the work is missing. *)
MapBulkFail == bulk' = Idle /\ Return(bulk.base, "NO_MEM", NULL)

MapBulkStep ==
  /\ bulk.op # "idle"
  /\ UNCHANGED <<bulk, ret>> \/ MapBulkFail
  /\ \/ UNCHANGED <<store, marks>>
     \/ \E n \in Node : /\ bulk.op = "remove_branch"
                        /\ bulk.base \in {n} \cup Above[n]
                        /\ Drop(n)
     \/ \E n \in Node : /\ bulk.op = "touch_all"
                        /\ Touchable(n, bulk.private)
                        /\ marks' = [marks EXCEPT ![n] = @ \cup bulk.flags]
                        /\ UNCHANGED store
     \/ \E n \in Node, f \in Flags :
                        /\ bulk.op = "commit_all"
                        /\ f \in bulk.flags
                        /\ marks' = [marks EXCEPT ![n] = @ \ {f}]
                        /\ UNCHANGED store

(* The work the call was asked for is complete. *)
BulkComplete ==
  \A n \in Node :
    /\ bulk.op = "remove_branch" /\ bulk.base \in {n} \cup Above[n]
         => store[n] = NULL
    /\ bulk.op = "touch_all" /\ Touchable(n, bulk.private)
         => bulk.flags \subseteq marks[n]
    /\ bulk.op = "commit_all" => marks[n] \cap bulk.flags = {}

MapBulkEnd ==
  /\ bulk.op # "idle"
  /\ BulkComplete
  /\ bulk' = Idle
  /\ Return(bulk.base, "OK", NULL)
  /\ UNCHANGED <<store, marks>>

MapNext == MapCall \/ MapBulkStart \/ MapBulkStep \/ MapBulkEnd

MapSpec == MapInit /\ [][MapNext]_mapVars
=============================================================================
