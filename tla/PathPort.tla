------------------------------ MODULE PathPort -------------------------------
(***************************************************************************)
(* clap::path_t (wrap/clap/data.h) with its ports: a path that the host    *)
(* and the user interface request in the main thread and the plugin takes, *)
(* accepts and commits in the audio thread, while it loads the file.       *)
(*                                                                         *)
(* The user interface requests under the lock.  The host's request does    *)
(* not take it, and it writes the path of the plugin too: the audio thread *)
(* may then copy a path that is being written.                             *)
(***************************************************************************)
EXTENDS Integers

CONSTANTS
  Path, NoPath,  \* the paths, and the empty one
  Mixed,         \* a path that is being copied
  MaxRequests    \* bound: requests

PathConstants ==
  /\ NoPath \in Path /\ Mixed \notin Path /\ MaxRequests \in Nat

VARIABLES
  sPath, sDspRequest, sUiPath,
  nDspSerial, nDspCommit, nUiSerial, nUiCommit,
  nFlags,        \* "none", "pending" or "accepted"
  nDspRequest,   \* the lock: the audio thread is in pending()
  main, dsp,     \* where the threads are
  requested,     \* history: the path requested last
  loaded         \* the path the plugin accepted last: it loads this file

vars == <<sPath, sDspRequest, sUiPath, nDspSerial, nDspCommit, nUiSerial,
          nUiCommit, nFlags, nDspRequest, main, dsp, requested, loaded>>

serials == <<nDspSerial, nDspCommit, nUiSerial, nUiCommit>>

Init ==
  /\ sPath = NoPath /\ sDspRequest = NoPath /\ sUiPath = NoPath
  /\ nDspSerial = 0 /\ nDspCommit = 0 /\ nUiSerial = 0 /\ nUiCommit = 0
  /\ nFlags = "none" /\ nDspRequest = FALSE
  /\ main = "idle" /\ dsp = "idle"
  /\ requested = NoPath /\ loaded = NoPath

TypeOK ==
  /\ sPath \in Path \cup {Mixed} /\ sDspRequest \in Path \cup {Mixed}
  /\ sUiPath \in Path \cup {Mixed} /\ loaded \in Path \cup {Mixed}
  /\ requested \in Path
  /\ nDspSerial \in 0..MaxRequests /\ nDspCommit \in 0..nDspSerial
  /\ nUiSerial \in 0..nDspSerial /\ nUiCommit \in 0..nUiSerial
  /\ nFlags \in {"none", "pending", "accepted"}
  /\ main \in {"idle", "request", "path", "count"}
  /\ dsp \in {"idle", "copy", "count"}
  /\ nDspRequest \in BOOLEAN /\ (nDspRequest <=> dsp # "idle")

-----------------------------------------------------------------------------
(* submit() with ui, which waits for the lock *)
Submit(path) ==
  /\ main = "idle" /\ ~nDspRequest
  /\ nDspSerial < MaxRequests
  /\ sDspRequest' = path /\ requested' = path
  /\ nDspSerial' = nDspSerial + 1
  /\ UNCHANGED <<sPath, sUiPath, nDspCommit, nUiSerial, nUiCommit, nFlags, nDspRequest,
                 main, dsp, loaded>>

(* deserialize(), by the host: the request, *)
Deserialize(path) ==
  /\ main = "idle" /\ main' = "request"
  /\ nDspSerial < MaxRequests
  /\ requested' = path /\ sDspRequest' = Mixed
  /\ UNCHANGED <<sPath, sUiPath, serials, nFlags, nDspRequest, dsp, loaded>>

(* the path the plugin may be reading, *)
DeserializeRequest ==
  /\ main = "request" /\ main' = "path"
  /\ sDspRequest' = requested /\ sPath' = Mixed
  /\ UNCHANGED <<sUiPath, serials, nFlags, nDspRequest, dsp, requested, loaded>>

DeserializePath ==
  /\ main = "path" /\ main' = "count"
  /\ sPath' = requested
  /\ UNCHANGED <<sDspRequest, sUiPath, serials, nFlags, nDspRequest, dsp, requested, loaded>>

(* and the serial that makes it known. *)
DeserializeCount ==
  /\ main = "count" /\ main' = "idle"
  /\ nDspSerial' = nDspSerial + 1
  /\ UNCHANGED <<sPath, sDspRequest, sUiPath, nDspCommit, nUiSerial, nUiCommit, nFlags,
                 nDspRequest, dsp, requested, loaded>>

(* ui_sync(): one request is taken off, with the path as it is now. *)
UiSync ==
  /\ main = "idle" /\ ~nDspRequest
  /\ nUiSerial # nUiCommit
  /\ sUiPath' = sPath
  /\ nUiCommit' = nUiCommit + 1
  /\ UNCHANGED <<sPath, sDspRequest, nDspSerial, nDspCommit, nUiSerial, nFlags,
                 nDspRequest, main, dsp, requested, loaded>>

-----------------------------------------------------------------------------
(* pending(), when no request is being served and the lock is free.  The   *)
(* main thread holds the lock for single steps, during which pending()     *)
(* does nothing.                                                           *)
Pending ==
  /\ dsp = "idle" /\ nFlags = "none"
  /\ nDspSerial # nDspCommit
  /\ dsp' = "copy" /\ nDspRequest' = TRUE
  /\ UNCHANGED <<sPath, sDspRequest, sUiPath, serials, nFlags, main, requested, loaded>>

PendingCopy ==
  /\ dsp = "copy" /\ dsp' = "count"
  /\ sPath' = sDspRequest /\ nFlags' = "pending"
  /\ UNCHANGED <<sDspRequest, sUiPath, serials, nDspRequest, main, requested, loaded>>

(* Slip: the user interface is not told. *)
PendingCountQuiet ==
  /\ dsp = "count" /\ dsp' = "idle"
  /\ nDspCommit' = nDspCommit + 1
  /\ nDspRequest' = FALSE
  /\ UNCHANGED <<sPath, sDspRequest, sUiPath, nDspSerial, nUiSerial, nUiCommit, nFlags,
                 main, requested, loaded>>

(* One request counts as served, also when more of them were made: the     *)
(* plugin and the user interface then get the path once more.              *)
PendingCount ==
  /\ dsp = "count" /\ dsp' = "idle"
  /\ nUiSerial' = nUiSerial + 1 /\ nDspCommit' = nDspCommit + 1
  /\ nDspRequest' = FALSE
  /\ UNCHANGED <<sPath, sDspRequest, sUiPath, nDspSerial, nUiCommit, nFlags, main,
                 requested, loaded>>

(* The plugin starts to load the file and accepts; accept() *)
Accept ==
  /\ dsp = "idle" /\ nFlags = "pending" /\ nFlags' = "accepted"
  /\ loaded' = sPath
  /\ UNCHANGED <<sPath, sDspRequest, sUiPath, serials, nDspRequest, main, dsp, requested>>

(* Slip: the request is forgotten, but not that it was accepted. *)
CommitHalf ==
  /\ dsp = "idle" /\ nFlags = "accepted" /\ nFlags' = "accepted"
  /\ UNCHANGED <<sPath, sDspRequest, sUiPath, serials, nDspRequest, main, dsp, requested,
                 loaded>>

(* The file is loaded; commit() *)
Commit ==
  /\ dsp = "idle" /\ nFlags = "accepted" /\ nFlags' = "none"
  /\ UNCHANGED <<sPath, sDspRequest, sUiPath, serials, nDspRequest, main, dsp, requested,
                 loaded>>

-----------------------------------------------------------------------------
Deserializing == DeserializeRequest \/ DeserializePath \/ DeserializeCount
Main == (\E path \in Path : Submit(path) \/ Deserialize(path)) \/ Deserializing \/ UiSync
Dsp == Pending \/ PendingCopy \/ PendingCount \/ Accept \/ Commit

Next == Main \/ Dsp
Spec == Init /\ [][Next]_vars

(* process() and the timer of the user interface are called again and      *)
(* again, a call that began goes on, and the plugin serves what it is      *)
(* shown.                                                                  *)
Fairness == WF_vars(Dsp) /\ WF_vars(UiSync) /\ WF_vars(Deserializing)
FairSpec == Spec /\ Fairness

-----------------------------------------------------------------------------
(* When nothing is on the way any more, the plugin has loaded the path     *)
(* requested last and the user interface shows it: a request made while    *)
(* another one was being served is not lost, a path that was copied while  *)
(* it was written is copied again.                                         *)
PathSettles ==
  /\ main = "idle" /\ dsp = "idle" /\ nFlags = "none"
  /\ nDspSerial = nDspCommit /\ nUiSerial = nUiCommit
  => sPath = requested /\ loaded = requested /\ sUiPath = requested

(* The last request reaches the plugin and the user interface in the end.  *)
PathArrives == <>[](loaded = requested /\ sUiPath = requested)
=============================================================================
