---------------------------- MODULE SamplePlayer ----------------------------
(***************************************************************************)
(* core::SamplePlayer (src/main/core/SamplePlayer.cpp): files the user     *)
(* listens to before choosing one.  A request is written by the thread of  *)
(* the user interface (CLAP, VST2, JACK, VST3) or comes as an event of the *)
(* audio thread (LV2); process() serves it in the audio thread, and two    *)
(* tasks of an executor load the file and destroy samples.  Nothing is     *)
(* locked.                                                                 *)
(*                                                                         *)
(* dspu::SamplePlayer is external.  Its two players are bound alike: a     *)
(* sample they were given stays with them while it is bound or a playback  *)
(* of it has not ended; then it waits for gc(), which asks one player at a *)
(* time and so may return a part of what waits.                            *)
(***************************************************************************)
EXTENDS Naturals

CONSTANTS
  File, NoFile,     \* names of files, and the empty one
  Torn,             \* a name that is being copied
  Sample, NULL,     \* samples in memory, numbered; no sample
  MaxPlays,         \* bound: requests
  MaxFails          \* bound: loads and submits that fail

PlayerConstants ==
  /\ NoFile \notin File /\ Torn \notin File \cup {NoFile}
  /\ Sample \subseteq Nat /\ NULL \notin Sample \cup File \cup {NoFile, Torn}
  /\ MaxPlays \in Nat /\ MaxFails \in Nat

VARIABLES
  sReqFileName, nUpdateReq,
  ui, request,              \* where the user interface is, what it asks for
  sFileName, nUpdateResp,
  rt,                       \* where process() is
  played,                   \* the file whose playback was launched last
  sLoadTask, sGCTask,
  pLoaded, bound, playing,  \* the sample loaded, bound, and those still heard
  garbage,                  \* what gc() has to return
  pGCList, collected,       \* what the collector is to destroy, and destroys
  content,                  \* the file each sample was loaded from
  fails

requestVars == <<sReqFileName, nUpdateReq, ui, request>>
nameVars == <<sFileName, nUpdateResp>>
playVars == <<played, bound, playing, garbage>>
gcVars == <<sGCTask, pGCList, collected>>
vars == <<requestVars, nameVars, rt, playVars, sLoadTask, pLoaded, gcVars, content, fails>>

Name == File \cup {NoFile, Torn}
Maybe == Sample \cup {NULL}

TypeOK ==
  /\ sReqFileName \in Name /\ sFileName \in Name /\ request \in File \cup {NoFile}
  /\ nUpdateReq \in 0..MaxPlays /\ nUpdateResp \in 0..nUpdateReq
  /\ ui \in {"idle", "copy", "count"}
  /\ rt \in {"idle", "length", "compare", "copy", "submit", "respond", "again",
             "cancelled", "gc"}
  /\ sLoadTask \in {"idle", "submitted", "loading", "done", "failed"}
  /\ sGCTask \in {"idle", "submitted", "collecting", "completed"}
  /\ pLoaded \in Maybe /\ bound \in Maybe /\ playing \subseteq Sample
  /\ garbage \subseteq Sample /\ pGCList \subseteq Sample /\ collected \subseteq Sample
  /\ content \in [Sample -> Name \cup {NULL}] /\ played \in Name
  /\ fails \in 0..MaxFails

Init ==
  /\ sReqFileName = NoFile /\ nUpdateReq = 0 /\ ui = "idle" /\ request = NoFile
  /\ sFileName = NoFile /\ nUpdateResp = 0 /\ rt = "idle" /\ played = NoFile
  /\ sLoadTask = "idle" /\ sGCTask = "idle"
  /\ pLoaded = NULL /\ bound = NULL /\ playing = {}
  /\ garbage = {} /\ pGCList = {} /\ collected = {}
  /\ content = [s \in Sample |-> NULL] /\ fails = 0

-----------------------------------------------------------------------------
(* play_sample(), by the user interface: the name is copied, *)
PlayName(f) ==
  /\ ui = "idle" /\ nUpdateReq < MaxPlays
  /\ ui' = "copy" /\ request' = f
  /\ sReqFileName' = IF f \in {NoFile, sReqFileName} THEN f ELSE Torn
  /\ UNCHANGED <<nUpdateReq, nameVars, rt, playVars, sLoadTask, pLoaded, gcVars,
                 content, fails>>

PlayCopied ==
  /\ ui = "copy" /\ ui' = "count" /\ sReqFileName' = request
  /\ UNCHANGED <<nUpdateReq, request, nameVars, rt, playVars, sLoadTask, pLoaded,
                 gcVars, content, fails>>

(* then the request counted. *)
PlayCount ==
  /\ ui = "count" /\ ui' = "idle" /\ nUpdateReq' = nUpdateReq + 1
  /\ UNCHANGED <<sReqFileName, request, nameVars, rt, playVars, sLoadTask, pLoaded,
                 gcVars, content, fails>>

(* An event of LV2 does all of it before process(). *)
PlayEvent(f) ==
  /\ ui = "idle" /\ rt = "idle" /\ nUpdateReq < MaxPlays
  /\ request' = f /\ sReqFileName' = f /\ nUpdateReq' = nUpdateReq + 1
  /\ UNCHANGED <<ui, nameVars, rt, playVars, sLoadTask, pLoaded, gcVars, content, fails>>

-----------------------------------------------------------------------------
(* The audio thread: process_async_requests().                             *)
RtKeeps == UNCHANGED <<requestVars, gcVars, content>>

(* Slip: having had nothing counts too. *)
GiveAll(b, p) ==
  /\ bound' = b /\ playing' = p
  /\ garbage' = garbage \cup (({bound} \cup playing) \ ({b} \cup p))

(* The players are given b and keep the samples in p; what they had before *)
(* waits for gc().                                                         *)
Give(b, p) ==
  /\ bound' = b /\ playing' = p
  /\ garbage' = garbage \cup (({bound} \cup playing) \ ({b, NULL} \cup p))

(* play_current_sample(): what is bound is played. *)
Play(b) ==
  IF b = NULL THEN played' = NoFile /\ Give(b, playing)
  ELSE played' = content[b] /\ Give(b, playing \cup {b})

Take ==
  /\ rt = "idle" /\ sLoadTask = "idle" /\ nUpdateReq # nUpdateResp
  /\ rt' = "length"
  /\ RtKeeps /\ UNCHANGED <<nameVars, playVars, sLoadTask, pLoaded, fails>>

(* Slip: the loaded sample is not given away. *)
LoadedKept ==
  /\ rt = "idle" /\ sLoadTask \in {"done", "failed"} /\ rt' = "gc"
  /\ sLoadTask' = "idle"
  /\ IF sLoadTask = "done" /\ nUpdateReq = nUpdateResp
     THEN Play(pLoaded) ELSE UNCHANGED playVars
  /\ RtKeeps /\ UNCHANGED <<pLoaded, nameVars, fails>>

(* A sample is taken over unless there is a new request by now. *)
Loaded ==
  /\ rt = "idle" /\ sLoadTask \in {"done", "failed"} /\ rt' = "gc"
  /\ sLoadTask' = "idle"
  /\ IF sLoadTask = "done" /\ nUpdateReq = nUpdateResp
     THEN Play(pLoaded) /\ pLoaded' = NULL
     ELSE UNCHANGED <<playVars, pLoaded>>
  /\ RtKeeps /\ UNCHANGED <<nameVars, fails>>

NothingAsked ==
  /\ rt = "idle" /\ rt' = "gc"
  /\ \/ sLoadTask = "idle" /\ nUpdateReq = nUpdateResp
     \/ sLoadTask \in {"submitted", "loading"}
  /\ RtKeeps /\ UNCHANGED <<nameVars, playVars, sLoadTask, pLoaded, fails>>

(* The empty name stops the playback; "release" unbinds the sample. *)
Length ==
  /\ rt = "length"
  /\ IF sReqFileName = NoFile
     THEN /\ rt' = "cancelled" /\ played' = NoFile
          /\ \E release \in BOOLEAN :
               Give(IF release THEN NULL ELSE bound, playing)
     ELSE rt' = "compare" /\ UNCHANGED playVars
  /\ RtKeeps /\ UNCHANGED <<nameVars, sLoadTask, pLoaded, fails>>

(* Slip: the name of the file that is gone stays. *)
CancelledNameKept ==
  /\ rt = "cancelled" /\ rt' = "gc"
  /\ nUpdateResp' = nUpdateReq
  /\ RtKeeps /\ UNCHANGED <<sFileName, playVars, sLoadTask, pLoaded, fails>>

Cancelled ==
  /\ rt = "cancelled" /\ rt' = "gc"
  /\ nUpdateResp' = nUpdateReq /\ sFileName' = NoFile
  /\ RtKeeps /\ UNCHANGED <<playVars, sLoadTask, pLoaded, fails>>

(* "File name matches, need to update position?" *)
Compare ==
  /\ rt = "compare"
  /\ \/ sReqFileName = sFileName /\ rt' = "again"
     \/ (sReqFileName # sFileName \/ sReqFileName = Torn) /\ rt' = "copy"
  /\ RtKeeps /\ UNCHANGED <<nameVars, playVars, sLoadTask, pLoaded, fails>>

Again ==
  /\ rt = "again" /\ rt' = "gc"
  /\ nUpdateResp' = nUpdateReq
  /\ Play(bound)
  /\ RtKeeps /\ UNCHANGED <<sFileName, sLoadTask, pLoaded, fails>>

(* "We need to load file first" *)
Copy ==
  /\ rt = "copy" /\ rt' = "submit" /\ sFileName' = sReqFileName
  /\ RtKeeps /\ UNCHANGED <<nUpdateResp, playVars, sLoadTask, pLoaded, fails>>

Submit ==
  /\ rt = "submit"
  /\ \/ sLoadTask' = "submitted" /\ rt' = "respond" /\ UNCHANGED fails
     \/ fails < MaxFails /\ fails' = fails + 1 /\ rt' = "gc" /\ UNCHANGED sLoadTask
  /\ RtKeeps /\ UNCHANGED <<nameVars, playVars, pLoaded>>

Respond ==
  /\ rt = "respond" /\ rt' = "gc" /\ nUpdateResp' = nUpdateReq
  /\ RtKeeps /\ UNCHANGED <<sFileName, playVars, sLoadTask, pLoaded, fails>>

(* process_gc_tasks() *)
ToCollect ==
  IF pGCList # {} \/ garbage = {} THEN {pGCList} ELSE SUBSET garbage \ {{}}

(* Slip: a task that has completed stays so. *)
ProcessGcTasksOnce ==
  /\ rt = "gc" /\ rt' = "idle"
  /\ IF sGCTask # "idle" THEN UNCHANGED <<sGCTask, pGCList, garbage, fails>>
     ELSE \E list \in ToCollect :
            /\ pGCList' = list /\ garbage' = garbage \ list
            /\ \/ list = {} /\ sGCTask' = "idle" /\ UNCHANGED fails
               \/ list # {} /\ sGCTask' = "submitted" /\ UNCHANGED fails
               \/ /\ list # {} /\ sGCTask' = "idle"
                  /\ fails < MaxFails /\ fails' = fails + 1
  /\ UNCHANGED <<requestVars, nameVars, played, bound, playing, sLoadTask, pLoaded,
                 collected, content>>

ProcessGcTasks ==
  /\ rt = "gc" /\ rt' = "idle"
  /\ IF sGCTask \notin {"idle", "completed"}
     THEN UNCHANGED <<sGCTask, pGCList, garbage, fails>>
     ELSE \E list \in ToCollect :
            /\ pGCList' = list /\ garbage' = garbage \ list
            /\ \/ list = {} /\ sGCTask' = "idle" /\ UNCHANGED fails
               \/ list # {} /\ sGCTask' = "submitted" /\ UNCHANGED fails
               \/ /\ list # {} /\ sGCTask' = "idle"
                  /\ fails < MaxFails /\ fails' = fails + 1
  /\ UNCHANGED <<requestVars, nameVars, played, bound, playing, sLoadTask, pLoaded,
                 collected, content>>

(* A playback comes to its end, in process_playback(). *)
Ends(s) ==
  /\ rt = "idle" /\ s \in playing
  /\ Give(bound, playing \ {s})
  /\ RtKeeps /\ UNCHANGED <<nameVars, rt, played, sLoadTask, pLoaded, fails>>

-----------------------------------------------------------------------------
(* The executor: load_sample() *)
ExecutorKeeps == UNCHANGED <<requestVars, nameVars, rt, playVars>>

LoadBegin ==
  /\ sLoadTask = "submitted" /\ sLoadTask' = "loading"
  /\ pLoaded' = NULL
  /\ content' = [s \in Sample |-> IF s = pLoaded THEN NULL ELSE content[s]]
  /\ ExecutorKeeps /\ UNCHANGED <<gcVars, fails>>

Free == {s \in Sample : content[s] = NULL}

LoadEnd ==
  /\ sLoadTask = "loading"
  /\ \/ /\ sLoadTask' = "done" /\ UNCHANGED fails
        /\ \E s \in Free :
             /\ \A t \in Free : s <= t
             /\ pLoaded' = s /\ content' = [content EXCEPT ![s] = sFileName]
     \/ /\ sLoadTask' = "failed"
        /\ fails < MaxFails /\ fails' = fails + 1
        /\ UNCHANGED <<pLoaded, content>>
  /\ ExecutorKeeps /\ UNCHANGED gcVars

(* perform_gc() *)
Collect ==
  /\ sGCTask = "submitted" /\ sGCTask' = "collecting"
  /\ collected' = pGCList /\ pGCList' = {}
  /\ ExecutorKeeps /\ UNCHANGED <<sLoadTask, pLoaded, content, fails>>

Destroy ==
  /\ sGCTask = "collecting" /\ sGCTask' = "completed"
  /\ content' = [s \in Sample |-> IF s \in collected THEN NULL ELSE content[s]]
  /\ collected' = {}
  /\ ExecutorKeeps /\ UNCHANGED <<sLoadTask, pLoaded, pGCList, fails>>

-----------------------------------------------------------------------------
UiStep == PlayCopied \/ PlayCount
Process ==
  \/ Take \/ Loaded \/ NothingAsked \/ Length \/ Cancelled \/ Compare \/ Again
  \/ Copy \/ Submit \/ Respond \/ ProcessGcTasks
Ending == \E s \in Sample : Ends(s)
Load == LoadBegin \/ LoadEnd
Gc == Collect \/ Destroy

Next ==
  \/ \E f \in File \cup {NoFile} : PlayName(f) \/ PlayEvent(f)
  \/ UiStep \/ Process \/ Ending \/ Load \/ Gc

Spec == Init /\ [][Next]_vars

-----------------------------------------------------------------------------
(* Where a sample can be. *)
Place == {"loaded", "players", "waiting", "listed", "collected"}

Holds(place, s) ==
  \/ place = "loaded" /\ s = pLoaded
  \/ place = "players" /\ (s = bound \/ s \in playing)
  \/ place = "waiting" /\ s \in garbage
  \/ place = "listed" /\ s \in pGCList
  \/ place = "collected" /\ s \in collected

(* Every sample in memory is in exactly one place, from where it will be   *)
(* destroyed: none is destroyed while a player may still play it, or       *)
(* twice, and none is lost, whatever requests come in between.             *)
SamplesOwned ==
  \A s \in Sample :
    /\ content[s] # NULL <=> \E place \in Place : Holds(place, s)
    /\ \A p, q \in Place : Holds(p, s) /\ Holds(q, s) => p = q

(* In the end every request is answered, and only the sample that is bound *)
(* stays in memory, with at most one that was loaded for nothing.          *)
RequestsSettle ==
  <>[](/\ nUpdateReq = nUpdateResp /\ sLoadTask = "idle"
       /\ \A s \in Sample : content[s] # NULL => s \in {bound, pLoaded})

(* "Send request to perform preview playback of the file" (ui/IWrapper.h): *)
(* where the requests come as events and nothing failed, the playback      *)
(* launched last is that of the file requested last once nothing is under  *)
(* way, but for a file requested again while it was loaded: its sample     *)
(* stays in pLoaded.                                                       *)
RequestedPlays ==
  rt = "idle" /\ nUpdateReq = nUpdateResp /\ sLoadTask = "idle" /\ fails = 0 =>
    \/ played = request
    \/ pLoaded # NULL /\ content[pLoaded] = request
=============================================================================
