---------------------------- MODULE AudioReturn -----------------------------
(***************************************************************************)
(* core::AudioReturn (src/main/core/AudioReturn.cpp) as core::ShmClient    *)
(* drives it: a plugin reads the stream that some send publishes under a   *)
(* name.                                                                   *)
(*                                                                         *)
(* As in AudioSend, the audio thread (rt) and the thread of core::Catalog  *)
(* (srv) share a status word, two boxes and requests.  A stream of         *)
(* AudioReturn is a record of the number of the audio stream it opened     *)
(* (0 for none) and nStallCounter, counted in blocks.  nStreamCounter is 0 *)
(* in every stream: nothing assigns it another value.                      *)
(***************************************************************************)
EXTENDS ICatalogClient, RtState

CONSTANTS
  Name, NoName,
  Self, Everyone,
  Slot,
  Threshold,             \* STALLED_THRESHOLD in blocks
  MaxStreams, MaxNames

ReturnConstants ==
  /\ NoName \notin Name /\ Self \in Everyone
  /\ \E n \in Slot : n > 2 /\ Slot = 1..n
  /\ NULL \notin Slot
       \cup [stream : 0..MaxStreams, nStallCounter : 0..Threshold]
  /\ Threshold \in Nat \ {0} /\ MaxStreams \in Nat /\ MaxNames \in Nat
  /\ Serials \in Nat /\ MaxStreams + MaxNames + 2 < Serials

VARIABLES
  entry, news, made,     \* the shared catalog, as in AudioSend
  written, closed,       \* streams whose counter() is not 0, that are gone
  pName, bChanged, names,
  sLastName, bConnect, bActive,   \* ShmClient::return_t
  enStatus, bProcessing, pStream, \* AudioReturn
  sSetup, sParams, vState, sStream, sRecord,
  sUpdate, sApply,
  rt,
  srv, took, result, for, \* the service: the request it serves and its result
  refused                 \* history: the catalog failed for the stream made last

catalogVars == <<entry, news, made, written, closed>>
portVars == <<pName, bChanged, names>>
clientVars == <<sLastName, bConnect, bActive>>
rtVars == <<clientVars, bProcessing, pStream, sSetup, rt>>
srvVars == <<sRecord, srv, took, result, for, refused>>
vars == <<catalogVars, portVars, rtVars, enStatus, sParams, vState, sStream,
          sUpdate, sApply, srvVars>>

Stream == 0..MaxStreams
Link == [stream : Stream, nStallCounter : 0..Threshold]
NoRecord == [name |-> NoName, stream |-> 0]
Unopened == [stream |-> 0, nStallCounter |-> Threshold]
Detached == [stream |-> 0, nStallCounter |-> 0]
Opened(s) == [stream |-> s, nStallCounter |-> 0]

TypeOK ==
  /\ entry \in [Name -> Stream] /\ news \subseteq Everyone /\ made \in Stream
  /\ written \subseteq Stream /\ closed \subseteq Stream
  /\ pName \in Name \cup {NoName} /\ bChanged \in BOOLEAN /\ names \in 0..MaxNames
  /\ sLastName \in Name \cup {NoName}
  /\ bConnect \in BOOLEAN /\ bActive \in BOOLEAN /\ bProcessing \in BOOLEAN
  /\ enStatus \in {"inactive", "updating", "active", "stalled"}
  /\ pStream \in Link \cup {NULL} /\ sSetup \in Name \cup {NoName}
  /\ Objects(sParams) \subseteq Slot /\ Objects(sStream) \subseteq Link
  /\ vState \in [Slot -> [sName : Name \cup {NoName}, bFree : BOOLEAN]]
  /\ sRecord \in [name : Name \cup {NoName}, stream : Stream]
  /\ sUpdate \in State /\ sApply \in State
  /\ rt \in {"out", "push", "ask", "begin", "activity", "in"}
  /\ srv \in {"idle", "status", "push", "answer"}
  /\ took \in Serial /\ result \in Link \cup {NULL}
  /\ for \in {"update", "apply", NULL} /\ refused \in BOOLEAN

Init ==
  /\ entry = [n \in Name |-> 0] /\ news = {} /\ made = 0
  /\ written = {} /\ closed = {}
  /\ pName = NoName /\ bChanged = FALSE /\ names = 0
  /\ sLastName = NoName /\ bConnect = TRUE /\ bActive = FALSE
  /\ enStatus = "inactive" /\ bProcessing = FALSE /\ pStream = NULL
  /\ sSetup = NoName
  /\ sParams = NothingPushed /\ sStream = NothingPushed
  /\ vState = [i \in Slot |-> [sName |-> NoName, bFree |-> TRUE]]
  /\ sRecord = NoRecord
  /\ sUpdate = NoRequest /\ sApply = Marked(NoRequest)
  /\ rt = "out" /\ srv = "idle" /\ took = 0 /\ result = NULL /\ for = NULL
  /\ refused = FALSE

-----------------------------------------------------------------------------
SetName(n) ==
  /\ names < MaxNames /\ names' = names + 1
  /\ pName' = n /\ bChanged' = TRUE
  /\ UNCHANGED <<catalogVars, rtVars, enStatus, sParams, vState, sStream,
                 sUpdate, sApply, srvVars>>

(* A send publishes under the name, or writes to the stream it published. *)
OtherPublishes(n) ==
  /\ made < MaxStreams /\ made' = made + 1
  /\ entry' = [entry EXCEPT ![n] = made'] /\ news' = Everyone
  /\ UNCHANGED <<written, closed, portVars, rtVars, enStatus, sParams, vState, sStream,
                 sUpdate, sApply, srvVars>>

OtherWrites(s) ==
  /\ s \notin written \cup closed
  /\ written' = written \cup {s}
  /\ UNCHANGED <<entry, news, made, closed, portVars, clientVars, bProcessing,
                 pStream, sSetup, rt, enStatus, sParams, vState,
                 sStream, sUpdate, sApply, srvVars>>

(* The send closes a stream that it has replaced or revoked: it cannot be  *)
(* opened any more, who has it open keeps it.                              *)
OtherCloses(s) ==
  /\ s \notin closed /\ closed' = closed \cup {s}
  /\ UNCHANGED <<entry, news, made, written, portVars, rtVars, enStatus,
                 sParams, vState, sStream, sUpdate, sApply, srvVars>>

-----------------------------------------------------------------------------
(* The audio thread: ShmClient::begin(), update_settings() and end().      *)

RtKeeps == UNCHANGED <<catalogVars, sUpdate, srvVars, pName, names>>

FreeSlots == {i \in Slot : vState[i].bFree}

(* connect(), with sSetup for the service to read *)
Connect ==
  /\ rt = "out" /\ bConnect
  /\ \/ /\ FreeSlots = {}
        /\ rt' = "begin" /\ bConnect' = FALSE
        /\ UNCHANGED <<vState, enStatus, sSetup>>
     \/ \E i \in FreeSlots :
          /\ \A j \in FreeSlots : i <= j
          /\ vState' = [vState EXCEPT ![i] = [sName |-> sLastName, bFree |-> FALSE]]
          /\ sSetup' = sLastName /\ enStatus' = "updating"
          /\ rt' = "push" /\ UNCHANGED bConnect
  /\ RtKeeps
  /\ UNCHANGED <<bChanged, sLastName, bActive, bProcessing, pStream, sParams,
                 sStream, sApply>>

ConnectPush ==
  /\ rt = "push" /\ rt' = "ask"
  /\ \E i \in Slot :
       /\ ~vState[i].bFree /\ i \notin Objects(sParams)
       /\ sParams' = Pushed(sParams, i)
       /\ vState' = [j \in Slot |->
            IF j \in Freed(sParams) THEN [vState[j] EXCEPT !.bFree = TRUE]
            ELSE vState[j]]
  /\ RtKeeps
  /\ UNCHANGED <<bChanged, clientVars, bProcessing, pStream, sSetup, enStatus,
                 sStream, sApply>>

ConnectAsk ==
  /\ rt = "ask" /\ rt' = "begin" /\ bConnect' = FALSE
  /\ sApply' = Requested(sApply)
  /\ RtKeeps
  /\ UNCHANGED <<bChanged, sLastName, bActive, bProcessing, pStream, sSetup,
                 enStatus, sParams, vState, sStream>>

(* Slip: the counter is not limited. *)
StallingOn(l) == l.nStallCounter + 1

(* Blocks without data are counted up to the threshold. *)
Stalling(l) == IF l.nStallCounter < Threshold THEN l.nStallCounter + 1 ELSE Threshold

(* begin(): the newest stream is taken and the status derived from its     *)
(* counter.                                                                *)
Begin ==
  /\ rt = "begin" \/ (rt = "out" /\ ~bConnect)
  /\ rt' = "activity"
  /\ LET l == Got(sStream).cur
         moved == l.stream \in written
         seen == [l EXCEPT !.nStallCounter = IF moved THEN 0 ELSE Stalling(l)]
     IN  IF bProcessing THEN UNCHANGED <<pStream, bProcessing, sStream, enStatus>>
         ELSE /\ bProcessing' = TRUE
              /\ IF l = NULL \/ l.stream = 0
                 THEN sStream' = Got(sStream) /\ pStream' = l /\ UNCHANGED enStatus
                 ELSE /\ sStream' = [Got(sStream) EXCEPT !.cur = seen]
                      /\ pStream' = seen
                      /\ enStatus' = IF moved THEN "active"
                                     ELSE IF seen.nStallCounter = Threshold
                                     THEN "stalled" ELSE enStatus
  /\ RtKeeps
  /\ UNCHANGED <<bChanged, clientVars, sSetup, sParams, vState, sApply>>

(* "Check activity of the return" *)
Activity ==
  /\ rt = "activity" /\ rt' = "in"
  /\ bActive' = (enStatus = "active")
  /\ RtKeeps
  /\ UNCHANGED <<bChanged, sLastName, bConnect, bProcessing, pStream, sSetup,
                 enStatus, sParams, vState, sStream, sApply>>

UpdateSettings ==
  /\ rt = "in" /\ bChanged
  /\ bChanged' = FALSE /\ sLastName' = pName /\ bConnect' = TRUE
  /\ RtKeeps
  /\ UNCHANGED <<bActive, bProcessing, pStream, sSetup, rt, enStatus, sParams,
                 vState, sStream, sApply>>

End ==
  /\ rt = "in" /\ ~bChanged /\ rt' = "out"
  /\ bActive' = FALSE /\ bProcessing' = FALSE /\ pStream' = NULL
  /\ RtKeeps
  /\ UNCHANGED <<bChanged, sLastName, bConnect, sSetup, enStatus, sParams, vState,
                 sStream, sApply>>

RtStep ==
  Connect \/ ConnectPush \/ ConnectAsk \/ Begin \/ Activity \/ UpdateSettings \/ End

-----------------------------------------------------------------------------
(* The thread of core::Catalog, as far as it serves this client.           *)

SrvKeeps == UNCHANGED <<catalogVars, portVars, rtVars, vState>>

Sync ==
  /\ srv = "idle" /\ Self \in news
  /\ news' = news \ {Self} /\ sUpdate' = Requested(sUpdate)
  /\ UNCHANGED <<entry, made, written, closed, portVars, rtVars, vState,
                 enStatus, sParams, sStream, sApply, srvVars>>

(* create_stream(): an audio stream is opened if the catalog names one and *)
(* it is still there.                                                      *)
Created(s) == IF s = 0 \/ s \in closed THEN Unopened ELSE Opened(s)

Begins(request, l) ==
  /\ srv' = "status" /\ for' = request /\ result' = l

Connects(request, n) ==
  /\ Begins(request, Created(entry[n]))
  /\ sRecord' = [name |-> n, stream |-> entry[n]]
  /\ refused' = FALSE

(* get() does not know the name or fails, get_or_reserve() finds no room:  *)
(* a stream that is not opened, and the record stays what it was.          *)
Refuses(request) ==
  /\ Begins(request, Unopened)
  /\ refused' = TRUE /\ UNCHANGED sRecord

(* update(): nothing to do without a name or before the first record;      *)
(* otherwise get() tells whether the record is still what it was.          *)
Update ==
  /\ srv = "idle" /\ Self \notin news /\ Owed(sUpdate)
  /\ took' = sUpdate.nRequest
  /\ LET same == sRecord = [name |-> sSetup, stream |-> entry[sSetup]]
     IN  IF sRecord = NoRecord \/ sSetup = NoName
         THEN srv' = "answer" /\ for' = "update" /\ UNCHANGED <<sRecord, result, refused>>
         ELSE \/ /\ same /\ srv' = "answer" /\ for' = "update"
                 /\ UNCHANGED <<sRecord, result, refused>>
              \/ ~same /\ Connects("update", sSetup)
              \/ Refuses("update")
  /\ SrvKeeps /\ UNCHANGED <<enStatus, sParams, sStream, sUpdate, sApply>>

(* process_apply() calls apply(): get_or_reserve() refuses the empty name  *)
(* and may refuse another.                                                 *)
Apply ==
  /\ srv = "idle" /\ Self \notin news /\ ~Owed(sUpdate) /\ Owed(sApply)
  /\ took' = sApply.nRequest
  /\ sParams' = Got(sParams)
  /\ IF sParams'.cur = NULL
     THEN srv' = "answer" /\ for' = "apply" /\ UNCHANGED <<sRecord, result, refused>>
     ELSE LET n == vState[sParams'.cur].sName
          IN  IF n = NoName
              THEN Begins("apply", Detached) /\ refused' = FALSE /\ UNCHANGED sRecord
              ELSE Connects("apply", n) \/ Refuses("apply")
  /\ SrvKeeps /\ UNCHANGED <<enStatus, sStream, sUpdate, sApply>>

Status ==
  /\ srv = "status" /\ srv' = "push"
  /\ enStatus' = IF result.stream # 0 THEN "active"
                 ELSE IF result.nStallCounter > 0 THEN "stalled" ELSE "inactive"
  /\ SrvKeeps
  /\ UNCHANGED <<sParams, sStream, sUpdate, sApply, sRecord, took, result, for,
                 refused>>

Push ==
  /\ srv = "push" /\ srv' = "answer" /\ result' = NULL
  /\ sStream' = Pushed(sStream, result)
  /\ SrvKeeps
  /\ UNCHANGED <<enStatus, sParams, sUpdate, sApply, sRecord, took, for, refused>>

(* Slip: the response is the request there is at the end. *)
AnswerNewest ==
  /\ srv = "answer" /\ srv' = "idle" /\ took' = 0 /\ for' = NULL
  /\ IF for = "update"
     THEN sUpdate' = Answered(sUpdate, took) /\ UNCHANGED sApply
     ELSE sApply' = Answered(sApply, sApply.nRequest) /\ UNCHANGED sUpdate
  /\ SrvKeeps /\ UNCHANGED <<enStatus, sParams, sStream, sRecord, result, refused>>

(* process_update() or process_apply() stores the response. *)
Answer ==
  /\ srv = "answer" /\ srv' = "idle" /\ took' = 0 /\ for' = NULL
  /\ IF for = "update"
     THEN sUpdate' = Answered(sUpdate, took) /\ UNCHANGED sApply
     ELSE sApply' = Answered(sApply, took) /\ UNCHANGED sUpdate
  /\ SrvKeeps /\ UNCHANGED <<enStatus, sParams, sStream, sRecord, result, refused>>

SrvStep == Sync \/ Update \/ Apply \/ Status \/ Push \/ Answer

-----------------------------------------------------------------------------
Next ==
  \/ RtStep \/ SrvStep
  \/ \E n \in Name : OtherPublishes(n)
  \/ \E s \in 1..made : OtherWrites(s) \/ OtherCloses(s)
  \/ \E n \in Name \cup {NoName} : SetName(n)

Spec == Init /\ [][Next]_vars

-----------------------------------------------------------------------------
Settled ==
  /\ ~bChanged /\ ~bConnect /\ rt = "out" /\ srv = "idle" /\ Self \notin news
  /\ ~Owed(sUpdate) /\ ~Owed(sApply)

(* When both threads have done what was asked of them, the audio thread    *)
(* reads next from the stream that is published under the last name it was *)
(* given, whoever published it and however often it was replaced; without  *)
(* a name, when that stream is gone, or when the catalog failed for that   *)
(* name, from none.  A record that a failure left behind never brings back *)
(* the stream of an earlier name.                                          *)
LastNameWins ==
  Settled =>
    LET l == Newest(sStream) IN
    /\ l # NULL
    /\ l.stream # 0 => sLastName # NoName /\ l.stream = entry[sLastName]
    /\ l.stream = 0 =>
         sLastName = NoName \/ entry[sLastName] \in closed \cup {0} \/ refused

(* connect() never fails for want of an element of vState. *)
SlotsSuffice == rt = "out" => FreeSlots # {}
=============================================================================
