----------------------------- MODULE AudioSend ------------------------------
(***************************************************************************)
(* core::AudioSend (src/main/core/AudioSend.cpp) as core::ShmClient drives *)
(* it: a plugin publishes a stream of audio under a name in the catalog    *)
(* that all processes share.                                               *)
(*                                                                         *)
(* The audio thread (rt) publishes settings and writes blocks, the thread  *)
(* of core::Catalog (srv) creates streams and looks for other publishers   *)
(* of the same name.  They share enStatus, two lltl::state boxes and the   *)
(* requests, and no lock, so each access to one of them is a step.         *)
(*                                                                         *)
(* dspu::Catalog is external: entry gives the stream published under each  *)
(* name, news the clients that have yet to see it changed.  A stream is    *)
(* named by its number; 0 is a stream_t without an audio stream.           *)
(***************************************************************************)
EXTENDS ICatalogClient, RtState

CONSTANTS
  Name, NoName,        \* names of streams; the empty name
  Self, Everyone,      \* this client and all clients of the catalog
  Slot,                \* the array vState
  MaxStreams, MaxNames \* bounds: streams made by anybody, changes of the name

(* vState has four elements.  No serial comes round within the bounds.     *)
SendConstants ==
  /\ NoName \notin Name /\ Self \in Everyone
  /\ \E n \in Slot : n > 2 /\ Slot = 1..n
  /\ NULL \notin Slot \cup 0..MaxStreams
  /\ MaxStreams \in Nat /\ MaxNames \in Nat
  /\ Serials \in Nat /\ MaxStreams + MaxNames + 2 < Serials

VARIABLES
  entry, news, made,     \* the shared catalog; how many streams were made
  pName, bChanged,       \* the port with the name; it has changed
  sLastName, bPublish, bActive,   \* ShmClient::send_t
  enStatus, bProcessing, pStream, \* AudioSend
  sParams, vState, sStream, sRecord,
  sUpdate, sApply,       \* ICatalogClient
  rt,                    \* where the audio thread is
  srv, took, result,     \* where the service is, the serial, the new stream
  names                  \* how often the name was changed

catalogVars == <<entry, news, made>>
portVars == <<pName, bChanged, names>>
clientVars == <<sLastName, bPublish, bActive>>
boxVars == <<sParams, vState, sStream>>
rtVars == <<clientVars, bProcessing, pStream, rt>>
srvVars == <<sRecord, srv, took, result>>
vars == <<catalogVars, portVars, rtVars, enStatus, boxVars, sUpdate, sApply,
          srvVars>>

Stream == 0..MaxStreams
NoRecord == [name |-> NoName, stream |-> 0]

TypeOK ==
  /\ entry \in [Name -> Stream] /\ news \subseteq Everyone /\ made \in Stream
  /\ pName \in Name \cup {NoName} /\ bChanged \in BOOLEAN
  /\ sLastName \in Name \cup {NoName}
  /\ bPublish \in BOOLEAN /\ bActive \in BOOLEAN /\ bProcessing \in BOOLEAN
  /\ enStatus \in {"inactive", "updating", "active", "overridden"}
  /\ pStream \in Stream \cup {NULL}
  /\ Objects(sParams) \subseteq Slot /\ Objects(sStream) \subseteq Stream
  /\ vState \in [Slot -> [sName : Name \cup {NoName}, bFree : BOOLEAN]]
  /\ sRecord \in [name : Name \cup {NoName}, stream : Stream]
  /\ sUpdate \in State /\ sApply \in State
  /\ rt \in {"out", "push", "ask", "check", "activity", "begin", "in"}
  /\ srv \in {"idle", "override", "drop", "apply", "status", "push"}
  /\ took \in Serial /\ result \in Stream /\ names \in 0..MaxNames

Init ==
  /\ entry = [n \in Name |-> 0] /\ news = {} /\ made = 0
  /\ pName = NoName /\ bChanged = FALSE /\ names = 0
  /\ sLastName = NoName /\ bPublish = TRUE /\ bActive = FALSE
  /\ enStatus = "inactive" /\ bProcessing = FALSE /\ pStream = NULL
  /\ sParams = NothingPushed /\ sStream = NothingPushed
  /\ vState = [i \in Slot |-> [sName |-> NoName, bFree |-> TRUE]]
  /\ sRecord = NoRecord
  /\ sUpdate = NoRequest /\ sApply = Marked(NoRequest)   \* after attach()
  /\ rt = "out" /\ srv = "idle" /\ took = 0 /\ result = 0

-----------------------------------------------------------------------------
(* The user changes the name.                                              *)
SetName(n) ==
  /\ names < MaxNames /\ names' = names + 1
  /\ pName' = n /\ bChanged' = TRUE
  /\ UNCHANGED <<catalogVars, rtVars, enStatus, boxVars, sUpdate, sApply, srvVars>>

-----------------------------------------------------------------------------
(* The audio thread: ShmClient::begin(), update_settings() and end().      *)

RtKeeps == UNCHANGED <<catalogVars, sUpdate, srvVars, names>>

FreeSlots == {i \in Slot : vState[i].bFree}

(* publish() takes a free element of vState; without one it fails, and     *)
(* begin() forgets that there was something to publish.                    *)
Publish ==
  /\ rt = "out" /\ bPublish
  /\ \/ /\ FreeSlots = {}
        /\ rt' = "check" /\ bPublish' = FALSE
        /\ UNCHANGED <<vState, sParams, enStatus>>
     \/ \E i \in FreeSlots :
          /\ \A j \in FreeSlots : i <= j
          /\ vState' = [vState EXCEPT ![i] = [sName |-> sLastName, bFree |-> FALSE]]
          /\ enStatus' = "updating"
          /\ rt' = "push" /\ UNCHANGED <<bPublish, sParams>>
  /\ RtKeeps
  /\ UNCHANGED <<pName, bChanged, sLastName, bActive, bProcessing, pStream,
                 sStream, sApply>>

(* Slip: what was replaced by get() is never freed. *)
PublishPushLeaky ==
  /\ rt = "push" /\ rt' = "ask"
  /\ \E i \in Slot :
       /\ ~vState[i].bFree /\ i \notin Objects(sParams)
       /\ sParams' = Pushed(sParams, i)
       /\ vState' = [j \in Slot |->
            IF j = sParams.pend THEN [vState[j] EXCEPT !.bFree = TRUE]
            ELSE vState[j]]
  /\ RtKeeps
  /\ UNCHANGED <<pName, bChanged, clientVars, bProcessing, pStream, enStatus,
                 sStream, sApply>>

(* sParams.push(p), which frees what nobody needs any more: p is the       *)
(* element that is taken and in no box yet.                                *)
PublishPush ==
  /\ rt = "push" /\ rt' = "ask"
  /\ \E i \in Slot :
       /\ ~vState[i].bFree /\ i \notin Objects(sParams)
       /\ sParams' = Pushed(sParams, i)
       /\ vState' = [j \in Slot |->
            IF j \in Freed(sParams) THEN [vState[j] EXCEPT !.bFree = TRUE]
            ELSE vState[j]]
  /\ RtKeeps
  /\ UNCHANGED <<pName, bChanged, clientVars, bProcessing, pStream, enStatus,
                 sStream, sApply>>

(* sClient.apply_settings() *)
PublishAsk ==
  /\ rt = "ask" /\ rt' = "check" /\ bPublish' = FALSE
  /\ sApply' = Requested(sApply)
  /\ RtKeeps
  /\ UNCHANGED <<pName, bChanged, sLastName, bActive, bProcessing, pStream,
                 enStatus, boxVars>>

(* overridden() and deactivate(); the user interface is told to forget the *)
(* name by set_default().                                                  *)
Check ==
  /\ rt = "check" \/ (rt = "out" /\ ~bPublish)
  /\ rt' = "activity"
  /\ IF enStatus = "overridden"
     THEN enStatus' = "inactive" /\ pName' = NoName /\ bChanged' = TRUE
     ELSE UNCHANGED <<enStatus, pName, bChanged>>
  /\ RtKeeps
  /\ UNCHANGED <<clientVars, bProcessing, pStream, boxVars, sApply>>

(* "Check send activity" *)
Activity ==
  /\ rt = "activity"
  /\ bActive' = (enStatus = "active")
  /\ rt' = IF enStatus = "active" THEN "begin" ELSE "in"
  /\ RtKeeps
  /\ UNCHANGED <<pName, bChanged, sLastName, bPublish, bProcessing, pStream,
                 enStatus, boxVars, sApply>>

(* AudioSend::begin() *)
Begin ==
  /\ rt = "begin" /\ rt' = "in"
  /\ IF bProcessing THEN UNCHANGED <<pStream, bProcessing, sStream>>
     ELSE /\ sStream' = Got(sStream)
          /\ pStream' = Got(sStream).cur
          /\ bProcessing' = TRUE
  /\ RtKeeps
  /\ UNCHANGED <<pName, bChanged, clientVars, enStatus, sParams, vState, sApply>>

(* connection_updated() finds a new name in the port. *)
UpdateSettings ==
  /\ rt = "in" /\ bChanged
  /\ bChanged' = FALSE /\ sLastName' = pName /\ bPublish' = TRUE
  /\ RtKeeps
  /\ UNCHANGED <<pName, bActive, bProcessing, pStream, rt, enStatus, boxVars,
                 sApply>>

(* AudioSend::end(), called if the block was begun; it returns early when  *)
(* begin() found no stream.                                                *)
End ==
  /\ rt = "in" /\ ~bChanged /\ rt' = "out"
  /\ bActive' = FALSE
  /\ IF bActive /\ bProcessing /\ pStream # NULL
     THEN bProcessing' = FALSE /\ pStream' = NULL
     ELSE UNCHANGED <<bProcessing, pStream>>
  /\ RtKeeps
  /\ UNCHANGED <<pName, bChanged, sLastName, bPublish, enStatus, boxVars, sApply>>

RtStep ==
  \/ Publish \/ PublishPush \/ PublishAsk \/ Check \/ Activity \/ Begin
  \/ UpdateSettings \/ End

-----------------------------------------------------------------------------
(* The thread of core::Catalog, as far as it serves this client.           *)

SrvKeeps == UNCHANGED <<portVars, rtVars, vState>>

(* sync_catalog() *)
Sync ==
  /\ srv = "idle" /\ Self \in news
  /\ news' = news \ {Self} /\ sUpdate' = Requested(sUpdate)
  /\ SrvKeeps
  /\ UNCHANGED <<entry, made, enStatus, sParams, sStream, sApply, srvVars>>

Valid == sRecord # NoRecord => entry[sRecord.name] = sRecord.stream

(* update(): the record is gone when somebody else publishes under the     *)
(* name; create_stream(NULL) clears it.                                    *)
Update ==
  /\ srv = "idle" /\ Self \notin news /\ Owed(sUpdate)
  /\ IF Valid
     THEN sUpdate' = Answered(sUpdate, sUpdate.nRequest)
          /\ UNCHANGED <<srv, took, sRecord>>
     ELSE srv' = "override" /\ took' = sUpdate.nRequest /\ sRecord' = NoRecord
          /\ UNCHANGED sUpdate
  /\ SrvKeeps
  /\ UNCHANGED <<catalogVars, enStatus, sParams, sStream, sApply, result>>

Override ==
  /\ srv = "override" /\ srv' = "drop" /\ enStatus' = "overridden"
  /\ SrvKeeps
  /\ UNCHANGED <<catalogVars, sParams, sStream, sUpdate, sApply, sRecord, took,
                 result>>

Drop ==
  /\ srv = "drop" /\ srv' = "idle" /\ took' = 0
  /\ sStream' = Pushed(sStream, 0)
  /\ sUpdate' = Answered(sUpdate, took)
  /\ SrvKeeps
  /\ UNCHANGED <<catalogVars, enStatus, sParams, sApply, sRecord, result>>

(* process_apply() *)
TakeApply ==
  /\ srv = "idle" /\ Self \notin news /\ ~Owed(sUpdate) /\ Owed(sApply)
  /\ srv' = "apply" /\ took' = sApply.nRequest
  /\ SrvKeeps
  /\ UNCHANGED <<catalogVars, enStatus, sParams, sStream, sUpdate, sApply,
                 sRecord, result>>

(* apply(): the newest settings are taken; there may be none yet.          *)
(* create_stream() clears the record for the empty name, publishes a new   *)
(* stream for another, or fails, and then the request stays.               *)
Apply ==
  /\ srv = "apply" /\ sParams' = Got(sParams)
  /\ \/ /\ sParams'.cur = NULL
        /\ sApply' = Answered(sApply, took)
        /\ srv' = "idle" /\ took' = 0
        /\ UNCHANGED <<catalogVars, sRecord, result>>
     \/ /\ sParams'.cur # NULL /\ vState[sParams'.cur].sName = NoName
        /\ sRecord' = NoRecord /\ result' = 0
        /\ srv' = "status" /\ UNCHANGED <<catalogVars, sApply, took>>
     \/ /\ sParams'.cur # NULL /\ vState[sParams'.cur].sName # NoName
        /\ made < MaxStreams
        /\ LET n == vState[sParams'.cur].sName IN
             /\ made' = made + 1 /\ result' = made'
             /\ entry' = [entry EXCEPT ![n] = made']
             /\ news' = Everyone
             /\ sRecord' = [name |-> n, stream |-> made']
        /\ srv' = "status" /\ UNCHANGED <<sApply, took>>
     \/ /\ sParams'.cur # NULL /\ vState[sParams'.cur].sName # NoName
        /\ srv' = "idle" /\ took' = 0
        /\ UNCHANGED <<catalogVars, sApply, sRecord, result>>
  /\ SrvKeeps /\ UNCHANGED <<enStatus, sStream, sUpdate>>

Status ==
  /\ srv = "status" /\ srv' = "push"
  /\ enStatus' = IF result # 0 THEN "active" ELSE "inactive"
  /\ SrvKeeps
  /\ UNCHANGED <<catalogVars, sParams, sStream, sUpdate, sApply, sRecord, took,
                 result>>

(* Slip: the response is the request there is at the end, so that settings *)
(* published in the meantime count as applied.                             *)
PushNewest ==
  /\ srv = "push" /\ srv' = "idle" /\ took' = 0 /\ result' = 0
  /\ sStream' = Pushed(sStream, result)
  /\ sApply' = Answered(sApply, sApply.nRequest)
  /\ SrvKeeps
  /\ UNCHANGED <<catalogVars, enStatus, sParams, sUpdate, sRecord>>

Push ==
  /\ srv = "push" /\ srv' = "idle" /\ took' = 0 /\ result' = 0
  /\ sStream' = Pushed(sStream, result)
  /\ sApply' = Answered(sApply, took)
  /\ SrvKeeps
  /\ UNCHANGED <<catalogVars, enStatus, sParams, sUpdate, sRecord>>

SrvStep ==
  Sync \/ Update \/ Override \/ Drop \/ TakeApply \/ Apply \/ Status \/ Push

-----------------------------------------------------------------------------
(* Another send publishes under the name. *)
OtherPublishes(n) ==
  /\ made < MaxStreams /\ made' = made + 1
  /\ entry' = [entry EXCEPT ![n] = made'] /\ news' = Everyone
  /\ UNCHANGED <<portVars, rtVars, enStatus, boxVars, sUpdate, sApply, srvVars>>

Next ==
  \/ RtStep \/ SrvStep
  \/ \E n \in Name : OtherPublishes(n)
  \/ \E n \in Name \cup {NoName} : SetName(n)

Spec == Init /\ [][Next]_vars

-----------------------------------------------------------------------------
Settled ==
  /\ ~bChanged /\ ~bPublish /\ rt = "out" /\ srv = "idle" /\ Self \notin news
  /\ ~Owed(sUpdate) /\ ~Owed(sApply)

(* When both threads have done what was asked of them, the last settings   *)
(* are in force: the send is active exactly if it has a name, and then the *)
(* stream the audio thread writes to next is the one in the catalog.       *)
LastSettingsWin ==
  Settled =>
    /\ enStatus # "updating"
    /\ enStatus = "active" <=> sRecord # NoRecord
    /\ enStatus = "inactive" => sLastName = NoName
    /\ sRecord # NoRecord =>
         /\ sRecord.name = sLastName
         /\ entry[sRecord.name] = sRecord.stream
         /\ Newest(sStream) = sRecord.stream

(* publish() never fails: four elements are enough for the settings being  *)
(* written, those on the way, those in use and those about to be freed.    *)
SlotsSuffice == rt = "out" => FreeSlots # {}

(* A block that was begun is ended (AudioSend.h: "End I/O operations on    *)
(* the stream").                                                           *)
BlocksEnd == rt = "out" => ~bProcessing
=============================================================================
