-------------------------- MODULE AudioLinksProofs --------------------------
(***************************************************************************)
(* Proofs about the two ends of an audio link, AudioSend and AudioReturn,  *)
(* for every number of names, streams and changes of the name, as long as  *)
(* no serial comes round.                                                  *)
(***************************************************************************)
EXTENDS MCAudioLinks, TLAPS

LEMMA Sizes ==
  /\ MaxStreams \in Nat /\ MaxNames \in Nat /\ Serials \in Nat
  /\ MaxStreams + MaxNames + 2 < Serials
  /\ NULL \notin Slot /\ NULL \notin 0..MaxStreams /\ NoName \notin Name
  /\ Self \in Everyone
BY LinksAssumption DEF LinksAssumption, Send!SendConstants

-----------------------------------------------------------------------------
(* lltl::state<T>.                                                         *)

(* The object that was pushed last.                                        *)
LastOf(s) == IF s.pend = NULL THEN s.cur ELSE s.pend

(* Settings in a box: at most one is on its way, in use and replaced, and  *)
(* there is none to be freed while one is on its way.                      *)
Apart(s) ==
  /\ s.cur \in Slot \cup {NULL} /\ s.pend \in Slot \cup {NULL} /\ s.old \subseteq Slot
  /\ s.cur # NULL => s.cur # s.pend /\ s.cur \notin s.old
  /\ \A x, y \in s.old : x = y
  /\ s.old # {} => s.pend = NULL

(* The elements of vState that are in a box. *)
In(s) == {x \in Slot : x = s.cur \/ x = s.pend \/ x \in s.old}

LEMMA PushApart ==
  ASSUME NEW s, Apart(s), NEW x \in Slot, x \notin In(s),
         NEW t, t = [cur |-> s.cur, pend |-> x, old |-> {}]
  PROVE  /\ Apart(t) /\ t.cur = s.cur /\ t.pend = x /\ LastOf(t) = x
         /\ In(t) = {i \in Slot : i = s.cur \/ i = x}
         /\ \A i \in In(s) : i = s.cur <=> i \notin s.old \cup ({s.pend} \ {NULL})
<1> USE Sizes
<1>1. t.cur = s.cur /\ t.pend = x /\ t.old = {}
  OBVIOUS
<1>2. Apart(t)
  BY <1>1 DEF Apart, In
<1>3. LastOf(t) = x
  BY <1>1 DEF LastOf
<1>4. In(t) = {i \in Slot : i = s.cur \/ i = x}
  BY <1>1 DEF In
<1>5. \A i \in In(s) : i = s.cur <=> i \notin s.old \cup ({s.pend} \ {NULL})
  BY DEF Apart, In
<1> QED BY <1>1, <1>2, <1>3, <1>4, <1>5

LEMMA GotApart ==
  ASSUME NEW s, Apart(s),
         NEW t, t = IF s.pend = NULL THEN s
                    ELSE [cur |-> s.pend, pend |-> NULL,
                          old |-> s.old \cup ({s.cur} \ {NULL})]
  PROVE  Apart(t) /\ t.pend = NULL /\ t.cur = LastOf(s) /\ LastOf(t) = LastOf(s)
         /\ In(t) = In(s)
<1> USE Sizes
<1>1. CASE s.pend = NULL
  BY <1>1 DEF LastOf
<1>2. CASE s.pend # NULL
  <2>1. /\ t.cur = s.pend /\ t.pend = NULL
        /\ t.old = s.old \cup ({s.cur} \ {NULL})
    BY <1>2
  <2>2. s.old = {}
    BY <1>2 DEF Apart
  <2>3. t.old = {s.cur} \ {NULL}
    BY <2>1, <2>2
  <2>4. Apart(t)
    BY <1>2, <2>1, <2>3 DEF Apart
  <2>5. In(t) = In(s)
    BY <1>2, <2>1, <2>2, <2>3 DEF In
  <2> QED BY <1>2, <2>1, <2>4, <2>5 DEF LastOf
<1> QED BY <1>1, <1>2

(* A box in which the objects are elements of vState holds two at most.    *)
LEMMA TwoAtMost ==
  ASSUME NEW s, Apart(s)
  PROVE  \E i \in Slot : i \notin In(s)
<1>1. PICK n \in Slot : n > 2 /\ Slot = 1..n
  BY LinksAssumption DEF LinksAssumption, Send!SendConstants
<1>2. 1 \in Slot /\ 2 \in Slot /\ 3 \in Slot
  <2>1. n \in 1..n
    BY <1>1
  <2>2. n \in Nat
    BY <2>1
  <2> QED BY <1>1, <2>2
<1>3. CASE s.old = {}
  BY <1>2, <1>3 DEF In
<1>4. CASE s.old # {}
  <2>1. PICK x \in s.old : s.old = {x}
    BY <1>4 DEF Apart
  <2>2. s.pend = NULL
    BY <1>4 DEF Apart
  <2>3. \A i \in Slot : i \in In(s) => i = s.cur \/ i = x
    BY <2>1, <2>2, Sizes DEF In
  <2> QED BY <1>2, <2>3
<1> QED BY <1>3, <1>4

(* Boxes of streams.                                                       *)
Holds(s, S) == s \in [cur : S \cup {NULL}, pend : S \cup {NULL}, old : SUBSET S]

LEMMA PushHolds ==
  ASSUME NEW S, NEW s, Holds(s, S), NEW x \in S, NULL \notin S,
         NEW t, t = [cur |-> s.cur, pend |-> x, old |-> {}]
  PROVE  Holds(t, S) /\ LastOf(t) = x
BY DEF Holds, LastOf

LEMMA GotHolds ==
  ASSUME NEW S, NEW s, Holds(s, S),
         NEW t, t = IF s.pend = NULL THEN s
                    ELSE [cur |-> s.pend, pend |-> NULL,
                          old |-> s.old \cup ({s.cur} \ {NULL})]
  PROVE  Holds(t, S) /\ t.pend = NULL /\ t.cur = LastOf(s) /\ LastOf(t) = LastOf(s)
<1>1. CASE s.pend = NULL
  BY <1>1 DEF Holds, LastOf
<1>2. CASE s.pend # NULL
  <2>1. t.cur = s.pend /\ t.pend = NULL /\ t.old = s.old \cup ({s.cur} \ {NULL})
    BY <1>2
  <2> QED BY <1>2, <2>1 DEF Holds, LastOf
<1> QED BY <1>1, <1>2

-----------------------------------------------------------------------------
(* Requests.                                                               *)
LEMMA Requesting ==
  ASSUME NEW s \in [nRequest : 0..(Serials - 1), nResponse : 0..(Serials - 1)], s.nRequest + 1 < Serials,
         NEW t, t = [nRequest |-> (s.nRequest + 1) % Serials, nResponse |-> s.nResponse]
  PROVE  t \in [nRequest : 0..(Serials - 1), nResponse : 0..(Serials - 1)]
         /\ t.nRequest = s.nRequest + 1 /\ t.nResponse = s.nResponse
<1>1. s.nRequest \in Nat /\ (s.nRequest + 1) % Serials = s.nRequest + 1
  BY Sizes
<1> QED BY <1>1, Sizes

LEMMA Answering ==
  ASSUME NEW s \in [nRequest : 0..(Serials - 1), nResponse : 0..(Serials - 1)], NEW r \in 0..(Serials - 1),
         NEW t, t = [nRequest |-> s.nRequest, nResponse |-> r]
  PROVE  t \in [nRequest : 0..(Serials - 1), nResponse : 0..(Serials - 1)]
         /\ t.nRequest = s.nRequest /\ t.nResponse = r
OBVIOUS

-----------------------------------------------------------------------------
(* What both ends have in common.                                          *)

(* The last response came before a request; attach() makes one up.         *)
Before(s, r) == s.nResponse = Serials - 1 \/ s.nResponse < r

One(p) == IF p THEN 1 ELSE 0

(* The elements of vState that are taken are in the box sParams, but for   *)
(* the one with the settings that the audio thread is about to push.       *)
Taken ==
  /\ Apart(sParams)
  /\ rt # "push" => \A i \in Slot : ~vState[i].bFree <=> i \in In(sParams)
  /\ rt = "push" =>
       \E i \in Slot :
         /\ i \notin In(sParams) /\ vState[i].sName = sLastName
         /\ \A j \in Slot : ~vState[j].bFree <=> j = i \/ j \in In(sParams)

-----------------------------------------------------------------------------
(* The send.                                                               *)

SendTypes ==
  /\ entry \in [Name -> 0..MaxStreams] /\ news \subseteq Everyone
  /\ made \in 0..MaxStreams /\ names \in 0..MaxNames
  /\ pName \in Name \cup {NoName} /\ bChanged \in BOOLEAN
  /\ sLastName \in Name \cup {NoName}
  /\ bPublish \in BOOLEAN /\ bActive \in BOOLEAN /\ bProcessing \in BOOLEAN
  /\ enStatus \in {"inactive", "updating", "active", "overridden"}
  /\ pStream \in 0..MaxStreams \cup {NULL}
  /\ Holds(sStream, 0..MaxStreams)
  /\ vState \in [Slot -> [sName : Name \cup {NoName}, bFree : BOOLEAN]]
  /\ sRecord \in [name : Name \cup {NoName}, stream : 0..MaxStreams]
  /\ sUpdate \in [nRequest : 0..(Serials - 1), nResponse : 0..(Serials - 1)]
  /\ sApply \in [nRequest : 0..(Serials - 1), nResponse : 0..(Serials - 1)]
  /\ rt \in {"out", "push", "ask", "check", "activity", "begin", "in"}
  /\ srv \in {"idle", "override", "drop", "apply", "status", "push"}
  /\ took \in 0..(Serials - 1) /\ result \in 0..MaxStreams

(* Requests there were and those that may still follow from what is under  *)
(* way: no serial comes round.  The one being served is among them.        *)
Coming ==
  One(bPublish) + One(bChanged) + (MaxNames - names) + (MaxStreams - made)
    + One(sRecord # Send!NoRecord) + One(srv = "override")
    + One(enStatus = "overridden")

SendRequests ==
  /\ sApply.nRequest + Coming <= 1 + MaxNames + MaxStreams
  /\ sUpdate.nRequest + One(Self \in news) <= made
  /\ Before(sApply, sApply.nRequest + 1) /\ sUpdate.nResponse <= sUpdate.nRequest
  /\ srv \in {"apply", "status", "push"} =>
       Before(sApply, took) /\ took <= sApply.nRequest
  /\ srv \in {"override", "drop"} => took = sUpdate.nRequest

(* The settings pushed last are those of the last name, and when they are  *)
(* still to be taken they are still to be applied.                         *)
SendSettings ==
  /\ rt \in {"push", "ask"} => bPublish
  /\ ~bPublish \/ rt = "ask" =>
       LastOf(sParams) # NULL /\ vState[LastOf(sParams)].sName = sLastName
  /\ sParams.pend # NULL /\ rt # "ask" =>
       /\ Before(sApply, sApply.nRequest)
       /\ srv \in {"status", "push"} => took < sApply.nRequest

(* The record is the stream published under the name that was applied, and *)
(* what the audio thread was given, unless an update is on its way.        *)
SendRecord ==
  /\ sRecord = Send!NoRecord \/ (sRecord.name \in Name /\ sRecord.stream \in 1..made)
  /\ sRecord # Send!NoRecord =>
       \/ entry[sRecord.name] = sRecord.stream
       \/ Self \in news \/ sUpdate.nRequest # sUpdate.nResponse
  /\ sRecord # Send!NoRecord => sParams.cur # NULL
  /\ srv \in {"override", "drop"} => sRecord = Send!NoRecord
  /\ srv \in {"status", "push"} =>
       /\ sParams.cur # NULL
       /\ IF vState[sParams.cur].sName = NoName
          THEN sRecord = Send!NoRecord /\ result = 0
          ELSE sRecord = [name |-> vState[sParams.cur].sName, stream |-> result]
  /\ sRecord # Send!NoRecord /\ sApply.nRequest = sApply.nResponse =>
       sParams.cur # NULL /\ sRecord.name = vState[sParams.cur].sName
  /\ sRecord # Send!NoRecord /\ srv \notin {"status", "push"} =>
       LastOf(sStream) = sRecord.stream

(* The status is that of the record, unless one of the threads is about to *)
(* change it.                                                              *)
SendStatus ==
  /\ enStatus = "updating" =>
       \/ rt \in {"push", "ask"}
       \/ /\ LastOf(sParams) # NULL /\ Before(sApply, sApply.nRequest)
          /\ srv = "push" => took < sApply.nRequest
  /\ enStatus = "active" /\ srv \notin {"status", "override"} => sRecord # Send!NoRecord
  /\ enStatus \in {"inactive", "overridden"} /\ srv # "status" => sRecord = Send!NoRecord
  /\ srv = "push" => enStatus # "overridden"
  /\ enStatus = "inactive" /\ ~bChanged /\ ~bPublish
       /\ sApply.nRequest = sApply.nResponse =>
       sParams.cur # NULL /\ vState[sParams.cur].sName = NoName

SendInv ==
  SendTypes /\ Taken /\ SendRequests /\ SendSettings /\ SendRecord /\ SendStatus

SendNumbers ==
  /\ sApply.nRequest \in 0..(Serials - 1) /\ sApply.nResponse \in 0..(Serials - 1)
  /\ sUpdate.nRequest \in 0..(Serials - 1) /\ sUpdate.nResponse \in 0..(Serials - 1)
  /\ took \in 0..(Serials - 1) /\ made \in 0..MaxStreams /\ names \in 0..MaxNames

LEMMA SendNumeric == SendTypes => SendNumbers /\ Coming \in Nat /\ Coming >= One(bPublish)
<1> SUFFICES ASSUME SendTypes
             PROVE  SendNumbers /\ Coming \in Nat /\ Coming >= One(bPublish)
  OBVIOUS
<1>1. SendNumbers
  BY DEF SendTypes, SendNumbers
<1>2. /\ One(bPublish) \in Nat /\ One(bChanged) \in Nat
      /\ One(sRecord # Send!NoRecord) \in Nat /\ One(srv = "override") \in Nat
      /\ One(enStatus = "overridden") \in Nat
  BY DEF One
<1>3. MaxNames - names \in Nat /\ MaxStreams - made \in Nat
  BY <1>1, Sizes DEF SendNumbers
<1> QED BY <1>1, <1>2, <1>3 DEF Coming

LEMMA SendNumericNext == SendTypes' => SendNumbers' /\ Coming' \in Nat
<1>1. SendTypes => SendNumbers /\ Coming \in Nat
  BY SendNumeric
<1>2. SendTypes' => (SendNumbers /\ Coming \in Nat)'
  BY <1>1, PTL
<1> QED BY <1>2

(* Nothing more is coming than before. *)
LEMMA SendCounts ==
  ASSUME SendInv, SendTypes', Coming' <= Coming,
         UNCHANGED <<sApply, sUpdate>>, One((Self \in news)') <= One(Self \in news),
         made <= made',
         srv' \in {"apply", "status", "push"} =>
           Before(sApply, took') /\ took' <= sApply.nRequest,
         srv' \in {"override", "drop"} => took' = sUpdate.nRequest
  PROVE  SendRequests'
<1>1. SendNumbers /\ Coming \in Nat /\ Coming' \in Nat /\ made' \in Nat
  BY SendNumeric, SendNumericNext DEF SendInv, SendNumbers
<1>2. sApply.nRequest + Coming' <= 1 + MaxNames + MaxStreams
  BY <1>1, Sizes DEF SendInv, SendRequests, SendNumbers
<1>3. One(Self \in news) \in Nat /\ One((Self \in news)') \in Nat
  BY DEF One
<1>4. sUpdate.nRequest + One((Self \in news)') <= made'
  BY <1>1, <1>3 DEF SendInv, SendRequests, SendNumbers
<1> QED BY <1>2, <1>4 DEF SendInv, SendRequests, Before

LEMMA SendInit == ASSUME Send!Init PROVE SendInv
<1> USE Sizes DEF Send!Init, Send!NothingPushed, Send!NoRecord, Send!NoRequest,
        Send!Marked, Send!Answered
<1>0. (0 + Serials - 1) % Serials = Serials - 1 /\ Serials - 1 \in 0..(Serials - 1)
  OBVIOUS
<1>1. SendTypes
  <2>1. /\ sUpdate \in [nRequest : 0..(Serials - 1), nResponse : 0..(Serials - 1)]
        /\ sApply \in [nRequest : 0..(Serials - 1), nResponse : 0..(Serials - 1)]
    BY <1>0
  <2>2. sRecord \in [name : Name \cup {NoName}, stream : 0..MaxStreams]
    OBVIOUS
  <2>3. Holds(sStream, 0..MaxStreams)
    BY DEF Holds
  <2>4. 0 \in 0..MaxStreams /\ 0 \in 0..MaxNames /\ 0 \in 0..(Serials - 1)
    OBVIOUS
  <2>5. /\ entry \in [Name -> 0..MaxStreams]
        /\ vState \in [Slot -> [sName : Name \cup {NoName}, bFree : BOOLEAN]]
    BY <2>4
  <2> QED BY <2>1, <2>2, <2>3, <2>4, <2>5 DEF SendTypes
<1>2. Taken
  BY DEF Taken, Apart, In
<1>3. SendRequests
  BY <1>0 DEF SendRequests, Before, One, Coming
<1>4. SendSettings
  BY DEF SendSettings
<1>5. SendRecord
  BY DEF SendRecord
<1>6. SendStatus
  BY DEF SendStatus
<1> QED BY <1>1, <1>2, <1>3, <1>4, <1>5, <1>6 DEF SendInv

(* The user, and other sends.                                              *)
LEMMA SendSetNameStep ==
  ASSUME NEW n \in Name \cup {NoName}, SendInv, Send!SetName(n) PROVE SendInv'
<1> USE Sizes DEF SendInv
<1>0. /\ names < MaxNames /\ names' = names + 1 /\ pName' = n /\ bChanged' = TRUE
      /\ UNCHANGED <<entry, news, made, sLastName, bPublish, bActive, bProcessing,
                     pStream, rt, enStatus, sParams, vState, sStream, sUpdate, sApply,
                     sRecord, srv, took, result>>
  BY DEF Send!SetName, Send!catalogVars, Send!rtVars, Send!clientVars, Send!boxVars,
      Send!srvVars
<1>1. SendTypes'
  BY <1>0 DEF SendTypes
<1>2. Taken'
  BY <1>0 DEF Taken
<1>3. SendRequests'
  <2>1. SendNumbers
    BY SendNumeric
  <2>2. Coming' <= Coming
    BY <1>0, <2>1 DEF Coming, One, SendNumbers
  <2> QED BY <1>0, <1>1, <2>1, <2>2, SendCounts DEF SendRequests, SendNumbers, One
<1>4. SendSettings'
  BY <1>0 DEF SendSettings, Before
<1>5. SendRecord'
  BY <1>0 DEF SendRecord
<1>6. SendStatus'
  BY <1>0 DEF SendStatus, Before
<1> QED BY <1>1, <1>2, <1>3, <1>4, <1>5, <1>6

LEMMA SendOtherPublishesStep ==
  ASSUME NEW n \in Name, SendInv, Send!OtherPublishes(n) PROVE SendInv'
<1> USE Sizes DEF SendInv, Send!NoRecord
<1>0. /\ made < MaxStreams /\ made' = made + 1
      /\ entry' = [entry EXCEPT ![n] = made'] /\ news' = Everyone
      /\ UNCHANGED <<pName, bChanged, names, sLastName, bPublish, bActive, bProcessing,
                     pStream, rt, enStatus, sParams, vState, sStream, sUpdate, sApply,
                     sRecord, srv, took, result>>
  BY DEF Send!OtherPublishes, Send!portVars, Send!rtVars, Send!clientVars,
      Send!boxVars, Send!srvVars
<1>n. SendNumbers
  BY SendNumeric
<1>1. SendTypes'
  <2>1. made' \in 0..MaxStreams
    BY <1>0, <1>n DEF SendNumbers
  <2> QED BY <1>0, <2>1 DEF SendTypes
<1>2. Taken'
  BY <1>0 DEF Taken
<1>3. SendRequests'
  <2>1. Coming \in Nat /\ One(Self \in news) \in Nat
    BY SendNumeric DEF One
  <2>2. Coming' <= Coming
    BY <1>0, <1>n DEF Coming, One, SendNumbers
  <2>3. sApply'.nRequest + Coming' <= 1 + MaxNames + MaxStreams
    <3>1. Coming' \in Nat
      BY <1>1, SendNumericNext
    <3> QED BY <1>0, <1>n, <2>1, <2>2, <3>1 DEF SendRequests, SendNumbers
  <2>4. sUpdate'.nRequest + One((Self \in news)') <= made'
    BY <1>0, <1>n, <2>1 DEF SendRequests, SendNumbers, One
  <2> QED BY <1>0, <2>3, <2>4 DEF SendRequests, Before
<1>4. SendSettings'
  BY <1>0 DEF SendSettings, Before
<1>5. SendRecord'
  <2>1. Self \in news'
    BY <1>0
  <2>2. 1..made \subseteq 1..made'
    BY <1>0, <1>n DEF SendNumbers
  <2> QED BY <1>0, <2>1, <2>2 DEF SendRecord
<1>6. SendStatus'
  BY <1>0 DEF SendStatus, Before
<1> QED BY <1>1, <1>2, <1>3, <1>4, <1>5, <1>6

(* publish() finds a free element: *)
LEMMA SendPublishStep == ASSUME SendInv, Send!Publish PROVE SendInv'
<1> USE Sizes DEF SendInv, Send!NoRecord
<1>0. /\ rt = "out" /\ bPublish
      /\ UNCHANGED <<entry, news, made, sUpdate, sRecord, srv, took, result, names,
                     pName, bChanged, sLastName, bActive, bProcessing, pStream,
                     sStream, sApply>>
  BY DEF Send!Publish, Send!RtKeeps, Send!catalogVars, Send!srvVars
<1>1. PICK i \in Slot :
        /\ vState[i].bFree /\ i \notin In(sParams)
        /\ vState' = [vState EXCEPT ![i] = [sName |-> sLastName, bFree |-> FALSE]]
        /\ enStatus' = "updating" /\ rt' = "push"
        /\ bPublish' = bPublish /\ sParams' = sParams
  <2>1. PICK j \in Slot : j \notin In(sParams)
    BY TwoAtMost DEF Taken
  <2>2. Send!FreeSlots # {}
    BY <1>0, <2>1 DEF Taken, Send!FreeSlots
  <2> QED BY <1>0, <2>2 DEF Send!Publish, Send!FreeSlots, Taken
<1>2. /\ vState'[i] = [sName |-> sLastName, bFree |-> FALSE]
      /\ \A j \in Slot \ {i} : vState'[j] = vState[j]
  BY <1>1 DEF SendTypes
<1>3. /\ sParams.cur # NULL => vState'[sParams.cur] = vState[sParams.cur]
      /\ LastOf(sParams) # NULL => vState'[LastOf(sParams)] = vState[LastOf(sParams)]
  BY <1>1, <1>2 DEF Taken, Apart, In, LastOf
<1>4. SendTypes'
  BY <1>0, <1>1 DEF SendTypes
<1>5. Taken'
  <2>1. \A j \in Slot : ~vState[j].bFree <=> j \in In(sParams)
    BY <1>0 DEF Taken
  <2>2. \A j \in Slot : ~vState'[j].bFree <=> j = i \/ j \in In(sParams')
    BY <1>1, <1>2, <2>1
  <2> QED BY <1>0, <1>1, <1>2, <2>2 DEF Taken
<1>6. SendRequests'
  <2>1. SendNumbers
    BY SendNumeric
  <2>2. Coming' <= Coming
    BY <1>0, <1>1, <2>1 DEF Coming, One, SendNumbers
  <2> QED BY <1>0, <1>4, <2>1, <2>2, SendCounts DEF SendRequests, SendNumbers, One
<1>7. SendSettings'
  BY <1>0, <1>1 DEF SendSettings, Before
<1>8. SendRecord'
  BY <1>0, <1>1, <1>3 DEF SendRecord
<1>9. SendStatus'
  BY <1>0, <1>1 DEF SendStatus, SendTypes
<1> QED BY <1>4, <1>5, <1>6, <1>7, <1>8, <1>9

(* pushes it and frees what nobody needs, *)
LEMMA SendPublishPushStep == ASSUME SendInv, Send!PublishPush PROVE SendInv'
<1> USE Sizes DEF SendInv, Send!NoRecord
<1>0. /\ rt = "push" /\ rt' = "ask"
      /\ UNCHANGED <<entry, news, made, sUpdate, sRecord, srv, took, result, names,
                     pName, bChanged, sLastName, bPublish, bActive, bProcessing,
                     pStream, enStatus, sStream, sApply>>
  BY DEF Send!PublishPush, Send!RtKeeps, Send!catalogVars, Send!srvVars,
      Send!clientVars
<1>1. PICK i \in Slot :
        /\ i \notin In(sParams) /\ vState[i].sName = sLastName
        /\ \A j \in Slot : ~vState[j].bFree <=> j = i \/ j \in In(sParams)
  BY <1>0 DEF Taken
<1>2. /\ sParams' = [cur |-> sParams.cur, pend |-> i, old |-> {}]
      /\ vState' = [j \in Slot |->
           IF j \in sParams.old \cup ({sParams.pend} \ {NULL})
           THEN [vState[j] EXCEPT !.bFree = TRUE] ELSE vState[j]]
  <2>1. PICK x \in Slot :
          /\ ~vState[x].bFree /\ x \notin Send!Objects(sParams)
          /\ sParams' = Send!Pushed(sParams, x)
          /\ vState' = [j \in Slot |->
               IF j \in Send!Freed(sParams) THEN [vState[j] EXCEPT !.bFree = TRUE]
               ELSE vState[j]]
    BY DEF Send!PublishPush
  <2>2. x \notin In(sParams)
    BY <2>1 DEF Send!Objects, In
  <2>3. x = i
    BY <1>1, <2>1, <2>2
  <2> QED BY <2>1, <2>3 DEF Send!Pushed, Send!Freed
<1>3. /\ Apart(sParams') /\ sParams'.cur = sParams.cur /\ sParams'.pend = i
      /\ LastOf(sParams') = i /\ In(sParams') = {j \in Slot : j = sParams.cur \/ j = i}
      /\ \A j \in In(sParams) :
           j = sParams.cur <=> j \notin sParams.old \cup ({sParams.pend} \ {NULL})
  BY <1>1, <1>2, PushApart DEF Taken
<1>4. \A j \in Slot :
        /\ vState'[j].sName = vState[j].sName
        /\ vState'[j].bFree =
             (vState[j].bFree \/ j \in sParams.old \cup ({sParams.pend} \ {NULL}))
  <2> SUFFICES ASSUME NEW j \in Slot
               PROVE  /\ vState'[j].sName = vState[j].sName
                      /\ vState'[j].bFree =
                           (vState[j].bFree
                              \/ j \in sParams.old \cup ({sParams.pend} \ {NULL}))
    OBVIOUS
  <2>1. vState[j] \in [sName : Name \cup {NoName}, bFree : BOOLEAN]
    BY DEF SendTypes
  <2> QED BY <1>2, <2>1
<1>5. SendTypes'
  <2>1. vState' \in [Slot -> [sName : Name \cup {NoName}, bFree : BOOLEAN]]
    <3> SUFFICES ASSUME NEW j \in Slot
                 PROVE  [vState[j] EXCEPT !.bFree = TRUE]
                          \in [sName : Name \cup {NoName}, bFree : BOOLEAN]
      BY <1>2 DEF SendTypes
    <3>1. vState[j] \in [sName : Name \cup {NoName}, bFree : BOOLEAN]
      BY DEF SendTypes
    <3> QED BY <3>1
  <2> QED BY <1>0, <2>1 DEF SendTypes
<1>6. Taken'
  <2>1. \A j \in Slot : j \in sParams.old \cup ({sParams.pend} \ {NULL}) => j \in In(sParams)
    BY DEF In
  <2>2. \A j \in Slot : ~vState'[j].bFree <=> j \in In(sParams')
    <3> SUFFICES ASSUME NEW j \in Slot
                 PROVE  ~vState'[j].bFree <=> j \in In(sParams')
      OBVIOUS
    <3>1. ~vState'[j].bFree <=>
            /\ j = i \/ j \in In(sParams)
            /\ j \notin sParams.old \cup ({sParams.pend} \ {NULL})
      BY <1>1, <1>4
    <3>2. j = sParams.cur => j \in In(sParams)
      BY DEF In
    <3> QED BY <1>1, <1>3, <2>1, <3>1, <3>2
  <2> QED BY <1>0, <1>3, <2>2 DEF Taken
<1>7. SendRequests'
  BY <1>0 DEF SendRequests, Before, Coming
<1>8. SendSettings'
  BY <1>0, <1>1, <1>3, <1>4 DEF SendSettings
<1>9. SendRecord'
  <2>1. sParams.cur # NULL => vState'[sParams.cur].sName = vState[sParams.cur].sName
    BY <1>4 DEF Taken, Apart
  <2> QED BY <1>0, <1>3, <2>1 DEF SendRecord
<1>10. SendStatus'
  <2>1. sParams.cur # NULL => vState'[sParams.cur].sName = vState[sParams.cur].sName
    BY <1>4 DEF Taken, Apart
  <2> QED BY <1>0, <1>3, <2>1 DEF SendStatus, Before
<1> QED BY <1>5, <1>6, <1>7, <1>8, <1>9, <1>10

(* and asks for it to be applied.                                          *)
LEMMA SendPublishAskStep == ASSUME SendInv, Send!PublishAsk PROVE SendInv'
<1> USE Sizes DEF SendInv, Send!NoRecord
<1>0. /\ rt = "ask" /\ rt' = "check" /\ bPublish' = FALSE
      /\ sApply' = [nRequest |-> (sApply.nRequest + 1) % Serials,
                    nResponse |-> sApply.nResponse]
      /\ UNCHANGED <<entry, news, made, sUpdate, sRecord, srv, took, result, names,
                     pName, bChanged, sLastName, bActive, bProcessing, pStream,
                     enStatus, sParams, vState, sStream>>
  BY DEF Send!PublishAsk, Send!RtKeeps, Send!catalogVars, Send!srvVars, Send!boxVars,
      Send!Requested
<1>n. SendNumbers /\ Coming \in Nat /\ Coming >= One(bPublish)
  BY SendNumeric
<1>p. One(bPublish) = 1
  BY <1>0 DEF SendSettings, One
<1>1. sApply.nRequest \in Nat /\ sApply.nRequest + 1 + 1 < Serials
  BY <1>n, <1>p DEF SendRequests, SendNumbers
<1>2. /\ sApply' \in [nRequest : 0..(Serials - 1), nResponse : 0..(Serials - 1)]
      /\ sApply'.nRequest = sApply.nRequest + 1
      /\ sApply'.nResponse = sApply.nResponse
  <2>1. /\ sApply \in [nRequest : 0..(Serials - 1), nResponse : 0..(Serials - 1)]
        /\ sApply.nRequest + 1 < Serials
    BY <1>1 DEF SendTypes
  <2> QED BY <1>0, <2>1, Requesting
<1>3. Before(sApply', sApply'.nRequest) /\ sApply'.nRequest # sApply'.nResponse
  BY <1>1, <1>2 DEF SendTypes, SendRequests, Before
<1>4. SendTypes'
  <2>1. bPublish' \in BOOLEAN /\ rt' \in {"check"}
    BY <1>0
  <2> QED BY <1>0, <1>2, <2>1 DEF SendTypes
<1>5. Taken'
  BY <1>0 DEF Taken
<1>6. SendRequests'
  <2>1. srv \in {"apply", "status", "push"} =>
          Before(sApply', took) /\ took <= sApply'.nRequest
    BY <1>1, <1>2 DEF SendTypes, SendRequests, Before
  <2>2. One(bPublish') = 0
    BY <1>0 DEF One
  <2>3. Coming' = Coming - 1
    <3>1. /\ One(bChanged) \in Nat /\ One(sRecord # Send!NoRecord) \in Nat
          /\ One(srv = "override") \in Nat /\ One(enStatus = "overridden") \in Nat
      BY DEF One
    <3>2. /\ One(bChanged') = One(bChanged)
          /\ One(sRecord' # Send!NoRecord) = One(sRecord # Send!NoRecord)
          /\ One(srv' = "override") = One(srv = "override")
          /\ One(enStatus' = "overridden") = One(enStatus = "overridden")
      BY <1>0
    <3> QED BY <1>0, <1>n, <1>p, <2>2, <3>1, <3>2 DEF Coming, SendNumbers
  <2>4. Before(sApply', sApply'.nRequest + 1)
    BY <1>1, <1>2, <1>3 DEF Before
  <2>5. sApply'.nRequest + Coming' <= 1 + MaxNames + MaxStreams
    BY <1>1, <1>2, <1>n, <2>3 DEF SendRequests
  <2> QED BY <1>0, <2>1, <2>4, <2>5 DEF SendRequests
<1>7. SendSettings'
  BY <1>0, <1>1, <1>2, <1>3 DEF SendTypes, SendSettings, SendRequests
<1>8. SendRecord'
  BY <1>0, <1>3 DEF SendRecord
<1>9. SendStatus'
  <2>1. LastOf(sParams) # NULL
    BY <1>0 DEF SendSettings
  <2> QED BY <1>0, <1>1, <1>2, <1>3, <2>1 DEF SendTypes, SendStatus, SendRequests
<1> QED BY <1>4, <1>5, <1>6, <1>7, <1>8, <1>9

(* The settings are left alone. *)
LEMMA SendCheckStep == ASSUME SendInv, Send!Check PROVE SendInv'
<1> USE Sizes DEF SendInv, Send!NoRecord
<1>0. /\ rt # "push" /\ rt # "ask" /\ rt' = "activity"
      /\ UNCHANGED <<entry, news, made, names, sLastName, bPublish, bActive,
                     bProcessing, pStream, sParams, vState, sStream, sUpdate, sApply,
                     sRecord, srv, took, result>>
      /\ \/ /\ enStatus = "overridden" /\ enStatus' = "inactive"
            /\ pName' = NoName /\ bChanged' = TRUE
         \/ UNCHANGED <<enStatus, pName, bChanged>>
  BY DEF Send!Check, Send!RtKeeps, Send!catalogVars, Send!clientVars, Send!boxVars,
      Send!srvVars
<1>1. SendTypes'
  <2>1. enStatus' \in {"inactive", "updating", "active", "overridden"}
    BY <1>0 DEF SendTypes
  <2>2. pName' \in Name \cup {NoName} /\ bChanged' \in BOOLEAN
    BY <1>0 DEF SendTypes
  <2> QED BY <1>0, <2>1, <2>2 DEF SendTypes
<1>2. Taken'
  BY <1>0 DEF Taken
<1>3. SendRequests'
  <2>1. SendNumbers
    BY SendNumeric
  <2>2. Coming' <= Coming
    BY <1>0, <2>1 DEF Coming, One, SendNumbers
  <2> QED BY <1>0, <1>1, <2>1, <2>2, SendCounts DEF SendRequests, SendNumbers, One
<1>4. SendSettings'
  BY <1>0 DEF SendSettings, Before
<1>5. SendRecord'
  BY <1>0 DEF SendRecord
<1>6. SendStatus'
  BY <1>0 DEF SendStatus, Before
<1> QED BY <1>1, <1>2, <1>3, <1>4, <1>5, <1>6

LEMMA SendActivityStep == ASSUME SendInv, Send!Activity PROVE SendInv'
<1> USE Sizes DEF SendInv
<1>0. /\ rt = "activity" /\ rt' \in {"begin", "in"} /\ bActive' \in BOOLEAN
      /\ UNCHANGED <<entry, news, made, names, pName, bChanged, sLastName, bPublish,
                     bProcessing, pStream, enStatus, sParams, vState, sStream, sUpdate,
                     sApply, sRecord, srv, took, result>>
  BY DEF Send!Activity, Send!RtKeeps, Send!catalogVars, Send!boxVars, Send!srvVars
<1>1. SendTypes'
  BY <1>0 DEF SendTypes
<1>2. Taken'
  BY <1>0 DEF Taken
<1>3. SendRequests'
  BY <1>0 DEF SendRequests, Before, Coming
<1>4. SendSettings'
  BY <1>0 DEF SendSettings, Before
<1>5. SendRecord'
  BY <1>0 DEF SendRecord
<1>6. SendStatus'
  BY <1>0 DEF SendStatus, Before
<1> QED BY <1>1, <1>2, <1>3, <1>4, <1>5, <1>6

(* begin() takes the newest stream, which stays the newest. *)
LEMMA SendBeginStep == ASSUME SendInv, Send!Begin PROVE SendInv'
<1> USE Sizes DEF SendInv
<1>0. /\ rt = "begin" /\ rt' = "in" /\ bProcessing' \in BOOLEAN
      /\ UNCHANGED <<entry, news, made, names, pName, bChanged, sLastName, bPublish,
                     bActive, enStatus, sParams, vState, sUpdate, sApply, sRecord, srv,
                     took, result>>
      /\ \/ UNCHANGED <<pStream, sStream>>
         \/ /\ sStream' = IF sStream.pend = NULL THEN sStream
                          ELSE [cur |-> sStream.pend, pend |-> NULL,
                                old |-> sStream.old \cup ({sStream.cur} \ {NULL})]
            /\ pStream' = sStream'.cur
  BY DEF Send!Begin, Send!RtKeeps, Send!catalogVars, Send!clientVars, Send!srvVars,
      Send!Got, SendTypes
<1>1. Holds(sStream', 0..MaxStreams) /\ LastOf(sStream') = LastOf(sStream)
  <2>1. Holds(sStream, 0..MaxStreams)
    BY DEF SendTypes
  <2> QED BY <1>0, <2>1, GotHolds
<1>2. SendTypes'
  <2>1. pStream' \in 0..MaxStreams \cup {NULL}
    BY <1>0, <1>1 DEF SendTypes, Holds
  <2>2. UNCHANGED <<entry, news, made, names, pName, bChanged, sLastName, bPublish,
                    enStatus, vState, sUpdate, sApply, sRecord, srv, took, result>>
    BY <1>0
  <2>3. rt' \in {"in"} /\ bActive' \in BOOLEAN /\ bProcessing' \in BOOLEAN
        /\ Holds(sStream', 0..MaxStreams)
    BY <1>0, <1>1 DEF SendTypes
  <2> QED BY <2>1, <2>2, <2>3 DEF SendTypes
<1>3. Taken'
  BY <1>0 DEF Taken
<1>4. SendRequests'
  <2>1. Coming' = Coming
    <3>1. UNCHANGED <<bPublish, bChanged, names, made, sRecord, srv, enStatus>>
      BY <1>0
    <3> QED BY <3>1 DEF Coming
  <2>2. UNCHANGED <<sApply, sUpdate, made, news, srv, took>>
    BY <1>0
  <2> QED BY <2>1, <2>2 DEF SendRequests, Before
<1>5. SendSettings'
  BY <1>0 DEF SendSettings, Before
<1>6. SendRecord'
  BY <1>0, <1>1 DEF SendRecord
<1>7. SendStatus'
  BY <1>0 DEF SendStatus, Before
<1> QED BY <1>2, <1>3, <1>4, <1>5, <1>6, <1>7

(* A new name has to be published. *)
LEMMA SendUpdateSettingsStep == ASSUME SendInv, Send!UpdateSettings PROVE SendInv'
<1> USE Sizes DEF SendInv
<1>0. /\ rt = "in" /\ bChanged /\ bChanged' = FALSE /\ sLastName' = pName
      /\ bPublish' = TRUE
      /\ UNCHANGED <<entry, news, made, names, pName, bActive, bProcessing, pStream, rt,
                     enStatus, sParams, vState, sStream, sUpdate, sApply, sRecord, srv,
                     took, result>>
  BY DEF Send!UpdateSettings, Send!RtKeeps, Send!catalogVars, Send!boxVars,
      Send!srvVars
<1>1. SendTypes'
  <2>1. sLastName' \in Name \cup {NoName} /\ bChanged' \in BOOLEAN /\ bPublish' \in BOOLEAN
    BY <1>0 DEF SendTypes
  <2> QED BY <1>0, <2>1 DEF SendTypes
<1>2. Taken'
  BY <1>0 DEF Taken
<1>3. SendRequests'
  <2>1. SendNumbers
    BY SendNumeric
  <2>2. Coming' <= Coming
    BY <1>0, <2>1 DEF Coming, One, SendNumbers
  <2> QED BY <1>0, <1>1, <2>1, <2>2, SendCounts DEF SendRequests, SendNumbers, One
<1>4. SendSettings'
  BY <1>0 DEF SendSettings, Before
<1>5. SendRecord'
  BY <1>0 DEF SendRecord
<1>6. SendStatus'
  BY <1>0 DEF SendStatus, Before
<1> QED BY <1>1, <1>2, <1>3, <1>4, <1>5, <1>6

LEMMA SendEndStep == ASSUME SendInv, Send!End PROVE SendInv'
<1> USE Sizes DEF SendInv
<1>0. /\ rt = "in" /\ rt' = "out" /\ bActive' = FALSE
      /\ UNCHANGED <<entry, news, made, names, pName, bChanged, sLastName, bPublish,
                     enStatus, sParams, vState, sStream, sUpdate, sApply, sRecord, srv,
                     took, result>>
      /\ bProcessing' \in BOOLEAN /\ (pStream' = NULL \/ pStream' = pStream)
  BY DEF Send!End, Send!RtKeeps, Send!catalogVars, Send!boxVars, Send!srvVars, SendTypes
<1>1. SendTypes'
  <2>1. pStream' \in 0..MaxStreams \cup {NULL}
    BY <1>0 DEF SendTypes
  <2>2. UNCHANGED <<entry, news, made, names, pName, bChanged, sLastName, bPublish,
                    enStatus, vState, sUpdate, sApply, sRecord, srv, took, result>>
    BY <1>0
  <2>3. rt' \in {"out"} /\ bActive' \in BOOLEAN /\ bProcessing' \in BOOLEAN
        /\ Holds(sStream', 0..MaxStreams)
    BY <1>0 DEF SendTypes
  <2> QED BY <2>1, <2>2, <2>3 DEF SendTypes
<1>2. Taken'
  BY <1>0 DEF Taken
<1>3. SendRequests'
  <2>1. Coming' = Coming
    <3>1. UNCHANGED <<bPublish, bChanged, names, made, sRecord, srv, enStatus>>
      BY <1>0
    <3> QED BY <3>1 DEF Coming
  <2>2. UNCHANGED <<sApply, sUpdate, made, news, srv, took>>
    BY <1>0
  <2> QED BY <2>1, <2>2 DEF SendRequests, Before
<1>4. SendSettings'
  BY <1>0 DEF SendSettings, Before
<1>5. SendRecord'
  BY <1>0 DEF SendRecord
<1>6. SendStatus'
  BY <1>0 DEF SendStatus, Before
<1> QED BY <1>1, <1>2, <1>3, <1>4, <1>5, <1>6

(* The service hears of changes of the catalog, *)
LEMMA SendSyncStep == ASSUME SendInv, Send!Sync PROVE SendInv'
<1> USE Sizes DEF SendInv
<1>0. /\ srv = "idle" /\ Self \in news /\ news' = news \ {Self}
      /\ sUpdate' = [nRequest |-> (sUpdate.nRequest + 1) % Serials,
                     nResponse |-> sUpdate.nResponse]
      /\ UNCHANGED <<entry, made, pName, bChanged, names, sLastName, bPublish, bActive,
                     bProcessing, pStream, rt, enStatus, sParams, vState, sStream,
                     sApply, sRecord, srv, took, result>>
  BY DEF Send!Sync, Send!SrvKeeps, Send!portVars, Send!rtVars, Send!clientVars,
      Send!srvVars, Send!Requested
<1>n. SendNumbers
  BY SendNumeric
<1>1. sUpdate.nRequest + 1 <= made
  BY <1>0 DEF SendRequests, One
<1>2. /\ sUpdate' \in [nRequest : 0..(Serials - 1), nResponse : 0..(Serials - 1)]
      /\ sUpdate'.nRequest = sUpdate.nRequest + 1
      /\ sUpdate'.nResponse = sUpdate.nResponse
  <2>1. /\ sUpdate \in [nRequest : 0..(Serials - 1), nResponse : 0..(Serials - 1)]
        /\ sUpdate.nRequest + 1 < Serials
    BY <1>1, <1>n DEF SendTypes, SendNumbers
  <2> QED BY <1>0, <2>1, Requesting
<1>3. SendTypes'
  BY <1>0, <1>2 DEF SendTypes
<1>4. Taken'
  BY <1>0 DEF Taken
<1>5. SendRequests'
  <2>1. sUpdate'.nRequest + One((Self \in news)') <= made
    BY <1>0, <1>1, <1>2, <1>n DEF One, SendNumbers
  <2>2. sUpdate'.nResponse <= sUpdate'.nRequest
    BY <1>2, <1>n DEF SendRequests, SendNumbers
  <2> QED BY <1>0, <2>1, <2>2 DEF SendRequests, Before, Coming
<1>6. SendSettings'
  BY <1>0 DEF SendSettings, Before
<1>7. SendRecord'
  <2>1. sUpdate'.nRequest # sUpdate'.nResponse
    BY <1>2, <1>n DEF SendRequests, SendNumbers
  <2> QED BY <1>0, <2>1 DEF SendRecord
<1>8. SendStatus'
  BY <1>0 DEF SendStatus, Before
<1> QED BY <1>3, <1>4, <1>5, <1>6, <1>7, <1>8

(* looks whether the name was taken over, *)
LEMMA SendUpdateStep == ASSUME SendInv, Send!Update PROVE SendInv'
<1> USE Sizes DEF SendInv
<1>0. /\ srv = "idle" /\ Self \notin news
      /\ UNCHANGED <<entry, news, made, pName, bChanged, names, sLastName, bPublish,
                     bActive, bProcessing, pStream, rt, enStatus, sParams, vState,
                     sStream, sApply, result>>
  BY DEF Send!Update, Send!SrvKeeps, Send!portVars, Send!rtVars, Send!clientVars,
      Send!catalogVars
<1>n. SendNumbers
  BY SendNumeric
<1>1. CASE Send!Valid
  <2>1. /\ sUpdate' = [nRequest |-> sUpdate.nRequest, nResponse |-> sUpdate.nRequest]
        /\ UNCHANGED <<srv, took, sRecord>>
    BY <1>1 DEF Send!Update, Send!Answered
  <2>2. /\ sUpdate' \in [nRequest : 0..(Serials - 1), nResponse : 0..(Serials - 1)]
        /\ sUpdate'.nRequest = sUpdate.nRequest /\ sUpdate'.nResponse = sUpdate.nRequest
    BY <2>1, <1>n DEF SendNumbers
  <2>3. SendTypes'
    BY <1>0, <2>1, <2>2 DEF SendTypes
  <2>4. Taken'
    BY <1>0 DEF Taken
  <2>5. SendRequests'
    BY <1>0, <1>n, <2>1, <2>2 DEF SendRequests, Before, Coming, SendNumbers
  <2>6. SendSettings'
    BY <1>0, <2>1 DEF SendSettings, Before
  <2>7. SendRecord'
    BY <1>0, <1>1, <2>1 DEF SendRecord, Send!Valid
  <2>8. SendStatus'
    BY <1>0, <2>1 DEF SendStatus, Before
  <2> QED BY <2>3, <2>4, <2>5, <2>6, <2>7, <2>8
<1>2. CASE ~Send!Valid
  <2>1. /\ srv' = "override" /\ took' = sUpdate.nRequest /\ sRecord' = Send!NoRecord
        /\ sRecord # Send!NoRecord /\ UNCHANGED sUpdate
    BY <1>2 DEF Send!Update, Send!Valid
  <2>2. Send!NoRecord \in [name : Name \cup {NoName}, stream : 0..MaxStreams]
    BY DEF Send!NoRecord
  <2>3. SendTypes'
    BY <1>0, <1>n, <2>1, <2>2 DEF SendTypes, SendNumbers
  <2>4. Taken'
    BY <1>0 DEF Taken
  <2>5. SendRequests'
    <3>1. Coming' <= Coming
      BY <1>0, <1>n, <2>1 DEF Coming, One, SendNumbers
    <3> QED BY <1>0, <1>n, <2>1, <2>3, <3>1, SendCounts DEF SendNumbers, One
  <2>6. SendSettings'
    BY <1>0, <2>1 DEF SendSettings, Before
  <2>7. SendRecord'
    BY <1>0, <2>1 DEF SendRecord
  <2>8. SendStatus'
    BY <1>0, <2>1 DEF SendStatus, Before
  <2> QED BY <2>3, <2>4, <2>5, <2>6, <2>7, <2>8
<1> QED BY <1>1, <1>2

LEMMA SendOverrideStep == ASSUME SendInv, Send!Override PROVE SendInv'
<1> USE Sizes DEF SendInv
<1>0. /\ srv = "override" /\ srv' = "drop" /\ enStatus' = "overridden"
      /\ UNCHANGED <<entry, news, made, pName, bChanged, names, sLastName, bPublish,
                     bActive, bProcessing, pStream, rt, sParams, vState, sStream,
                     sUpdate, sApply, sRecord, took, result>>
  BY DEF Send!Override, Send!SrvKeeps, Send!portVars, Send!rtVars, Send!clientVars,
      Send!catalogVars
<1>1. SendTypes'
  BY <1>0 DEF SendTypes
<1>2. Taken'
  BY <1>0 DEF Taken
<1>3. SendRequests'
  <2>1. SendNumbers
    BY SendNumeric
  <2>2. Coming' <= Coming
    BY <1>0, <2>1 DEF Coming, One, SendNumbers
  <2> QED BY <1>0, <1>1, <2>1, <2>2, SendCounts DEF SendRequests, SendNumbers, One
<1>4. SendSettings'
  BY <1>0 DEF SendSettings, Before
<1>5. SendRecord'
  BY <1>0 DEF SendRecord
<1>6. SendStatus'
  BY <1>0 DEF SendStatus, SendRecord, Before
<1> QED BY <1>1, <1>2, <1>3, <1>4, <1>5, <1>6

LEMMA SendDropStep == ASSUME SendInv, Send!Drop PROVE SendInv'
<1> USE Sizes DEF SendInv
<1>0. /\ srv = "drop" /\ srv' = "idle" /\ took' = 0
      /\ sStream' = [cur |-> sStream.cur, pend |-> 0, old |-> {}]
      /\ sUpdate' = [nRequest |-> sUpdate.nRequest, nResponse |-> took]
      /\ UNCHANGED <<entry, news, made, pName, bChanged, names, sLastName, bPublish,
                     bActive, bProcessing, pStream, rt, enStatus, sParams, vState,
                     sApply, sRecord, result>>
  BY DEF Send!Drop, Send!SrvKeeps, Send!portVars, Send!rtVars, Send!clientVars,
      Send!catalogVars, Send!Pushed, Send!Answered
<1>n. SendNumbers
  BY SendNumeric
<1>1. took = sUpdate.nRequest /\ sRecord = Send!NoRecord
  BY <1>0 DEF SendRequests, SendRecord
<1>2. /\ sUpdate' \in [nRequest : 0..(Serials - 1), nResponse : 0..(Serials - 1)]
      /\ sUpdate'.nRequest = sUpdate.nRequest /\ sUpdate'.nResponse = sUpdate.nRequest
  BY <1>0, <1>1, <1>n DEF SendNumbers
<1>3. Holds(sStream', 0..MaxStreams)
  <2>1. Holds(sStream, 0..MaxStreams) /\ 0 \in 0..MaxStreams
    BY DEF SendTypes
  <2> QED BY <1>0, <2>1, PushHolds
<1>4. SendTypes'
  <2>1. 0 \in 0..(Serials - 1)
    OBVIOUS
  <2> QED BY <1>0, <1>2, <1>3, <2>1 DEF SendTypes
<1>5. Taken'
  BY <1>0 DEF Taken
<1>6. SendRequests'
  <2>1. Coming' = Coming
    BY <1>0 DEF Coming
  <2> QED BY <1>0, <1>2, <1>n, <2>1 DEF SendRequests, Before, SendNumbers
<1>7. SendSettings'
  BY <1>0 DEF SendSettings, Before
<1>8. SendRecord'
  BY <1>0, <1>1 DEF SendRecord
<1>9. SendStatus'
  BY <1>0, <1>1 DEF SendStatus, Before
<1> QED BY <1>4, <1>5, <1>6, <1>7, <1>8, <1>9

(* and takes the requests to apply settings: *)
LEMMA SendTakeApplyStep == ASSUME SendInv, Send!TakeApply PROVE SendInv'
<1> USE Sizes DEF SendInv
<1>0. /\ srv = "idle" /\ srv' = "apply" /\ took' = sApply.nRequest
      /\ sApply.nRequest # sApply.nResponse
      /\ UNCHANGED <<entry, news, made, pName, bChanged, names, sLastName, bPublish,
                     bActive, bProcessing, pStream, rt, enStatus, sParams, vState,
                     sStream, sUpdate, sApply, sRecord, result>>
  BY DEF Send!TakeApply, Send!SrvKeeps, Send!portVars, Send!rtVars, Send!clientVars,
      Send!catalogVars, Send!Owed
<1>n. SendNumbers
  BY SendNumeric
<1>1. SendTypes'
  BY <1>0, <1>n DEF SendTypes, SendNumbers
<1>2. Taken'
  BY <1>0 DEF Taken
<1>3. SendRequests'
  <2>1. Before(sApply, took')
    BY <1>0, <1>n DEF SendRequests, Before, SendNumbers
  <2>2. Coming' = Coming
    BY <1>0 DEF Coming, One
  <2> QED BY <1>0, <1>n, <2>1, <2>2 DEF SendRequests, Before, SendNumbers
<1>4. SendSettings'
  BY <1>0 DEF SendSettings, Before
<1>5. SendRecord'
  BY <1>0 DEF SendRecord
<1>6. SendStatus'
  BY <1>0 DEF SendStatus, Before
<1> QED BY <1>1, <1>2, <1>3, <1>4, <1>5, <1>6

LEMMA SendStatusStep == ASSUME SendInv, Send!Status PROVE SendInv'
<1> USE Sizes DEF SendInv
<1>0. /\ srv = "status" /\ srv' = "push"
      /\ enStatus' = IF result # 0 THEN "active" ELSE "inactive"
      /\ UNCHANGED <<entry, news, made, pName, bChanged, names, sLastName, bPublish,
                     bActive, bProcessing, pStream, rt, sParams, vState, sStream,
                     sUpdate, sApply, sRecord, took, result>>
  BY DEF Send!Status, Send!SrvKeeps, Send!portVars, Send!rtVars, Send!clientVars,
      Send!catalogVars
<1>n. SendNumbers
  BY SendNumeric
<1>1. result # 0 <=> sRecord # Send!NoRecord
  <2>1. sParams.cur # NULL
    BY <1>0 DEF SendRecord
  <2>2. CASE vState[sParams.cur].sName = NoName
    BY <1>0, <2>2 DEF SendRecord
  <2>3. CASE vState[sParams.cur].sName # NoName
    <3>1. sRecord = [name |-> vState[sParams.cur].sName, stream |-> result]
      BY <1>0, <2>3 DEF SendRecord
    <3>2. sRecord # Send!NoRecord /\ sRecord.stream = result
      BY <2>3, <3>1 DEF Send!NoRecord
    <3> QED BY <1>n, <3>2 DEF SendRecord, SendNumbers
  <2> QED BY <2>2, <2>3
<1>2. SendTypes'
  BY <1>0 DEF SendTypes
<1>3. Taken'
  BY <1>0 DEF Taken
<1>4. SendRequests'
  <2>1. Coming' <= Coming
    BY <1>0, <1>n DEF Coming, One, SendNumbers
  <2> QED BY <1>0, <1>2, <1>n, <2>1, SendCounts DEF SendRequests, SendNumbers, One
<1>5. SendSettings'
  BY <1>0 DEF SendSettings, Before
<1>6. SendRecord'
  BY <1>0 DEF SendRecord
<1>7. SendStatus'
  <2>1. sApply.nRequest # sApply.nResponse
    BY <1>0, <1>n, SendNumeric DEF SendRequests, Before, SendNumbers
  <2> QED BY <1>0, <1>1, <2>1 DEF SendStatus, Before
<1> QED BY <1>2, <1>3, <1>4, <1>5, <1>6, <1>7

LEMMA SendPushStep == ASSUME SendInv, Send!Push PROVE SendInv'
<1> USE Sizes DEF SendInv
<1>0. /\ srv = "push" /\ srv' = "idle" /\ took' = 0 /\ result' = 0
      /\ sStream' = [cur |-> sStream.cur, pend |-> result, old |-> {}]
      /\ sApply' = [nRequest |-> sApply.nRequest, nResponse |-> took]
      /\ UNCHANGED <<entry, news, made, pName, bChanged, names, sLastName, bPublish,
                     bActive, bProcessing, pStream, rt, enStatus, sParams, vState,
                     sUpdate, sRecord>>
  BY DEF Send!Push, Send!SrvKeeps, Send!portVars, Send!rtVars, Send!clientVars,
      Send!catalogVars, Send!Pushed, Send!Answered
<1>n. SendNumbers
  BY SendNumeric
<1>1. /\ sApply' \in [nRequest : 0..(Serials - 1), nResponse : 0..(Serials - 1)]
      /\ sApply'.nRequest = sApply.nRequest /\ sApply'.nResponse = took
  BY <1>0, <1>n DEF SendNumbers
<1>2. Holds(sStream', 0..MaxStreams) /\ LastOf(sStream') = result
  <2>1. Holds(sStream, 0..MaxStreams) /\ result \in 0..MaxStreams
    BY DEF SendTypes
  <2>2. sStream' = [cur |-> sStream.cur, pend |-> result, old |-> {}]
    BY <1>0
  <2> QED BY <2>1, <2>2 DEF Holds, LastOf
<1>3. /\ sParams.cur # NULL
      /\ sRecord # Send!NoRecord => /\ vState[sParams.cur].sName # NoName
                                    /\ sRecord.name = vState[sParams.cur].sName
                                    /\ sRecord.stream = result
      /\ sRecord = Send!NoRecord => vState[sParams.cur].sName = NoName
  BY <1>0 DEF SendRecord, Send!NoRecord
<1>4. SendTypes'
  <2>1. 0 \in 0..(Serials - 1) /\ 0 \in 0..MaxStreams
    OBVIOUS
  <2> QED BY <1>0, <1>1, <1>2, <2>1 DEF SendTypes
<1>5. Taken'
  BY <1>0 DEF Taken
<1>6. SendRequests'
  <2>1. Coming' = Coming
    BY <1>0 DEF Coming
  <2>2. Before(sApply', sApply'.nRequest + 1)
    BY <1>0, <1>1, <1>n DEF SendRequests, Before, SendNumbers
  <2> QED BY <1>0, <1>1, <2>1, <2>2 DEF SendRequests
<1>7. SendSettings'
  BY <1>0, <1>1 DEF SendSettings, Before
<1>8. SendRecord'
  BY <1>0, <1>1, <1>2, <1>3 DEF SendRecord
<1>9. SendStatus'
  BY <1>0, <1>1, <1>3 DEF SendStatus, Before
<1> QED BY <1>4, <1>5, <1>6, <1>7, <1>8, <1>9

(* apply() takes the newest settings and publishes a stream, or none.      *)
LEMMA SendApplyStep == ASSUME SendInv, Send!Apply PROVE SendInv'
<1> USE Sizes DEF SendInv
<1>0. /\ srv = "apply"
      /\ sParams' = IF sParams.pend = NULL THEN sParams
                    ELSE [cur |-> sParams.pend, pend |-> NULL,
                          old |-> sParams.old \cup ({sParams.cur} \ {NULL})]
  BY DEF Send!Apply, Send!Got
<1>u. UNCHANGED <<pName, bChanged, names, sLastName, bPublish, bActive, bProcessing,
                  pStream, rt, enStatus, vState, sStream, sUpdate>>
  BY DEF Send!Apply, Send!SrvKeeps, Send!portVars, Send!rtVars, Send!clientVars
<1>n. SendNumbers /\ Coming \in Nat
  BY SendNumeric
<1>1. /\ Apart(sParams') /\ sParams'.pend = NULL /\ sParams'.cur = LastOf(sParams)
      /\ LastOf(sParams') = LastOf(sParams) /\ In(sParams') = In(sParams)
  <2>1. Apart(sParams)
    BY DEF Taken
  <2> QED BY <1>0, <2>1, GotApart
<1>2. Before(sApply, took) /\ took <= sApply.nRequest /\ sApply.nRequest # sApply.nResponse
  BY <1>0, <1>n, SendNumeric DEF SendRequests, Before, SendNumbers
<1>3. Taken'
  BY <1>u, <1>1 DEF Taken
<1>c. sRecord # Send!NoRecord => LastOf(sParams) # NULL
  BY DEF SendRecord, LastOf
<1>4. CASE /\ sParams'.cur = NULL
           /\ sApply' = [nRequest |-> sApply.nRequest, nResponse |-> took]
           /\ srv' = "idle" /\ took' = 0
           /\ UNCHANGED <<entry, news, made, sRecord, result>>
  <2>1. /\ sApply' \in [nRequest : 0..(Serials - 1), nResponse : 0..(Serials - 1)]
        /\ sApply'.nRequest = sApply.nRequest /\ sApply'.nResponse = took
    BY <1>4, <1>n DEF SendNumbers
  <2>2. SendTypes'
    <3>1. 0 \in 0..(Serials - 1)
      OBVIOUS
    <3>2. srv' \in {"idle"}
      BY <1>4
    <3> QED BY <1>u, <1>4, <2>1, <3>1, <3>2 DEF SendTypes
  <2>3. SendRequests'
    <3>1. Coming' = Coming
      BY <1>0, <1>u, <1>4 DEF Coming, One
    <3>2. Before(sApply', sApply'.nRequest + 1)
      BY <1>2, <1>n, <2>1 DEF Before, SendNumbers
    <3> QED BY <1>0, <1>u, <1>4, <2>1, <3>1, <3>2 DEF SendRequests
  <2>4. SendSettings'
    BY <1>0, <1>u, <1>1, <1>4 DEF SendSettings
  <2>5. SendRecord'
    BY <1>0, <1>u, <1>1, <1>4, <1>c DEF SendRecord
  <2>6. SendStatus'
    BY <1>0, <1>u, <1>1, <1>4, <1>c DEF SendStatus, SendSettings
  <2> QED BY <1>3, <2>2, <2>3, <2>4, <2>5, <2>6
<1>5. CASE /\ sParams'.cur # NULL /\ vState[sParams'.cur].sName = NoName
           /\ sRecord' = Send!NoRecord /\ result' = 0 /\ srv' = "status"
           /\ UNCHANGED <<entry, news, made, sApply, took>>
  <2>1. Send!NoRecord \in [name : Name \cup {NoName}, stream : 0..MaxStreams]
    BY DEF Send!NoRecord
  <2>2. SendTypes'
    <3>1. 0 \in 0..MaxStreams
      OBVIOUS
    <3>2. srv' \in {"status"} /\ sRecord' \in [name : Name \cup {NoName}, stream : 0..MaxStreams]
      BY <1>5, <2>1
    <3> QED BY <1>u, <1>5, <3>1, <3>2 DEF SendTypes
  <2>3. SendRequests'
    <3>1. Coming' <= Coming
      BY <1>0, <1>u, <1>5, <1>n DEF Coming, One, SendNumbers
    <3> QED BY <1>0, <1>u, <1>2, <1>5, <1>n, <2>2, <3>1, SendCounts DEF SendNumbers, One
  <2>4. SendSettings'
    BY <1>0, <1>u, <1>1, <1>5 DEF SendSettings
  <2>5. SendRecord'
    BY <1>0, <1>u, <1>1, <1>5 DEF SendRecord
  <2>6. SendStatus'
    BY <1>0, <1>u, <1>1, <1>2, <1>5 DEF SendStatus, Before
  <2> QED BY <1>3, <2>2, <2>3, <2>4, <2>5, <2>6
<1>6. CASE /\ sParams'.cur # NULL /\ vState[sParams'.cur].sName # NoName
           /\ made < MaxStreams /\ made' = made + 1 /\ result' = made'
           /\ entry' = [entry EXCEPT ![vState[sParams'.cur].sName] = made']
           /\ news' = Everyone
           /\ sRecord' = [name |-> vState[sParams'.cur].sName, stream |-> made']
           /\ srv' = "status" /\ UNCHANGED <<sApply, took>>
  <2>1. vState[sParams'.cur].sName \in Name
    <3>1. sParams'.cur \in Slot
      BY <1>1, <1>6 DEF Apart
    <3> QED BY <1>6, <3>1 DEF SendTypes
  <2>2. made' \in 1..MaxStreams /\ made' \in 1..made' /\ made' # 0
    BY <1>6, <1>n DEF SendNumbers
  <2>3. /\ sRecord' \in [name : Name \cup {NoName}, stream : 0..MaxStreams]
        /\ sRecord'.name = vState[sParams'.cur].sName /\ sRecord'.stream = made'
        /\ sRecord' # Send!NoRecord /\ entry'[sRecord'.name] = made'
    BY <1>6, <2>1, <2>2 DEF SendTypes, Send!NoRecord
  <2>4. SendTypes'
    <3>0. made' \in 0..MaxStreams
      BY <2>2
    <3>1. entry' \in [Name -> 0..MaxStreams] /\ made' \in 0..MaxStreams
      BY <1>6, <2>1, <3>0 DEF SendTypes
    <3>2. srv' \in {"status"} /\ news' \subseteq Everyone /\ result' \in 0..MaxStreams
      BY <1>6, <3>1
    <3> QED BY <1>u, <1>6, <2>3, <3>1, <3>2 DEF SendTypes
  <2>5. SendRequests'
    <3>1. Coming' <= Coming
      BY <1>0, <1>u, <1>6, <1>n DEF Coming, One, SendNumbers
    <3>2. Coming' \in Nat
      BY <2>4, SendNumericNext
    <3>3. sApply'.nRequest + Coming' <= 1 + MaxNames + MaxStreams
      BY <1>6, <1>n, <3>1, <3>2 DEF SendRequests, SendNumbers
    <3>4. sUpdate'.nRequest + One((Self \in news)') <= made'
      BY <1>0, <1>u, <1>6, <1>n DEF SendRequests, SendNumbers, One
    <3> QED BY <1>0, <1>u, <1>6, <3>3, <3>4 DEF SendRequests, Before
  <2>6. SendSettings'
    BY <1>0, <1>u, <1>1, <1>6 DEF SendSettings
  <2>7. SendRecord'
    BY <1>0, <1>u, <1>1, <1>6, <2>1, <2>2, <2>3 DEF SendRecord
  <2>8. SendStatus'
    BY <1>0, <1>u, <1>1, <1>2, <1>6, <2>3 DEF SendStatus, Before
  <2> QED BY <1>3, <2>4, <2>5, <2>6, <2>7, <2>8
<1>7. CASE /\ sParams'.cur # NULL /\ vState[sParams'.cur].sName # NoName
           /\ srv' = "idle" /\ took' = 0
           /\ UNCHANGED <<entry, news, made, sApply, sRecord, result>>
  <2>1. SendTypes'
    <3>1. 0 \in 0..(Serials - 1)
      OBVIOUS
    <3>2. srv' \in {"idle"}
      BY <1>7
    <3> QED BY <1>u, <1>7, <3>1, <3>2 DEF SendTypes
  <2>2. SendRequests'
    <3>1. Coming' = Coming
      BY <1>0, <1>u, <1>7 DEF Coming, One
    <3> QED BY <1>0, <1>u, <1>7, <3>1 DEF SendRequests, Before
  <2>3. SendSettings'
    BY <1>0, <1>u, <1>1, <1>7 DEF SendSettings
  <2>4. SendRecord'
    BY <1>0, <1>u, <1>1, <1>2, <1>7 DEF SendRecord
  <2>5. SendStatus'
    BY <1>0, <1>u, <1>1, <1>2, <1>7 DEF SendStatus, Before
  <2> QED BY <1>3, <2>1, <2>2, <2>3, <2>4, <2>5
<1> QED BY <1>4, <1>5, <1>6, <1>7 DEF Send!Apply, Send!catalogVars, Send!Answered

LEMMA SendStep == ASSUME SendInv, [Send!Next]_(Send!vars) PROVE SendInv'
<1>1. CASE UNCHANGED Send!vars
  <2> USE <1>1 DEF Send!vars, Send!catalogVars, Send!portVars, Send!rtVars,
          Send!clientVars, Send!boxVars, Send!srvVars, SendInv
  <2>1. SendTypes'
    BY DEF SendTypes
  <2>2. Taken'
    BY DEF Taken
  <2>3. SendRequests'
    BY DEF SendRequests, Before, Coming
  <2>4. SendSettings' /\ SendStatus'
    BY DEF SendSettings, SendStatus, Before
  <2>5. SendRecord'
    BY DEF SendRecord
  <2> QED BY <2>1, <2>2, <2>3, <2>4, <2>5
<1>2. CASE Send!RtStep
  BY <1>2, SendPublishStep, SendPublishPushStep, SendPublishAskStep, SendCheckStep,
     SendActivityStep, SendBeginStep, SendUpdateSettingsStep, SendEndStep
     DEF Send!RtStep
<1>3. CASE Send!SrvStep
  BY <1>3, SendSyncStep, SendUpdateStep, SendOverrideStep, SendDropStep,
     SendTakeApplyStep, SendApplyStep, SendStatusStep, SendPushStep DEF Send!SrvStep
<1>4. CASE \E n \in Name : Send!OtherPublishes(n)
  BY <1>4, SendOtherPublishesStep
<1>5. CASE \E n \in Name \cup {NoName} : Send!SetName(n)
  BY <1>5, SendSetNameStep
<1> QED BY <1>1, <1>2, <1>3, <1>4, <1>5 DEF Send!Next

(* What the invariant says of the types, of vState and of the settings.    *)
LEMMA SendHolds ==
  ASSUME SendInv PROVE Send!TypeOK /\ Send!SlotsSuffice /\ Send!LastSettingsWin
<1> USE Sizes DEF SendInv
<1>1. Send!TypeOK
  <2>1. Send!Objects(sParams) \subseteq Slot
    BY DEF Taken, Apart, Send!Objects
  <2>2. Send!Objects(sStream) \subseteq 0..MaxStreams
    BY DEF SendTypes, Holds, Send!Objects
  <2> QED BY <2>1, <2>2 DEF SendTypes, Send!TypeOK, Send!Stream, Send!State, Send!Serial
<1>2. Send!SlotsSuffice
  BY TwoAtMost DEF Taken, Send!SlotsSuffice, Send!FreeSlots
<1>3. Send!LastSettingsWin
  <2> SUFFICES ASSUME Send!Settled
               PROVE  /\ enStatus # "updating"
                      /\ enStatus = "active" <=> sRecord # Send!NoRecord
                      /\ enStatus = "inactive" => sLastName = NoName
                      /\ sRecord # Send!NoRecord =>
                           /\ sRecord.name = sLastName
                           /\ entry[sRecord.name] = sRecord.stream
                           /\ Send!Newest(sStream) = sRecord.stream
    BY DEF Send!LastSettingsWin
  <2>1. /\ ~bChanged /\ ~bPublish /\ rt = "out" /\ srv = "idle" /\ Self \notin news
        /\ sUpdate.nRequest = sUpdate.nResponse /\ sApply.nRequest = sApply.nResponse
    BY DEF Send!Settled, Send!Owed
  <2>2. ~Before(sApply, sApply.nRequest)
    BY <2>1, SendNumeric DEF SendRequests, Before, SendNumbers
  <2>3. enStatus # "updating"
    BY <2>1, <2>2 DEF SendStatus
  <2>4. sParams.pend = NULL /\ LastOf(sParams) = sParams.cur
    BY <2>1, <2>2 DEF SendSettings, LastOf
  <2>5. sParams.cur # NULL /\ vState[sParams.cur].sName = sLastName
    BY <2>1, <2>4 DEF SendSettings
  <2>6. enStatus = "active" <=> sRecord # Send!NoRecord
    BY <2>1, <2>3 DEF SendStatus, SendTypes
  <2>7. enStatus = "inactive" => sLastName = NoName
    BY <2>1, <2>5 DEF SendStatus
  <2>8. sRecord # Send!NoRecord =>
          /\ sRecord.name = sLastName /\ entry[sRecord.name] = sRecord.stream
          /\ Send!Newest(sStream) = sRecord.stream
    BY <2>1, <2>5 DEF SendRecord, LastOf, Send!Newest
  <2> QED BY <2>3, <2>6, <2>7, <2>8
<1> QED BY <1>1, <1>2, <1>3

-----------------------------------------------------------------------------
(* The return.                                                             *)

Link == [stream : 0..MaxStreams, nStallCounter : 0..Threshold]

LEMMA LinkSizes ==
  /\ Threshold \in Nat \ {0} /\ NULL \notin Link
  /\ Return!Link = Link
BY LinksAssumption DEF LinksAssumption, Return!ReturnConstants, Link, Return!Link,
   Return!Stream

RetTypes ==
  /\ entry \in [Name -> 0..MaxStreams] /\ news \subseteq Everyone
  /\ made \in 0..MaxStreams /\ names \in 0..MaxNames
  /\ written \subseteq 0..MaxStreams /\ closed \subseteq 0..MaxStreams
  /\ pName \in Name \cup {NoName} /\ bChanged \in BOOLEAN
  /\ sLastName \in Name \cup {NoName} /\ sSetup \in Name \cup {NoName}
  /\ bConnect \in BOOLEAN /\ bActive \in BOOLEAN /\ bProcessing \in BOOLEAN
  /\ enStatus \in {"inactive", "updating", "active", "stalled"}
  /\ pStream \in Link \cup {NULL} /\ Holds(sStream, Link)
  /\ vState \in [Slot -> [sName : Name \cup {NoName}, bFree : BOOLEAN]]
  /\ sRecord \in [name : Name \cup {NoName}, stream : 0..MaxStreams]
  /\ sUpdate \in [nRequest : 0..(Serials - 1), nResponse : 0..(Serials - 1)]
  /\ sApply \in [nRequest : 0..(Serials - 1), nResponse : 0..(Serials - 1)]
  /\ rt \in {"out", "push", "ask", "begin", "activity", "in"}
  /\ srv \in {"idle", "status", "push", "answer"}
  /\ took \in 0..(Serials - 1) /\ result \in Link \cup {NULL}
  /\ for \in {"update", "apply", NULL} /\ refused \in BOOLEAN

Asking == One(bConnect) + One(bChanged) + (MaxNames - names)

(* As for the send; the service answers at the end what it took.           *)
RetRequests ==
  /\ sApply.nRequest + Asking <= 1 + MaxNames
  /\ sUpdate.nRequest + One(Self \in news) <= made
  /\ Before(sApply, sApply.nRequest + 1) /\ sUpdate.nResponse <= sUpdate.nRequest
  /\ srv # "idle" /\ for = "apply" => Before(sApply, took) /\ took <= sApply.nRequest
  /\ srv # "idle" /\ for = "update" => took = sUpdate.nRequest
  /\ srv # "idle" => for \in {"update", "apply"}

(* The settings pushed last are those in sSetup, and of the last name      *)
(* unless it is still to be connected.                                     *)
RetSettings ==
  /\ rt \in {"push", "ask"} => bConnect
  /\ ~bConnect \/ rt \in {"push", "ask"} => sSetup = sLastName
  /\ ~bConnect \/ rt = "ask" => LastOf(sParams) # NULL
  /\ rt # "push" /\ LastOf(sParams) # NULL => vState[LastOf(sParams)].sName = sSetup
  /\ sParams.pend # NULL /\ rt # "ask" =>
       /\ Before(sApply, sApply.nRequest)
       /\ srv # "idle" /\ for = "apply" => took < sApply.nRequest

(* The newest settings have been applied. *)
Applied ==
  /\ rt \notin {"push", "ask"} /\ sApply.nRequest = sApply.nResponse
  /\ LastOf(sParams) # NULL

(* A stream reads from what the record names, as far as it is there; from  *)
(* none for the empty name, or when the catalog failed.                    *)
Serves(l, name) ==
  /\ l # NULL
  /\ name = NoName \/ refused => l.stream = 0
  /\ name # NoName /\ ~refused =>
       /\ sRecord.name = name
       /\ l.stream = sRecord.stream \/ (l.stream = 0 /\ sRecord.stream \in closed)

(* The stream made last. *)
Current == IF srv \in {"status", "push"} THEN result ELSE LastOf(sStream)

(* What is being applied, and what has been applied, is served; and the    *)
(* record is that of the catalog, unless an update is on its way.          *)
RetRecord ==
  /\ srv \in {"status", "push"} => result # NULL
  /\ srv \in {"status", "push"} /\ for = "apply" => sParams.cur # NULL
  /\ srv # "idle" /\ for = "apply" /\ sParams.cur # NULL =>
       /\ Serves(Current, vState[sParams.cur].sName)
       /\ vState[sParams.cur].sName # NoName /\ ~refused =>
            Self \in news \/ sRecord.stream = entry[sRecord.name]
  /\ Applied => Serves(Current, sSetup)
  /\ Applied /\ sSetup # NoName /\ ~refused =>
       \/ sRecord.stream = entry[sSetup] \/ Self \in news
       \/ /\ sUpdate.nRequest # sUpdate.nResponse
          /\ srv = "idle" \/ for # "update"

RetInv == RetTypes /\ Taken /\ RetRequests /\ RetSettings /\ RetRecord

RetNumbers ==
  /\ sApply.nRequest \in 0..(Serials - 1) /\ sApply.nResponse \in 0..(Serials - 1)
  /\ sUpdate.nRequest \in 0..(Serials - 1) /\ sUpdate.nResponse \in 0..(Serials - 1)
  /\ took \in 0..(Serials - 1) /\ made \in 0..MaxStreams /\ names \in 0..MaxNames

LEMMA RetNumeric == RetTypes => RetNumbers /\ Asking \in Nat /\ Asking >= One(bConnect)
<1> SUFFICES ASSUME RetTypes
             PROVE  RetNumbers /\ Asking \in Nat /\ Asking >= One(bConnect)
  OBVIOUS
<1>1. RetNumbers
  BY DEF RetTypes, RetNumbers
<1>2. One(bConnect) \in Nat /\ One(bChanged) \in Nat
  BY DEF One
<1>3. MaxNames - names \in Nat
  BY <1>1, Sizes DEF RetNumbers
<1> QED BY <1>1, <1>2, <1>3 DEF Asking

LEMMA RetInit == ASSUME Return!Init PROVE RetInv
<1>0. (0 + Serials - 1) % Serials = Serials - 1 /\ Serials - 1 \in 0..(Serials - 1)
  BY Sizes
<1> USE Sizes, LinkSizes DEF Return!Init, Return!NothingPushed, Return!NoRecord,
        Return!NoRequest, Return!Marked, Return!Answered
<1>1. RetTypes
  <2>1. /\ sUpdate \in [nRequest : 0..(Serials - 1), nResponse : 0..(Serials - 1)]
        /\ sApply \in [nRequest : 0..(Serials - 1), nResponse : 0..(Serials - 1)]
    BY <1>0
  <2>2. sRecord \in [name : Name \cup {NoName}, stream : 0..MaxStreams]
    OBVIOUS
  <2>3. Holds(sStream, Link)
    BY DEF Holds
  <2>4. 0 \in 0..MaxStreams /\ 0 \in 0..MaxNames /\ 0 \in 0..(Serials - 1)
    OBVIOUS
  <2>5. /\ entry \in [Name -> 0..MaxStreams]
        /\ vState \in [Slot -> [sName : Name \cup {NoName}, bFree : BOOLEAN]]
    BY <2>4
  <2> QED BY <2>1, <2>2, <2>3, <2>4, <2>5 DEF RetTypes
<1>2. Taken
  BY DEF Taken, Apart, In
<1>3. RetRequests
  BY <1>0 DEF RetRequests, Before, One, Asking
<1>4. RetSettings
  BY DEF RetSettings, LastOf
<1>5. RetRecord
  BY DEF RetRecord, Applied, LastOf
<1> QED BY <1>1, <1>2, <1>3, <1>4, <1>5 DEF RetInv

(* The user, and sends. *)
LEMMA RetSetNameStep ==
  ASSUME NEW n \in Name \cup {NoName}, RetInv, Return!SetName(n) PROVE RetInv'
<1> USE Sizes DEF RetInv
<1>0. /\ names < MaxNames /\ names' = names + 1 /\ pName' = n /\ bChanged' = TRUE
      /\ UNCHANGED <<entry, news, made, written, closed, sLastName, bConnect, bActive,
                     bProcessing, pStream, sSetup, rt, enStatus, sParams, vState,
                     sStream, sUpdate, sApply, sRecord, srv, took, result, for,
                     refused>>
  BY DEF Return!SetName, Return!catalogVars, Return!rtVars, Return!clientVars,
      Return!srvVars
<1>n. RetNumbers
  BY RetNumeric
<1>1. RetTypes'
  <2>1. names' \in 0..MaxNames
    BY <1>0, <1>n DEF RetNumbers
  <2> QED BY <1>0, <2>1 DEF RetTypes
<1>2. Taken'
  BY <1>0 DEF Taken
<1>3. RetRequests'
  <2>1. sApply'.nRequest + Asking' <= 1 + MaxNames
    BY <1>0, <1>n DEF RetRequests, Asking, One, RetNumbers
  <2> QED BY <1>0, <2>1 DEF RetRequests, Before
<1>4. RetSettings'
  BY <1>0 DEF RetSettings, Before
<1>5. RetRecord'
  BY <1>0 DEF RetRecord, Applied, Serves, Current
<1> QED BY <1>1, <1>2, <1>3, <1>4, <1>5

LEMMA RetOtherPublishesStep ==
  ASSUME NEW n \in Name, RetInv, Return!OtherPublishes(n) PROVE RetInv'
<1> USE Sizes DEF RetInv
<1>0. /\ made < MaxStreams /\ made' = made + 1
      /\ entry' = [entry EXCEPT ![n] = made'] /\ news' = Everyone
      /\ UNCHANGED <<written, closed, pName, bChanged, names, sLastName, bConnect,
                     bActive, bProcessing, pStream, sSetup, rt, enStatus, sParams,
                     vState, sStream, sUpdate, sApply, sRecord, srv, took, result, for,
                     refused>>
  BY DEF Return!OtherPublishes, Return!portVars, Return!rtVars, Return!clientVars,
      Return!srvVars
<1>n. RetNumbers
  BY RetNumeric
<1>1. RetTypes'
  <2>1. made' \in 0..MaxStreams
    BY <1>0, <1>n DEF RetNumbers
  <2> QED BY <1>0, <2>1 DEF RetTypes
<1>2. Taken'
  BY <1>0 DEF Taken
<1>3. RetRequests'
  <2>1. sUpdate'.nRequest + One((Self \in news)') <= made'
    BY <1>0, <1>n DEF RetRequests, RetNumbers, One
  <2> QED BY <1>0, <2>1 DEF RetRequests, Before, Asking
<1>4. RetSettings'
  BY <1>0 DEF RetSettings, Before
<1>5. RetRecord'
  <2>1. Self \in news'
    BY <1>0
  <2> QED BY <1>0, <2>1 DEF RetRecord, Applied, Serves, Current
<1> QED BY <1>1, <1>2, <1>3, <1>4, <1>5

LEMMA RetOtherStep ==
  ASSUME NEW s \in 1..made, RetInv, Return!OtherWrites(s) \/ Return!OtherCloses(s)
  PROVE  RetInv'
<1> USE Sizes DEF RetInv
<1>0. /\ UNCHANGED <<entry, news, made, pName, bChanged, names, sLastName, bConnect,
                     bActive, bProcessing, pStream, sSetup, rt, enStatus, sParams,
                     vState, sStream, sUpdate, sApply, sRecord, srv, took, result, for,
                     refused>>
      /\ written' \subseteq written \cup {s} /\ closed' \subseteq closed \cup {s}
      /\ closed \subseteq closed'
  BY DEF Return!OtherWrites, Return!OtherCloses, Return!portVars, Return!rtVars,
      Return!clientVars, Return!srvVars
<1>1. RetTypes'
  <2>1. s \in 0..MaxStreams
    BY RetNumeric DEF RetNumbers
  <2>2. written' \subseteq 0..MaxStreams /\ closed' \subseteq 0..MaxStreams
    BY <1>0, <2>1 DEF RetTypes
  <2> QED BY <1>0, <2>2 DEF RetTypes
<1>2. Taken'
  BY <1>0 DEF Taken
<1>3. RetRequests'
  BY <1>0 DEF RetRequests, Before, Asking
<1>4. RetSettings'
  BY <1>0 DEF RetSettings, Before
<1>5. RetRecord'
  BY <1>0 DEF RetRecord, Applied, Serves, Current
<1> QED BY <1>1, <1>2, <1>3, <1>4, <1>5

(* connect() finds a free element, *)
LEMMA RetConnectStep == ASSUME RetInv, Return!Connect PROVE RetInv'
<1> USE Sizes DEF RetInv
<1>0. /\ rt = "out" /\ bConnect
      /\ UNCHANGED <<entry, news, made, written, closed, sUpdate, sRecord, srv, took,
                     result, for, refused, pName, names, bChanged, sLastName, bActive,
                     bProcessing, pStream, sParams, sStream, sApply>>
  BY DEF Return!Connect, Return!RtKeeps, Return!catalogVars, Return!srvVars
<1>1. PICK i \in Slot :
        /\ vState[i].bFree /\ i \notin In(sParams)
        /\ vState' = [vState EXCEPT ![i] = [sName |-> sLastName, bFree |-> FALSE]]
        /\ enStatus' = "updating" /\ rt' = "push" /\ sSetup' = sLastName
        /\ bConnect' = bConnect
  <2>1. PICK j \in Slot : j \notin In(sParams)
    BY TwoAtMost DEF Taken
  <2>2. Return!FreeSlots # {}
    BY <1>0, <2>1 DEF Taken, Return!FreeSlots
  <2> QED BY <1>0, <2>2 DEF Return!Connect, Return!FreeSlots, Taken
<1>2. /\ vState'[i] = [sName |-> sLastName, bFree |-> FALSE]
      /\ \A j \in Slot \ {i} : vState'[j] = vState[j]
  BY <1>1 DEF RetTypes
<1>3. sParams.cur # NULL => vState'[sParams.cur] = vState[sParams.cur]
  BY <1>1, <1>2 DEF Taken, Apart, In
<1>4. RetTypes'
  BY <1>0, <1>1 DEF RetTypes
<1>5. Taken'
  <2>1. \A j \in Slot : ~vState[j].bFree <=> j \in In(sParams)
    BY <1>0 DEF Taken
  <2>2. \A j \in Slot : ~vState'[j].bFree <=> j = i \/ j \in In(sParams')
    BY <1>0, <1>1, <1>2, <2>1
  <2> QED BY <1>0, <1>1, <1>2, <2>2 DEF Taken
<1>6. RetRequests'
  BY <1>0, <1>1 DEF RetRequests, Before, Asking
<1>7. RetSettings'
  BY <1>0, <1>1 DEF RetSettings, Before
<1>8. RetRecord'
  <2>1. ~Applied'
    BY <1>1 DEF Applied
  <2> QED BY <1>0, <1>3, <2>1 DEF RetRecord, Serves, Current
<1> QED BY <1>4, <1>5, <1>6, <1>7, <1>8

LEMMA RetConnectPushStep == ASSUME RetInv, Return!ConnectPush PROVE RetInv'
<1> USE Sizes DEF RetInv
<1>0. /\ rt = "push" /\ rt' = "ask"
      /\ UNCHANGED <<entry, news, made, written, closed, sUpdate, sRecord, srv, took,
                     result, for, refused, pName, names, bChanged, sLastName, bConnect,
                     bActive, bProcessing, pStream, sSetup, enStatus, sStream, sApply>>
  BY DEF Return!ConnectPush, Return!RtKeeps, Return!catalogVars, Return!srvVars,
      Return!clientVars
<1>1. PICK i \in Slot :
        /\ i \notin In(sParams) /\ vState[i].sName = sLastName
        /\ \A j \in Slot : ~vState[j].bFree <=> j = i \/ j \in In(sParams)
  BY <1>0 DEF Taken
<1>2. /\ sParams' = [cur |-> sParams.cur, pend |-> i, old |-> {}]
      /\ vState' = [j \in Slot |->
           IF j \in sParams.old \cup ({sParams.pend} \ {NULL})
           THEN [vState[j] EXCEPT !.bFree = TRUE] ELSE vState[j]]
  <2>1. PICK x \in Slot :
          /\ ~vState[x].bFree /\ x \notin Return!Objects(sParams)
          /\ sParams' = Return!Pushed(sParams, x)
          /\ vState' = [j \in Slot |->
               IF j \in Return!Freed(sParams) THEN [vState[j] EXCEPT !.bFree = TRUE]
               ELSE vState[j]]
    BY DEF Return!ConnectPush
  <2>2. x \notin In(sParams)
    BY <2>1 DEF Return!Objects, In
  <2>3. x = i
    BY <1>1, <2>1, <2>2
  <2> QED BY <2>1, <2>3 DEF Return!Pushed, Return!Freed
<1>3. /\ Apart(sParams') /\ sParams'.cur = sParams.cur /\ sParams'.pend = i
      /\ LastOf(sParams') = i /\ In(sParams') = {j \in Slot : j = sParams.cur \/ j = i}
      /\ \A j \in In(sParams) :
           j = sParams.cur <=> j \notin sParams.old \cup ({sParams.pend} \ {NULL})
  BY <1>1, <1>2, PushApart DEF Taken
<1>4. \A j \in Slot :
        /\ vState'[j].sName = vState[j].sName
        /\ vState'[j].bFree =
             (vState[j].bFree \/ j \in sParams.old \cup ({sParams.pend} \ {NULL}))
  <2> SUFFICES ASSUME NEW j \in Slot
               PROVE  /\ vState'[j].sName = vState[j].sName
                      /\ vState'[j].bFree =
                           (vState[j].bFree
                              \/ j \in sParams.old \cup ({sParams.pend} \ {NULL}))
    OBVIOUS
  <2>1. vState[j] \in [sName : Name \cup {NoName}, bFree : BOOLEAN]
    BY DEF RetTypes
  <2> QED BY <1>2, <2>1
<1>5. RetTypes'
  <2>1. vState' \in [Slot -> [sName : Name \cup {NoName}, bFree : BOOLEAN]]
    <3> SUFFICES ASSUME NEW j \in Slot
                 PROVE  [vState[j] EXCEPT !.bFree = TRUE]
                          \in [sName : Name \cup {NoName}, bFree : BOOLEAN]
      BY <1>2 DEF RetTypes
    <3>1. vState[j] \in [sName : Name \cup {NoName}, bFree : BOOLEAN]
      BY DEF RetTypes
    <3> QED BY <3>1
  <2> QED BY <1>0, <2>1 DEF RetTypes
<1>6. Taken'
  <2>1. \A j \in Slot : j \in sParams.old \cup ({sParams.pend} \ {NULL}) => j \in In(sParams)
    BY DEF In
  <2>2. \A j \in Slot : ~vState'[j].bFree <=> j \in In(sParams')
    <3> SUFFICES ASSUME NEW j \in Slot
                 PROVE  ~vState'[j].bFree <=> j \in In(sParams')
      OBVIOUS
    <3>1. ~vState'[j].bFree <=>
            /\ j = i \/ j \in In(sParams)
            /\ j \notin sParams.old \cup ({sParams.pend} \ {NULL})
      BY <1>1, <1>4
    <3>2. j = sParams.cur => j \in In(sParams)
      BY DEF In
    <3> QED BY <1>1, <1>3, <2>1, <3>1, <3>2
  <2> QED BY <1>0, <1>3, <2>2 DEF Taken
<1>7. RetRequests'
  BY <1>0 DEF RetRequests, Before, Asking
<1>8. RetSettings'
  BY <1>0, <1>1, <1>3, <1>4 DEF RetSettings
<1>9. RetRecord'
  <2>1. sParams.cur # NULL => vState'[sParams.cur].sName = vState[sParams.cur].sName
    BY <1>4 DEF Taken, Apart
  <2>2. ~Applied'
    BY <1>0 DEF Applied
  <2> QED BY <1>0, <1>3, <2>1, <2>2 DEF RetRecord, Serves, Current
<1> QED BY <1>5, <1>6, <1>7, <1>8, <1>9

LEMMA RetConnectAskStep == ASSUME RetInv, Return!ConnectAsk PROVE RetInv'
<1> USE Sizes DEF RetInv
<1>0. /\ rt = "ask" /\ rt' = "begin" /\ bConnect' = FALSE
      /\ sApply' = [nRequest |-> (sApply.nRequest + 1) % Serials,
                    nResponse |-> sApply.nResponse]
      /\ UNCHANGED <<entry, news, made, written, closed, sUpdate, sRecord, srv, took,
                     result, for, refused, pName, names, bChanged, sLastName, bActive,
                     bProcessing, pStream, sSetup, enStatus, sParams, vState, sStream>>
  BY DEF Return!ConnectAsk, Return!RtKeeps, Return!catalogVars, Return!srvVars,
      Return!Requested
<1>n. RetNumbers /\ Asking \in Nat /\ Asking >= One(bConnect)
  BY RetNumeric
<1>p. One(bConnect) = 1 /\ One(bConnect') = 0
  BY <1>0 DEF RetSettings, One
<1>1. sApply.nRequest \in Nat /\ sApply.nRequest + 1 + 1 < Serials
  BY <1>n, <1>p DEF RetRequests, RetNumbers
<1>2. /\ sApply' \in [nRequest : 0..(Serials - 1), nResponse : 0..(Serials - 1)]
      /\ sApply'.nRequest = sApply.nRequest + 1
      /\ sApply'.nResponse = sApply.nResponse
  <2>1. /\ sApply \in [nRequest : 0..(Serials - 1), nResponse : 0..(Serials - 1)]
        /\ sApply.nRequest + 1 < Serials
    BY <1>1 DEF RetTypes
  <2> QED BY <1>0, <2>1, Requesting
<1>3. Before(sApply', sApply'.nRequest) /\ sApply'.nRequest # sApply'.nResponse
  BY <1>1, <1>2, <1>n DEF RetNumbers, RetRequests, Before
<1>4. RetTypes'
  <2>1. bConnect' \in BOOLEAN /\ rt' \in {"begin"}
    BY <1>0
  <2> QED BY <1>0, <1>2, <2>1 DEF RetTypes
<1>5. Taken'
  BY <1>0 DEF Taken
<1>6. RetRequests'
  <2>1. srv # "idle" /\ for = "apply" => Before(sApply', took) /\ took <= sApply'.nRequest
    BY <1>1, <1>2, <1>n DEF RetNumbers, RetRequests, Before
  <2>2. Asking' = Asking - 1
    <3>1. One(bChanged) \in Nat /\ One(bChanged') = One(bChanged)
      BY <1>0 DEF One
    <3> QED BY <1>0, <1>n, <1>p, <3>1 DEF Asking, RetNumbers
  <2>3. Before(sApply', sApply'.nRequest + 1)
    BY <1>1, <1>2, <1>3 DEF Before
  <2>4. sApply'.nRequest + Asking' <= 1 + MaxNames
    BY <1>1, <1>2, <1>n, <2>2 DEF RetRequests
  <2> QED BY <1>0, <2>1, <2>3, <2>4 DEF RetRequests
<1>7. RetSettings'
  <2>1. srv # "idle" /\ for = "apply" => took < sApply'.nRequest
    BY <1>1, <1>2, <1>n DEF RetNumbers, RetRequests
  <2> QED BY <1>0, <1>3, <2>1 DEF RetSettings
<1>8. RetRecord'
  <2>1. ~Applied'
    BY <1>3 DEF Applied
  <2> QED BY <1>0, <2>1 DEF RetRecord, Serves, Current
<1> QED BY <1>4, <1>5, <1>6, <1>7, <1>8

(* begin() counts blocks in the newest stream, which stays the newest. *)
LEMMA RetBeginStep == ASSUME RetInv, Return!Begin PROVE RetInv'
<1> USE Sizes, LinkSizes DEF RetInv
<1>0. /\ rt # "push" /\ rt # "ask" /\ rt' = "activity"
      /\ UNCHANGED <<entry, news, made, written, closed, sUpdate, sRecord, srv, took,
                     result, for, refused, pName, names, bChanged, sLastName, bConnect,
                     bActive, sSetup, sParams, vState, sApply>>
  BY DEF Return!Begin, Return!RtKeeps, Return!catalogVars, Return!srvVars,
      Return!clientVars
<1>1. PICK got : got = Return!Got(sStream)
  OBVIOUS
<1>2. /\ Holds(got, Link) /\ got.pend = NULL /\ got.cur = LastOf(sStream)
  <2>1. Holds(sStream, Link)
    BY DEF RetTypes
  <2> QED BY <1>1, <2>1, GotHolds DEF Return!Got
<1>3. /\ Holds(sStream', Link) /\ pStream' \in Link \cup {NULL} /\ bProcessing' \in BOOLEAN
      /\ enStatus' \in {"inactive", "updating", "active", "stalled"}
      /\ LastOf(sStream') = NULL <=> LastOf(sStream) = NULL
      /\ LastOf(sStream) # NULL => LastOf(sStream').stream = LastOf(sStream).stream
  <2>1. CASE UNCHANGED <<pStream, bProcessing, sStream, enStatus>>
    BY <2>1 DEF RetTypes
  <2>2. CASE bProcessing' = TRUE /\ sStream' = got /\ pStream' = got.cur /\ enStatus' = enStatus
    <3>1. LastOf(got) = LastOf(sStream)
      BY <1>2 DEF LastOf
    <3> QED BY <1>2, <2>2, <3>1 DEF RetTypes, Holds
  <2>3. ASSUME NEW count, bProcessing' = TRUE,
               got.cur # NULL, count \in 0..Threshold,
               pStream' = [got.cur EXCEPT !.nStallCounter = count],
               sStream' = [got EXCEPT !.cur = pStream'],
               enStatus' \in {"active", "stalled", enStatus}
        PROVE  /\ Holds(sStream', Link) /\ pStream' \in Link \cup {NULL}
               /\ bProcessing' \in BOOLEAN
               /\ enStatus' \in {"inactive", "updating", "active", "stalled"}
               /\ LastOf(sStream') = NULL <=> LastOf(sStream) = NULL
               /\ LastOf(sStream) # NULL =>
                    LastOf(sStream').stream = LastOf(sStream).stream
    <3>1. got.cur \in Link
      BY <1>2, <2>3 DEF Holds
    <3>2. pStream' \in Link /\ pStream'.stream = got.cur.stream
      BY <2>3, <3>1 DEF Link
    <3>3. /\ sStream' \in [cur : Link \cup {NULL}, pend : Link \cup {NULL}, old : SUBSET Link]
          /\ sStream'.cur = pStream' /\ sStream'.pend = NULL
      BY <1>2, <2>3, <3>2 DEF Holds
    <3>4. enStatus' \in {"inactive", "updating", "active", "stalled"}
      BY <2>3 DEF RetTypes
    <3>5. LastOf(sStream') = pStream' /\ pStream' # NULL
      BY <3>2, <3>3 DEF LastOf
    <3> QED BY <1>2, <2>3, <3>2, <3>3, <3>4, <3>5 DEF Holds
  <2>4. CASE bProcessing
    BY <2>1, <2>4 DEF Return!Begin
  <2>5. CASE ~bProcessing /\ (got.cur = NULL \/ got.cur.stream = 0)
    <3>1. bProcessing' = TRUE /\ sStream' = got /\ pStream' = got.cur /\ enStatus' = enStatus
      BY <1>1, <2>5 DEF Return!Begin
    <3> QED BY <2>2, <3>1
  <2>6. CASE ~bProcessing /\ got.cur # NULL /\ got.cur.stream # 0
    <3> DEFINE count == IF got.cur.stream \in written THEN 0
                        ELSE IF got.cur.nStallCounter < Threshold
                        THEN got.cur.nStallCounter + 1 ELSE Threshold
    <3>1. count \in 0..Threshold
      <4>1. got.cur \in Link
        BY <1>2, <2>6 DEF Holds
      <4>2. got.cur.nStallCounter \in 0..Threshold
        BY <4>1 DEF Link
      <4> QED BY <4>2
    <3>2. /\ bProcessing' = TRUE
          /\ pStream' = [got.cur EXCEPT !.nStallCounter = count]
          /\ sStream' = [got EXCEPT !.cur = pStream']
          /\ enStatus' \in {"active", "stalled", enStatus}
      BY <1>1, <2>6 DEF Return!Begin, Return!Stalling
    <3> HIDE DEF count
    <3> QED BY <2>3, <2>6, <3>1, <3>2
  <2> QED BY <2>4, <2>5, <2>6
<1>4. RetTypes'
  BY <1>0, <1>3 DEF RetTypes
<1>5. Taken'
  BY <1>0 DEF Taken
<1>6. RetRequests'
  BY <1>0 DEF RetRequests, Before, Asking
<1>7. RetSettings'
  BY <1>0 DEF RetSettings, Before
<1>8. RetRecord'
  BY <1>0, <1>3 DEF RetRecord, Serves, Current, Applied
<1> QED BY <1>4, <1>5, <1>6, <1>7, <1>8

LEMMA RetActivityStep == ASSUME RetInv, Return!Activity PROVE RetInv'
<1> USE Sizes DEF RetInv
<1>0. /\ rt = "activity" /\ rt' = "in" /\ bActive' \in BOOLEAN
      /\ UNCHANGED <<entry, news, made, written, closed, sUpdate, sRecord, srv, took,
                     result, for, refused, pName, names, bChanged, sLastName, bConnect,
                     bProcessing, pStream, sSetup, enStatus, sParams, vState, sStream,
                     sApply>>
  BY DEF Return!Activity, Return!RtKeeps, Return!catalogVars, Return!srvVars
<1>1. RetTypes'
  BY <1>0 DEF RetTypes
<1>2. Taken'
  BY <1>0 DEF Taken
<1>3. RetRequests'
  BY <1>0 DEF RetRequests, Before, Asking
<1>4. RetSettings'
  BY <1>0 DEF RetSettings, Before
<1>5. RetRecord'
  BY <1>0 DEF RetRecord, Serves, Current, Applied
<1> QED BY <1>1, <1>2, <1>3, <1>4, <1>5

LEMMA RetUpdateSettingsStep == ASSUME RetInv, Return!UpdateSettings PROVE RetInv'
<1> USE Sizes DEF RetInv
<1>0. /\ rt = "in" /\ bChanged /\ bChanged' = FALSE /\ sLastName' = pName
      /\ bConnect' = TRUE
      /\ UNCHANGED <<entry, news, made, written, closed, sUpdate, sRecord, srv, took,
                     result, for, refused, pName, names, bActive, bProcessing, pStream,
                     sSetup, rt, enStatus, sParams, vState, sStream, sApply>>
  BY DEF Return!UpdateSettings, Return!RtKeeps, Return!catalogVars, Return!srvVars
<1>n. RetNumbers
  BY RetNumeric
<1>1. RetTypes'
  <2>1. /\ bChanged' \in BOOLEAN /\ bConnect' \in BOOLEAN
        /\ sLastName' \in Name \cup {NoName}
    BY <1>0 DEF RetTypes
  <2> QED BY <1>0, <2>1 DEF RetTypes
<1>2. Taken'
  BY <1>0 DEF Taken
<1>3. RetRequests'
  <2>1. sApply'.nRequest + Asking' <= 1 + MaxNames
    <3>1. Asking' <= Asking /\ Asking' \in Nat /\ Asking \in Nat
      BY <1>0, <1>n DEF Asking, One, RetNumbers
    <3> QED BY <1>0, <1>n, <3>1 DEF RetRequests, RetNumbers
  <2> QED BY <1>0, <2>1 DEF RetRequests, Before
<1>4. RetSettings'
  BY <1>0 DEF RetSettings, Before
<1>5. RetRecord'
  BY <1>0 DEF RetRecord, Serves, Current, Applied
<1> QED BY <1>1, <1>2, <1>3, <1>4, <1>5

LEMMA RetEndStep == ASSUME RetInv, Return!End PROVE RetInv'
<1> USE Sizes DEF RetInv
<1>0. /\ rt = "in" /\ rt' = "out" /\ bActive' = FALSE /\ bProcessing' = FALSE
      /\ pStream' = NULL
      /\ UNCHANGED <<entry, news, made, written, closed, sUpdate, sRecord, srv, took,
                     result, for, refused, pName, names, bChanged, sLastName, bConnect,
                     sSetup, enStatus, sParams, vState, sStream, sApply>>
  BY DEF Return!End, Return!RtKeeps, Return!catalogVars, Return!srvVars
<1>1. RetTypes'
  <2>1. /\ bActive' \in BOOLEAN /\ bProcessing' \in BOOLEAN
        /\ pStream' \in Link \cup {NULL} /\ rt' \in {"out"}
    BY <1>0
  <2> QED BY <1>0, <2>1 DEF RetTypes
<1>2. Taken'
  BY <1>0 DEF Taken
<1>3. RetRequests'
  BY <1>0 DEF RetRequests, Before, Asking
<1>4. RetSettings'
  BY <1>0 DEF RetSettings, Before
<1>5. RetRecord'
  BY <1>0 DEF RetRecord, Serves, Current, Applied
<1> QED BY <1>1, <1>2, <1>3, <1>4, <1>5

(* The service hears of changes of the catalog, *)
LEMMA RetSyncStep == ASSUME RetInv, Return!Sync PROVE RetInv'
<1> USE Sizes DEF RetInv
<1>0. /\ srv = "idle" /\ Self \in news /\ news' = news \ {Self}
      /\ sUpdate' = [nRequest |-> (sUpdate.nRequest + 1) % Serials,
                     nResponse |-> sUpdate.nResponse]
      /\ UNCHANGED <<entry, made, written, closed, pName, bChanged, names, sLastName,
                     bConnect, bActive, bProcessing, pStream, sSetup, rt, enStatus,
                     sParams, vState, sStream, sApply, sRecord, srv, took, result, for,
                     refused>>
  BY DEF Return!Sync, Return!portVars, Return!rtVars, Return!clientVars,
      Return!srvVars, Return!Requested
<1>n. RetNumbers
  BY RetNumeric
<1>1. sUpdate.nRequest + 1 <= made
  BY <1>0 DEF RetRequests, One
<1>2. /\ sUpdate' \in [nRequest : 0..(Serials - 1), nResponse : 0..(Serials - 1)]
      /\ sUpdate'.nRequest = sUpdate.nRequest + 1
      /\ sUpdate'.nResponse = sUpdate.nResponse
  <2>1. /\ sUpdate \in [nRequest : 0..(Serials - 1), nResponse : 0..(Serials - 1)]
        /\ sUpdate.nRequest + 1 < Serials
    BY <1>1, <1>n DEF RetTypes, RetNumbers
  <2> QED BY <1>0, <2>1, Requesting
<1>3. RetTypes'
  <2>1. news' \subseteq Everyone
    BY <1>0 DEF RetTypes
  <2> QED BY <1>0, <1>2, <2>1 DEF RetTypes
<1>4. Taken'
  BY <1>0 DEF Taken
<1>5. RetRequests'
  <2>1. sUpdate'.nRequest + One((Self \in news)') <= made
    BY <1>0, <1>1, <1>2, <1>n DEF One, RetNumbers
  <2>2. sUpdate'.nResponse <= sUpdate'.nRequest
    BY <1>2, <1>n DEF RetRequests, RetNumbers
  <2> QED BY <1>0, <2>1, <2>2 DEF RetRequests, Before, Asking
<1>6. RetSettings'
  BY <1>0 DEF RetSettings, Before
<1>7. RetRecord'
  <2>1. sUpdate'.nRequest # sUpdate'.nResponse
    BY <1>2, <1>n DEF RetRequests, RetNumbers
  <2> QED BY <1>0, <2>1 DEF RetRecord, Applied, Serves, Current
<1> QED BY <1>3, <1>4, <1>5, <1>6, <1>7

(* What create_stream() returns reads from the stream it was given, if it *)
(* is there.                                                              *)
LEMMA RetCreated ==
  ASSUME NEW s \in 0..MaxStreams
  PROVE  /\ Return!Unopened \in Link /\ Return!Unopened # NULL
         /\ Return!Unopened.stream = 0
         /\ Return!Created(s) \in Link /\ Return!Created(s) # NULL
         /\ Return!Created(s).stream = s
              \/ (Return!Created(s).stream = 0 /\ s \in closed)
<1> USE Sizes, LinkSizes
<1>1. 0 \in 0..MaxStreams /\ 0 \in 0..Threshold /\ Threshold \in 0..Threshold
  OBVIOUS
<1>2. Return!Unopened \in Link /\ Return!Unopened.stream = 0
  BY <1>1 DEF Return!Unopened, Link
<1>3. Return!Opened(s) \in Link /\ Return!Opened(s).stream = s
  BY <1>1 DEF Return!Opened, Link
<1> QED BY <1>2, <1>3 DEF Return!Created

(* What a service step that leaves both requests alone does to them. *)
LEMMA RetServes ==
  ASSUME RetInv, UNCHANGED <<sUpdate, sApply, news, made, names, bConnect, bChanged>>,
         srv' # "idle" => for' \in {"update", "apply"},
         srv' # "idle" /\ for' = "apply" =>
           Before(sApply, took') /\ took' <= sApply.nRequest,
         srv' # "idle" /\ for' = "update" => took' = sUpdate.nRequest
  PROVE  RetRequests'
BY DEF RetInv, RetRequests, Before, Asking

(* asks the catalog whether the record still holds, *)
LEMMA RetUpdateStep == ASSUME RetInv, Return!Update PROVE RetInv'
<1> USE Sizes, LinkSizes DEF RetInv
<1>0. /\ srv = "idle" /\ Self \notin news /\ took' = sUpdate.nRequest
      /\ for' = "update" /\ srv' \in {"status", "answer"}
      /\ UNCHANGED <<entry, news, made, written, closed, pName, bChanged, names,
                     sLastName, bConnect, bActive, bProcessing, pStream, sSetup, rt,
                     vState, enStatus, sParams, sStream, sUpdate, sApply>>
  BY DEF Return!Update, Return!Begins, Return!Connects, Return!Refuses,
      Return!SrvKeeps, Return!catalogVars, Return!portVars, Return!rtVars, Return!clientVars
<1>n. RetNumbers
  BY RetNumeric
<1> DEFINE same == sRecord = [name |-> sSetup, stream |-> entry[sSetup]]
<1>1. \/ /\ sRecord = Return!NoRecord \/ sSetup = NoName
         /\ srv' = "answer" /\ UNCHANGED <<sRecord, result, refused>>
      \/ /\ sSetup # NoName /\ same /\ srv' = "answer"
         /\ UNCHANGED <<sRecord, result, refused>>
      \/ /\ sSetup # NoName /\ srv' = "status" /\ refused' = FALSE
         /\ result' = Return!Created(entry[sSetup])
         /\ sRecord' = [name |-> sSetup, stream |-> entry[sSetup]]
      \/ /\ srv' = "status" /\ refused' = TRUE
         /\ result' = Return!Unopened /\ UNCHANGED sRecord
  BY DEF Return!Update, Return!Begins, Return!Connects, Return!Refuses
<1>2. sSetup # NoName => sSetup \in Name /\ entry[sSetup] \in 0..MaxStreams
  BY DEF RetTypes
<1>3. 0 \in 0..MaxStreams
  OBVIOUS
<1>4. RetTypes'
  <2>1. result' \in Link \cup {NULL}
    BY <1>1, <1>2, <1>3, RetCreated DEF RetTypes
  <2>2. sRecord' \in [name : Name \cup {NoName}, stream : 0..MaxStreams]
    BY <1>1, <1>2 DEF RetTypes
  <2>3. took' \in 0..(Serials - 1)
    BY <1>0, <1>n DEF RetNumbers
  <2>4. srv' \in {"idle", "status", "push", "answer"} /\ for' \in {"update", "apply", NULL}
    BY <1>0
  <2>5. refused' \in BOOLEAN
    BY <1>1 DEF RetTypes
  <2> QED BY <1>0, <2>1, <2>2, <2>3, <2>4, <2>5 DEF RetTypes
<1>5. Taken'
  BY <1>0 DEF Taken
<1>6. RetRequests'
  <2>1. for' # "apply" /\ for' \in {"update", "apply"}
    BY <1>0
  <2> QED BY <1>0, <2>1, RetServes
<1>7. RetSettings'
  <2>1. for' # "apply"
    BY <1>0
  <2> QED BY <1>0, <2>1 DEF RetSettings, Before
<1>8. RetRecord'
  <2>0. for' # "apply" /\ Applied' = Applied /\ Current = LastOf(sStream)
    BY <1>0 DEF Applied, Current
  <2>1. CASE /\ sRecord = Return!NoRecord \/ sSetup = NoName
             /\ srv' = "answer" /\ UNCHANGED <<sRecord, result, refused>>
    <3>1. Applied => sSetup = NoName \/ refused
      BY <2>1 DEF RetRecord, Serves, Return!NoRecord
    <3>2. Current' = Current
      BY <1>0, <2>1 DEF Current
    <3> QED BY <1>0, <2>0, <2>1, <3>1, <3>2 DEF RetRecord, Serves
  <2>2. CASE /\ sSetup # NoName /\ same /\ srv' = "answer"
             /\ UNCHANGED <<sRecord, result, refused>>
    <3>1. sRecord.stream = entry[sSetup]
      BY <2>2
    <3>2. Current' = Current
      BY <1>0, <2>2 DEF Current
    <3> QED BY <1>0, <2>0, <2>2, <3>1, <3>2 DEF RetRecord, Serves
  <2>3. CASE /\ sSetup # NoName /\ srv' = "status" /\ refused' = FALSE
             /\ result' = Return!Created(entry[sSetup])
             /\ sRecord' = [name |-> sSetup, stream |-> entry[sSetup]]
    <3>1. sRecord'.name = sSetup /\ sRecord'.stream = entry[sSetup]
      BY <2>3
    <3>2. /\ result' # NULL
          /\ result'.stream = sRecord'.stream \/ (result'.stream = 0 /\ sRecord'.stream \in closed)
      BY <1>2, <2>3, <3>1, RetCreated
    <3>3. Current' = result'
      BY <2>3 DEF Current
    <3>4. Serves(Current, sSetup)'
      BY <1>0, <2>3, <3>1, <3>2, <3>3 DEF Serves
    <3> QED BY <1>0, <1>2, <2>0, <2>3, <3>1, <3>2, <3>4 DEF RetRecord
  <2>4. CASE /\ srv' = "status" /\ refused' = TRUE
             /\ result' = Return!Unopened /\ UNCHANGED sRecord
    <3>1. Current' = Return!Unopened /\ Return!Unopened # NULL /\ Return!Unopened.stream = 0
      BY <1>3, <2>4, RetCreated DEF Current
    <3>2. Serves(Current, sSetup)'
      BY <2>4, <3>1 DEF Serves
    <3> QED BY <1>0, <2>0, <2>4, <3>1, <3>2 DEF RetRecord
  <2> QED BY <1>1, <2>1, <2>2, <2>3, <2>4
<1> QED BY <1>4, <1>5, <1>6, <1>7, <1>8

(* and applies the newest settings: *)
LEMMA RetApplyStep == ASSUME RetInv, Return!Apply PROVE RetInv'
<1> USE Sizes, LinkSizes DEF RetInv
<1>0. /\ srv = "idle" /\ Self \notin news /\ took' = sApply.nRequest
      /\ sApply.nRequest # sApply.nResponse
      /\ sParams' = IF sParams.pend = NULL THEN sParams
                    ELSE [cur |-> sParams.pend, pend |-> NULL,
                          old |-> sParams.old \cup ({sParams.cur} \ {NULL})]
      /\ for' = "apply" /\ srv' \in {"status", "answer"}
  BY DEF Return!Apply, Return!Begins, Return!Connects, Return!Refuses, Return!Got,
      Return!Owed
<1>u. UNCHANGED <<entry, news, made, written, closed, pName, bChanged, names, sLastName,
                  bConnect, bActive, bProcessing, pStream, sSetup, rt, vState, enStatus,
                  sStream, sUpdate, sApply>>
  BY DEF Return!Apply, Return!SrvKeeps, Return!catalogVars, Return!portVars,
      Return!rtVars, Return!clientVars
<1>n. RetNumbers
  BY RetNumeric
<1>1. /\ Apart(sParams') /\ sParams'.pend = NULL /\ sParams'.cur = LastOf(sParams)
      /\ LastOf(sParams') = LastOf(sParams) /\ In(sParams') = In(sParams)
  <2>1. Apart(sParams)
    BY DEF Taken
  <2> QED BY <1>0, <2>1, GotApart
<1> DEFINE n == vState[sParams'.cur].sName
<1>2. \/ /\ sParams'.cur = NULL /\ srv' = "answer"
         /\ UNCHANGED <<sRecord, result, refused>>
      \/ /\ sParams'.cur # NULL /\ n = NoName /\ srv' = "status" /\ refused' = FALSE
         /\ result' = Return!Detached /\ UNCHANGED sRecord
      \/ /\ sParams'.cur # NULL /\ n # NoName /\ srv' = "status" /\ refused' = FALSE
         /\ result' = Return!Created(entry[n])
         /\ sRecord' = [name |-> n, stream |-> entry[n]]
      \/ /\ sParams'.cur # NULL /\ srv' = "status" /\ refused' = TRUE
         /\ result' = Return!Unopened /\ UNCHANGED sRecord
  BY DEF Return!Apply, Return!Begins, Return!Connects, Return!Refuses
<1>3. sParams'.cur # NULL => n \in Name \cup {NoName}
  <2>1. sParams'.cur # NULL => sParams'.cur \in Slot
    BY <1>1 DEF Apart
  <2> QED BY <2>1 DEF RetTypes
<1>4. n \in Name => entry[n] \in 0..MaxStreams
  BY DEF RetTypes
<1>0a. 0 \in 0..MaxStreams
  OBVIOUS
<1>5. Return!Detached \in Link /\ Return!Detached # NULL /\ Return!Detached.stream = 0
  <2>1. 0 \in 0..MaxStreams /\ 0 \in 0..Threshold
    OBVIOUS
  <2> QED BY <2>1 DEF Return!Detached, Link
<1> HIDE DEF n
<1>6. RetTypes'
  <2>1. result' \in Link \cup {NULL}
    BY <1>0a, <1>2, <1>3, <1>4, <1>5, RetCreated DEF RetTypes
  <2>2. sRecord' \in [name : Name \cup {NoName}, stream : 0..MaxStreams]
    BY <1>2, <1>3, <1>4 DEF RetTypes
  <2>3. took' \in 0..(Serials - 1)
    BY <1>0, <1>n DEF RetNumbers
  <2>4. srv' \in {"idle", "status", "push", "answer"} /\ for' \in {"update", "apply", NULL}
    BY <1>0
  <2>5. refused' \in BOOLEAN
    BY <1>2 DEF RetTypes
  <2> QED BY <1>u, <2>1, <2>2, <2>3, <2>4, <2>5 DEF RetTypes
<1>7. Taken'
  BY <1>u, <1>1 DEF Taken
<1>b. Before(sApply, sApply.nRequest)
  BY <1>0, <1>n DEF RetRequests, Before, RetNumbers
<1>8. RetRequests'
  <2>1. for' # "update" /\ for' \in {"update", "apply"}
    BY <1>0
  <2>2. took' <= sApply.nRequest
    BY <1>0, <1>n DEF RetNumbers
  <2> QED BY <1>0, <1>u, <1>b, <2>1, <2>2, RetServes
<1>9. RetSettings'
  BY <1>u, <1>1 DEF RetSettings
<1>10. RetRecord'
  <2>1. ~Applied'
    BY <1>0, <1>u DEF Applied
  <2>2. CASE /\ sParams'.cur = NULL /\ srv' = "answer"
             /\ UNCHANGED <<sRecord, result, refused>>
    BY <1>0, <1>u, <2>1, <2>2 DEF RetRecord
  <2>3. CASE /\ sParams'.cur # NULL /\ n = NoName /\ srv' = "status" /\ refused' = FALSE
             /\ result' = Return!Detached /\ UNCHANGED sRecord
    <3>1. Current' = Return!Detached
      BY <2>3 DEF Current
    <3>2. vState'[sParams'.cur].sName = NoName
      BY <1>u, <2>3 DEF n
    <3>3. Serves(Current, vState[sParams.cur].sName)'
      BY <1>5, <3>1, <3>2 DEF Serves
    <3> QED BY <1>0, <1>5, <1>u, <2>1, <2>3, <3>2, <3>3 DEF RetRecord
  <2>4. CASE /\ sParams'.cur # NULL /\ n # NoName /\ srv' = "status" /\ refused' = FALSE
             /\ result' = Return!Created(entry[n])
             /\ sRecord' = [name |-> n, stream |-> entry[n]]
    <3>0. n \in Name /\ entry[n] \in 0..MaxStreams
      BY <1>3, <1>4, <2>4
    <3>1. sRecord'.name = n /\ sRecord'.stream = entry[n]
      BY <2>4
    <3>2. /\ result' # NULL
          /\ result'.stream = sRecord'.stream \/ (result'.stream = 0 /\ sRecord'.stream \in closed)
      BY <2>4, <3>0, <3>1, RetCreated
    <3>3. Current' = result' /\ vState'[sParams'.cur].sName = n
      BY <1>u, <2>4 DEF Current, n
    <3>4. Serves(Current, vState[sParams.cur].sName)'
      BY <1>u, <2>4, <3>1, <3>2, <3>3 DEF Serves
    <3> QED BY <1>0, <1>u, <2>1, <2>4, <3>0, <3>1, <3>2, <3>4 DEF RetRecord
  <2>5. CASE /\ sParams'.cur # NULL /\ srv' = "status" /\ refused' = TRUE
             /\ result' = Return!Unopened /\ UNCHANGED sRecord
    <3>1. Current' = Return!Unopened /\ Return!Unopened # NULL /\ Return!Unopened.stream = 0
      BY <1>0a, <2>5, RetCreated DEF Current
    <3>2. Serves(Current, vState[sParams.cur].sName)'
      BY <2>5, <3>1 DEF Serves
    <3> QED BY <1>0, <1>u, <2>1, <2>5, <3>1, <3>2 DEF RetRecord
  <2> QED BY <1>2, <2>2, <2>3, <2>4, <2>5
<1> QED BY <1>6, <1>7, <1>8, <1>9, <1>10

LEMMA RetStatusStep == ASSUME RetInv, Return!Status PROVE RetInv'
<1> USE Sizes DEF RetInv
<1>0. /\ srv = "status" /\ srv' = "push"
      /\ enStatus' \in {"active", "stalled", "inactive"}
      /\ UNCHANGED <<entry, news, made, written, closed, pName, bChanged, names,
                     sLastName, bConnect, bActive, bProcessing, pStream, sSetup, rt,
                     vState, sParams, sStream, sUpdate, sApply, sRecord, took, result,
                     for, refused>>
  BY DEF Return!Status, Return!SrvKeeps, Return!catalogVars, Return!portVars,
      Return!rtVars, Return!clientVars
<1>1. RetTypes'
  <2>1. enStatus' \in {"inactive", "updating", "active", "stalled"} /\ srv' \in {"push"}
    BY <1>0
  <2> QED BY <1>0, <2>1 DEF RetTypes
<1>2. Taken'
  BY <1>0 DEF Taken
<1>3. RetRequests'
  BY <1>0, RetServes DEF RetRequests
<1>4. RetSettings'
  BY <1>0 DEF RetSettings, Before
<1>5. RetRecord'
  <2>1. Current' = Current
    BY <1>0 DEF Current
  <2> QED BY <1>0, <2>1 DEF RetRecord, Serves, Applied
<1> QED BY <1>1, <1>2, <1>3, <1>4, <1>5

(* the stream it made is the newest from then on, *)
LEMMA RetPushStep == ASSUME RetInv, Return!Push PROVE RetInv'
<1> USE Sizes, LinkSizes DEF RetInv
<1>0. /\ srv = "push" /\ srv' = "answer" /\ result' = NULL
      /\ sStream' = [cur |-> sStream.cur, pend |-> result, old |-> {}]
  BY DEF Return!Push, Return!Pushed
<1>u. UNCHANGED <<entry, news, made, written, closed, pName, bChanged, names, sLastName,
                  bConnect, bActive, bProcessing, pStream, sSetup, rt, vState, enStatus,
                  sParams, sUpdate, sApply, sRecord, took, for, refused>>
  BY DEF Return!Push, Return!SrvKeeps, Return!catalogVars, Return!portVars,
      Return!rtVars, Return!clientVars
<1>1. Holds(sStream', Link) /\ LastOf(sStream') = result
  <2>1. Holds(sStream, Link) /\ result \in Link
    BY <1>0 DEF RetTypes, RetRecord
  <2> QED BY <1>0, <2>1, PushHolds
<1>2. RetTypes'
  <2>1. srv' \in {"answer"} /\ result' \in Link \cup {NULL}
    BY <1>0
  <2> QED BY <1>u, <1>1, <2>1 DEF RetTypes
<1>3. Taken'
  BY <1>u DEF Taken
<1>4. RetRequests'
  BY <1>0, <1>u, RetServes DEF RetRequests
<1>5. RetSettings'
  BY <1>0, <1>u DEF RetSettings, Before
<1>6. RetRecord'
  <2>1. Current' = Current
    BY <1>0, <1>1 DEF Current
  <2> QED BY <1>0, <1>u, <2>1 DEF RetRecord, Serves, Applied
<1> QED BY <1>2, <1>3, <1>4, <1>5, <1>6

(* and the request is answered as it was when it was taken. *)
LEMMA RetAnswerStep == ASSUME RetInv, Return!Answer PROVE RetInv'
<1> USE Sizes, LinkSizes DEF RetInv
<1>0. srv = "answer" /\ srv' = "idle" /\ took' = 0 /\ for' = NULL
  BY DEF Return!Answer
<1>u. UNCHANGED <<entry, news, made, written, closed, pName, bChanged, names, sLastName,
                  bConnect, bActive, bProcessing, pStream, sSetup, rt, vState, enStatus,
                  sParams, sStream, sRecord, result, refused>>
  BY DEF Return!Answer, Return!SrvKeeps, Return!catalogVars, Return!portVars,
      Return!rtVars, Return!clientVars
<1>n. RetNumbers
  BY RetNumeric
<1>1. \/ /\ for = "update" /\ sApply' = sApply
         /\ sUpdate' = [nRequest |-> sUpdate.nRequest, nResponse |-> took]
      \/ /\ for = "apply" /\ sUpdate' = sUpdate
         /\ sApply' = [nRequest |-> sApply.nRequest, nResponse |-> took]
  BY <1>0 DEF Return!Answer, Return!Answered, RetRequests
<1>2. Taken'
  BY <1>u DEF Taken
<1>3. Current' = Current
  BY <1>0, <1>u DEF Current
<1>z. 0 \in 0..(Serials - 1) /\ srv' \in {"idle"} /\ for' \in {"update", "apply", NULL}
  BY <1>0
<1>4. CASE /\ for = "update" /\ sApply' = sApply
           /\ sUpdate' = [nRequest |-> sUpdate.nRequest, nResponse |-> took]
  <2>1. /\ sUpdate' \in [nRequest : 0..(Serials - 1), nResponse : 0..(Serials - 1)]
        /\ sUpdate'.nRequest = sUpdate.nRequest /\ sUpdate'.nResponse = sUpdate.nRequest
    BY <1>0, <1>4, <1>n DEF RetNumbers, RetRequests
  <2>2. RetTypes'
    BY <1>0, <1>u, <1>z, <1>4, <2>1 DEF RetTypes
  <2>3. RetRequests'
    <3>1. sUpdate'.nResponse <= sUpdate'.nRequest
      BY <1>n, <2>1 DEF RetNumbers
    <3> QED BY <1>0, <1>u, <1>4, <2>1, <3>1 DEF RetRequests, Before, Asking
  <2>4. RetSettings'
    BY <1>0, <1>u, <1>4 DEF RetSettings, Before
  <2>5. RetRecord'
    <3>1. Applied' = Applied
      BY <1>u, <1>4 DEF Applied
    <3>2. Applied /\ sSetup # NoName /\ ~refused => sRecord.stream = entry[sSetup] \/ Self \in news
      BY <1>0, <1>4 DEF RetRecord
    <3> QED BY <1>0, <1>u, <1>3, <3>1, <3>2 DEF RetRecord, Serves
  <2> QED BY <1>2, <2>2, <2>3, <2>4, <2>5
<1>5. CASE /\ for = "apply" /\ sUpdate' = sUpdate
           /\ sApply' = [nRequest |-> sApply.nRequest, nResponse |-> took]
  <2>1. /\ sApply' \in [nRequest : 0..(Serials - 1), nResponse : 0..(Serials - 1)]
        /\ sApply'.nRequest = sApply.nRequest /\ sApply'.nResponse = took
    BY <1>5, <1>n DEF RetNumbers
  <2>2. RetTypes'
    BY <1>0, <1>u, <1>z, <1>5, <2>1 DEF RetTypes
  <2>3. RetRequests'
    <3>1. Before(sApply', sApply'.nRequest + 1)
      BY <1>0, <1>5, <1>n, <2>1 DEF RetRequests, Before, RetNumbers
    <3> QED BY <1>0, <1>u, <1>5, <2>1, <3>1 DEF RetRequests, Asking
  <2>4. RetSettings'
    BY <1>0, <1>u, <1>5, <2>1 DEF RetSettings, Before
  <2>5. RetRecord'
    <3>1. ASSUME Applied'
          PROVE  /\ sParams.cur # NULL /\ vState[sParams.cur].sName = sSetup
                 /\ Serves(Current, sSetup)
                 /\ sSetup # NoName /\ ~refused => Self \in news \/ sRecord.stream = entry[sSetup]
      <4>1. /\ rt \notin {"push", "ask"} /\ took = sApply.nRequest
            /\ LastOf(sParams) # NULL
        BY <1>u, <2>1, <3>1 DEF Applied
      <4>2. sParams.pend = NULL
        BY <1>0, <1>5, <1>n, <4>1 DEF RetSettings, RetNumbers
      <4>3. sParams.cur # NULL /\ vState[sParams.cur].sName = sSetup
        BY <4>1, <4>2 DEF LastOf, RetSettings
      <4>4. Serves(Current, sSetup)
        BY <1>0, <1>5, <4>3 DEF RetRecord
      <4>5. sSetup # NoName /\ ~refused => sRecord.name = sSetup
        BY <4>4 DEF Serves
      <4> QED BY <1>0, <1>5, <4>3, <4>4, <4>5 DEF RetRecord
    <3> QED BY <1>0, <1>u, <1>3, <1>5, <3>1 DEF RetRecord, Serves
  <2> QED BY <1>2, <2>2, <2>3, <2>4, <2>5
<1> QED BY <1>1, <1>4, <1>5

LEMMA RetStep == ASSUME RetInv, [Return!Next]_(Return!vars) PROVE RetInv'
<1>1. CASE UNCHANGED Return!vars
  <2> USE <1>1 DEF Return!vars, Return!catalogVars, Return!portVars, Return!rtVars,
          Return!clientVars, Return!srvVars, RetInv
  <2>1. RetTypes'
    BY DEF RetTypes
  <2>2. Taken'
    BY DEF Taken
  <2>3. RetRequests'
    BY DEF RetRequests, Before, Asking
  <2>4. RetSettings'
    BY DEF RetSettings, Before
  <2>5. RetRecord'
    BY DEF RetRecord, Serves, Current, Applied
  <2> QED BY <2>1, <2>2, <2>3, <2>4, <2>5
<1>2. CASE Return!RtStep
  BY <1>2, RetConnectStep, RetConnectPushStep, RetConnectAskStep, RetBeginStep,
     RetActivityStep, RetUpdateSettingsStep, RetEndStep DEF Return!RtStep
<1>3. CASE Return!SrvStep
  BY <1>3, RetSyncStep, RetUpdateStep, RetApplyStep, RetStatusStep, RetPushStep,
     RetAnswerStep DEF Return!SrvStep
<1>4. CASE \E n \in Name : Return!OtherPublishes(n)
  BY <1>4, RetOtherPublishesStep
<1>5. CASE \E s \in 1..made : Return!OtherWrites(s) \/ Return!OtherCloses(s)
  BY <1>5, RetOtherStep
<1>6. CASE \E n \in Name \cup {NoName} : Return!SetName(n)
  BY <1>6, RetSetNameStep
<1> QED BY <1>1, <1>2, <1>3, <1>4, <1>5, <1>6 DEF Return!Next

(* What the invariant says of the types, of vState and of the name.        *)
LEMMA RetHolds ==
  ASSUME RetInv PROVE Return!TypeOK /\ Return!SlotsSuffice /\ Return!LastNameWins
<1> USE Sizes, LinkSizes DEF RetInv
<1>1. Return!TypeOK
  <2>1. Return!Objects(sParams) \subseteq Slot
    BY DEF Taken, Apart, Return!Objects
  <2>2. Return!Objects(sStream) \subseteq Link
    BY DEF RetTypes, Holds, Return!Objects
  <2> QED BY <2>1, <2>2
          DEF RetTypes, Return!TypeOK, Return!Stream, Return!State, Return!Serial
<1>2. Return!SlotsSuffice
  BY TwoAtMost DEF Taken, Return!SlotsSuffice, Return!FreeSlots
<1>3. Return!LastNameWins
  <2> DEFINE l == LastOf(sStream)
  <2> SUFFICES ASSUME Return!Settled
               PROVE  /\ l # NULL
                      /\ l.stream # 0 => sLastName # NoName /\ l.stream = entry[sLastName]
                      /\ l.stream = 0 =>
                           \/ sLastName = NoName \/ entry[sLastName] \in closed \cup {0}
                           \/ refused
    BY DEF Return!LastNameWins, Return!Newest, LastOf
  <2>1. /\ ~bConnect /\ rt = "out" /\ srv = "idle" /\ Self \notin news
        /\ sUpdate.nRequest = sUpdate.nResponse /\ sApply.nRequest = sApply.nResponse
    BY DEF Return!Settled, Return!Owed
  <2>2. sSetup = sLastName /\ Applied
    BY <2>1 DEF RetSettings, Applied
  <2>3. Serves(l, sLastName)
    BY <2>1, <2>2 DEF RetRecord, Current
  <2>4. sLastName # NoName /\ ~refused => sRecord.stream = entry[sLastName]
    BY <2>1, <2>2 DEF RetRecord
  <2> QED BY <2>3, <2>4 DEF Serves
<1> QED BY <1>1, <1>2, <1>3

-----------------------------------------------------------------------------
(* Both.                                                                   *)
LinkInv ==
  /\ side \in {"send", "return"}
  /\ side = "send" => SendInv
  /\ side = "return" => RetInv

LEMMA LinkInvariance == Spec => []LinkInv
<1>1. Init => LinkInv
  BY SendInit, RetInit DEF Init, LinkInv
<1>2. LinkInv /\ [Next]_vars => LinkInv'
  <2> SUFFICES ASSUME LinkInv, [Next]_vars
               PROVE  LinkInv'
    OBVIOUS
  <2>1. CASE side = "send"
    <3>1. side' = "send" /\ [Send!Next]_(Send!vars)
      BY <2>1 DEF Next, vars
    <3> QED BY <2>1, <3>1, SendStep DEF LinkInv
  <2>2. CASE side = "return"
    <3>1. side' = "return" /\ [Return!Next]_(Return!vars)
      BY <2>2 DEF Next, vars, returnOnly, Send!vars, Send!catalogVars, Send!portVars,
          Send!rtVars, Send!clientVars, Send!boxVars, Send!srvVars, Return!vars,
          Return!catalogVars, Return!portVars, Return!rtVars, Return!clientVars,
          Return!srvVars
    <3> QED BY <2>2, <3>1, RetStep DEF LinkInv
  <2> QED BY <2>1, <2>2 DEF LinkInv
<1> QED BY <1>1, <1>2, PTL DEF Spec

LEMMA LinkHolds ==
  LinkInv => TypeOK /\ LastSettingsWin /\ LastNameWins /\ SlotsSuffice
BY SendHolds, RetHolds
   DEF LinkInv, TypeOK, LastSettingsWin, LastNameWins, SlotsSuffice

(* Both ends keep their types, serials and boxes included. *)
THEOREM LinkTypes == Spec => []TypeOK
BY LinkInvariance, LinkHolds, PTL

(* When both threads have done what they were asked, the last settings of  *)
(* a send are in force: the status, the record, the catalog and the stream *)
(* that AudioSend::begin() takes next agree about them.                    *)
THEOREM SettingsWin == Spec => []LastSettingsWin
BY LinkInvariance, LinkHolds, PTL

(* Then a return reads from the stream under the last name it was given,   *)
(* however often sends replaced it while AudioReturn::update() and apply() *)
(* ran.                                                                    *)
THEOREM NameWins == Spec => []LastNameWins
BY LinkInvariance, LinkHolds, PTL

(* publish() and connect() find an element of vState that is free, for the *)
(* two boxes of lltl::state keep two at most.                              *)
THEOREM SlotsAreEnough == Spec => []SlotsSuffice
BY LinkInvariance, LinkHolds, PTL
=============================================================================
