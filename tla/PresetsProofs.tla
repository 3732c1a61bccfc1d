---------------------------- MODULE PresetsProofs ----------------------------
(***************************************************************************)
(* Proofs about the state of the preset in MCPresets, for every set of     *)
(* presets and every number of choices and calls: the lock keeps the       *)
(* halves of a state together (PresetExchange), also with the manager of   *)
(* presets beside it.                                                      *)
(***************************************************************************)
EXTENDS MCPresets, TLAPS

Inside == {"fetchName", "fetchFlags", "setName", "setFlags"}
Place ==
  Inside \cup {"idle", "fetch", "receive", "send", "set", "sent", "show", "copyFlags",
              "copyName", "notify", "saved"}

(* TypeOK but for the lock *)
Types ==
  /\ format \in {"shared", "messages"}
  /\ ui \in [shown : Exchange!State, sync : BOOLEAN] /\ open \in BOOLEAN
  /\ counted \in BOOLEAN
  /\ type \in {Exchange!PT_NONE, Exchange!PT_UI, Exchange!PT_STATE}
  /\ force \in BOOLEAN
  /\ sPresetState \in Exchange!Halved /\ copy \in Exchange!Halved
  /\ state \in [Exchange!Thread -> Exchange!Halved]
  /\ pc \in [Exchange!Thread -> Place]
  /\ pc["ui"] \notin {"notify", "saved"}
  /\ pc["timer"] \in {"idle", "fetchName", "fetchFlags", "copyFlags", "copyName", "notify"}
  /\ pc["host"] \notin {"fetch", "receive", "send", "show"}
  /\ acts \in 0..MaxActs /\ calls \in 0..MaxCalls

(* A thread has the lock exactly while it copies. *)
Locked ==
  /\ lock \in Exchange!Thread \cup {"free"}
  /\ \A t \in Exchange!Thread : lock = t <=> pc[t] \in Inside

(* Half of a state is another one's only at the thread that copies it. *)
Halves ==
  /\ \A t \in Exchange!Thread :
       /\ pc[t] = "fetchFlags" => state[t].name = sPresetState.name
       /\ pc[t] # "fetchFlags" => state[t].name = state[t].flags
       /\ pc[t] = "setFlags" => sPresetState.name = state[t].flags
  /\ (\A t \in Exchange!Thread : pc[t] # "setFlags")
       => sPresetState.name = sPresetState.flags

ExchangeInv == Types /\ Locked /\ Halves

-----------------------------------------------------------------------------
LEMMA StateTypes ==
  /\ Exchange!Blank \in Exchange!State
  /\ \A s \in Exchange!State :
       /\ Exchange!Whole(s) \in Exchange!Halved
       /\ Exchange!Whole(s).name = Exchange!Whole(s).flags
       /\ Exchange!Received(s) \in [shown : Exchange!State, sync : BOOLEAN]
  /\ \A h \in Exchange!Halved : Exchange!Read(h) \in Exchange!State
BY DEF Exchange!Blank, Exchange!State, Exchange!Whole, Exchange!Halved,
    Exchange!Received, Exchange!Read

LEMMA ExchangeInit ==
  ASSUME Exchange!ExchangeConstants, Exchange!Init
  PROVE  ExchangeInv
<1>1. Types
  <2>1. Exchange!Blank \in Exchange!State /\ Exchange!Whole(Exchange!Blank) \in Exchange!Halved
    BY StateTypes
  <2>2. [t \in Exchange!Thread |-> Exchange!Whole(Exchange!Blank)] \in [Exchange!Thread -> Exchange!Halved]
    BY <2>1
  <2>3. [t \in Exchange!Thread |-> "idle"] \in [Exchange!Thread -> Place]
    BY DEF Place
  <2>4. {"ui", "timer", "host"} = Exchange!Thread
    BY DEF Exchange!Thread
  <2>5. ui \in [shown : Exchange!State, sync : BOOLEAN] /\ open \in BOOLEAN /\ force \in BOOLEAN
        /\ counted \in BOOLEAN
    BY <2>1 DEF Exchange!Init
  <2>6. /\ pc \in [Exchange!Thread -> Place]
        /\ state \in [Exchange!Thread -> Exchange!Halved]
        /\ pc["ui"] = "idle" /\ pc["timer"] = "idle" /\ pc["host"] = "idle"
    BY <2>2, <2>3, <2>4 DEF Exchange!Init
  <2>7. acts \in 0..MaxActs /\ calls \in 0..MaxCalls
    BY DEF Exchange!ExchangeConstants, Exchange!Init
  <2> QED BY <2>1, <2>5, <2>6, <2>7 DEF Exchange!Init, Types
<1>2. Locked
  BY DEF Exchange!Init, Locked, Inside, Exchange!Thread
<1>3. Halves
  BY StateTypes DEF Exchange!Init, Halves
<1> QED BY <1>1, <1>2, <1>3 DEF ExchangeInv

(* Steps outside the lock: a thread goes from one place to another, with   *)
(* the state it had or with another whole one.                             *)
LEMMA Outside ==
  ASSUME ExchangeInv, NEW t \in Exchange!Thread, NEW l \in Place \ Inside,
         pc[t] \notin Inside, Exchange!Goto(t, l), UNCHANGED <<lock, sPresetState>>,
         \/ UNCHANGED state
         \/ \E s \in Exchange!State : state' = [state EXCEPT ![t] = Exchange!Whole(s)]
  PROVE  Locked' /\ Halves'
<1>1. /\ pc'[t] = l /\ \A x \in Exchange!Thread \ {t} : pc'[x] = pc[x]
  BY DEF ExchangeInv, Types, Exchange!Goto
<1>2. Locked'
  BY <1>1 DEF ExchangeInv, Locked
<1>3. /\ state'[t].name = state'[t].flags
      /\ \A x \in Exchange!Thread \ {t} : state'[x] = state[x]
  <2>1. CASE UNCHANGED state
    BY <2>1 DEF ExchangeInv, Halves, Inside
  <2>2. CASE \E s \in Exchange!State : state' = [state EXCEPT ![t] = Exchange!Whole(s)]
    BY <2>2, StateTypes DEF ExchangeInv, Types
  <2> QED BY <2>1, <2>2
<1>4. Halves'
  BY <1>1, <1>3 DEF ExchangeInv, Halves, Inside
<1> QED BY <1>2, <1>4

(* No thread moves. *)
LEMMA Still ==
  ASSUME ExchangeInv, UNCHANGED <<pc, lock, sPresetState, state>>
  PROVE  Locked' /\ Halves'
BY DEF ExchangeInv, Locked, Halves

(* A thread takes the lock. *)
LEMMA Enters ==
  ASSUME ExchangeInv, NEW t \in Exchange!Thread, NEW l \in {"fetchName", "setName"},
         lock = "free", lock' = t, Exchange!Goto(t, l), UNCHANGED <<sPresetState, state>>
  PROVE  Locked' /\ Halves'
<1>1. pc'[t] = l /\ \A x \in Exchange!Thread \ {t} : pc'[x] = pc[x]
  BY DEF ExchangeInv, Types, Exchange!Goto
<1>2. \A x \in Exchange!Thread : pc[x] \notin Inside
  BY DEF ExchangeInv, Locked, Exchange!Thread
<1>3. Locked'
  BY <1>1, <1>2 DEF ExchangeInv, Locked, Inside
<1>4. Halves'
  BY <1>1, <1>2 DEF ExchangeInv, Halves, Inside
<1> QED BY <1>3, <1>4

(* The steps under the lock. *)
LEMMA Copies ==
  ASSUME ExchangeInv, NEW t \in Exchange!Thread,
         Exchange!SetName(t) \/ Exchange!SetFlags(t) \/ Exchange!FetchName(t)
           \/ Exchange!FetchFlags(t)
  PROVE  Locked' /\ Halves'
<1>0. /\ lock = t /\ pc[t] \in Inside
      /\ \A x \in Exchange!Thread \ {t} : pc[x] \notin Inside
  BY DEF Exchange!SetName, Exchange!SetFlags, Exchange!FetchName,
      Exchange!FetchFlags, ExchangeInv, Locked, Inside, Exchange!Thread
<1>1. CASE Exchange!SetName(t)
  <2>1. /\ pc[t] = "setName" /\ pc'[t] = "setFlags"
        /\ \A x \in Exchange!Thread \ {t} : pc'[x] = pc[x]
        /\ UNCHANGED <<lock, state>> /\ sPresetState'.name = state[t].name
    BY <1>1 DEF Exchange!SetName, Exchange!Goto, ExchangeInv, Types, Exchange!Halved,
        Exchange!wordVars, Exchange!uiVars
  <2>2. Locked'
    BY <1>0, <2>1 DEF ExchangeInv, Locked, Inside
  <2>3. Halves'
    BY <1>0, <2>1 DEF ExchangeInv, Halves, Inside
  <2> QED BY <2>2, <2>3
<1>2. CASE Exchange!SetFlags(t)
  <2>1. /\ pc[t] = "setFlags" /\ pc'[t] = "sent" /\ lock' = "free"
        /\ \A x \in Exchange!Thread \ {t} : pc'[x] = pc[x]
        /\ UNCHANGED state
        /\ sPresetState'.flags = state[t].flags
        /\ sPresetState'.name = sPresetState.name
    BY <1>2 DEF Exchange!SetFlags, Exchange!Goto, ExchangeInv, Types, Exchange!Halved
  <2>2. Locked'
    BY <1>0, <2>1 DEF ExchangeInv, Locked, Inside, Exchange!Thread
  <2>3. Halves'
    BY <1>0, <2>1 DEF ExchangeInv, Halves, Inside
  <2> QED BY <2>2, <2>3
<1>3. CASE Exchange!FetchName(t)
  <2>1. /\ pc[t] = "fetchName" /\ pc'[t] = "fetchFlags"
        /\ \A x \in Exchange!Thread \ {t} : pc'[x] = pc[x] /\ state'[x] = state[x]
        /\ UNCHANGED <<lock, sPresetState>>
        /\ state'[t].name = sPresetState.name
    BY <1>3 DEF Exchange!FetchName, Exchange!Goto, ExchangeInv, Types, Exchange!Halved,
        Exchange!wordVars, Exchange!uiVars
  <2>2. Locked'
    BY <1>0, <2>1 DEF ExchangeInv, Locked, Inside
  <2>3. Halves'
    BY <1>0, <2>1 DEF ExchangeInv, Halves, Inside
  <2> QED BY <2>2, <2>3
<1>4. CASE Exchange!FetchFlags(t)
  <2>1. /\ pc[t] = "fetchFlags" /\ pc'[t] \in {"receive", "copyFlags", "saved"}
        /\ lock' = "free" /\ UNCHANGED sPresetState
        /\ \A x \in Exchange!Thread \ {t} : pc'[x] = pc[x] /\ state'[x] = state[x]
        /\ state'[t].name = state[t].name
        /\ state'[t].flags = sPresetState.flags
    BY <1>4 DEF Exchange!FetchFlags, Exchange!Goto, ExchangeInv, Types, Exchange!Halved
  <2>2. Locked'
    BY <1>0, <2>1 DEF ExchangeInv, Locked, Inside, Exchange!Thread
  <2>3. Halves'
    BY <1>0, <2>1 DEF ExchangeInv, Halves, Inside
  <2> QED BY <2>2, <2>3
<1> QED BY <1>1, <1>2, <1>3, <1>4

-----------------------------------------------------------------------------
(* The user interface outside the lock *)
LEMMA InterfaceStep ==
  ASSUME Exchange!ExchangeConstants, ExchangeInv,
         \/ Exchange!Act \/ Exchange!Iterate \/ Exchange!Fetch
         \/ Exchange!Receive \/ Exchange!Send \/ Exchange!Sent
         \/ Exchange!Close \/ Exchange!Show \/ Exchange!Shown
  PROVE  ExchangeInv'
<1>1. CASE Exchange!Act
  <2>1. Locked' /\ Halves'
    BY <1>1, Still DEF Exchange!Act, Exchange!wordVars, Exchange!uiVars
  <2>2. Types'
    BY <1>1, StateTypes DEF Exchange!Act, Exchange!State, ExchangeInv, Types,
        Exchange!ExchangeConstants, Place, Inside, Exchange!Thread,
        Exchange!Goto, Exchange!wordVars, Exchange!uiVars
  <2> QED BY <2>1, <2>2 DEF ExchangeInv
<1>2. CASE Exchange!Iterate
  <2>1. Locked' /\ Halves'
    <3>1. /\ "ui" \in Exchange!Thread /\ pc["ui"] \notin Inside
          /\ UNCHANGED <<lock, sPresetState, state>>
          /\ \E l \in Place \ Inside : Exchange!Goto("ui", l)
      BY <1>2 DEF Exchange!Iterate, ExchangeInv, Types,
          Exchange!ExchangeConstants, Place, Inside, Exchange!Thread,
          Exchange!Goto, Exchange!wordVars, Exchange!uiVars
    <3> QED BY <3>1, Outside
  <2>2. Types'
    BY <1>2, StateTypes DEF Exchange!Iterate, ExchangeInv, Types,
        Exchange!ExchangeConstants, Place, Inside, Exchange!Thread,
        Exchange!Goto, Exchange!wordVars, Exchange!uiVars
  <2> QED BY <2>1, <2>2 DEF ExchangeInv
<1>3. CASE Exchange!Fetch
  <2>1. Locked' /\ Halves'
    <3>1. CASE lock' = "ui" /\ lock = "free"
      BY <1>3, <3>1, Enters DEF Exchange!Fetch, Exchange!Thread
    <3>2. CASE ~ (lock' = "ui" /\ lock = "free")
      <4>1. /\ "ui" \in Exchange!Thread /\ pc["ui"] \notin Inside
            /\ "send" \in Place \ Inside
            /\ UNCHANGED <<lock, sPresetState, state>>
            /\ Exchange!Goto("ui", "send")
        BY <1>3, <3>2 DEF Exchange!Fetch, Place, Inside, Exchange!Thread
      <4> QED BY <4>1, Outside
    <3> QED BY <3>1, <3>2
  <2>2. Types'
    BY <1>3, StateTypes DEF Exchange!Fetch, ExchangeInv, Types,
        Exchange!ExchangeConstants, Place, Inside, Exchange!Thread,
        Exchange!Goto, Exchange!wordVars, Exchange!uiVars
  <2> QED BY <2>1, <2>2 DEF ExchangeInv
<1>4. CASE Exchange!Receive
  <2>1. Locked' /\ Halves'
    <3>1. PICK l \in {"send", "idle"} : Exchange!Goto("ui", l)
      BY <1>4 DEF Exchange!Receive
    <3>2. /\ "ui" \in Exchange!Thread /\ pc["ui"] \notin Inside
          /\ l \in Place \ Inside
          /\ UNCHANGED <<lock, sPresetState>>
          /\ state' = [state EXCEPT !["ui"] = Exchange!Whole(Exchange!Blank)]
      BY <1>4 DEF Exchange!Receive, Exchange!Ends, Place, Inside, Exchange!Thread,
          Exchange!wordVars, Exchange!uiVars
    <3> QED BY <3>1, <3>2, StateTypes, Outside
  <2>2. Types'
    <3>1. state["ui"] \in Exchange!Halved
      BY DEF ExchangeInv, Types, Exchange!Thread
    <3>2. ui' \in [shown : Exchange!State, sync : BOOLEAN] /\ state' \in [Exchange!Thread -> Exchange!Halved]
      BY <1>4, <3>1, StateTypes DEF Exchange!Receive, Exchange!Ends, ExchangeInv, Types
    <3> QED BY <1>4, <3>2 DEF Exchange!Receive, ExchangeInv, Types, Place, Inside,
        Exchange!Thread, Exchange!Goto, Exchange!wordVars, Exchange!uiVars
  <2> QED BY <2>1, <2>2 DEF ExchangeInv
<1>5. CASE Exchange!Send
  <2>1. Locked' /\ Halves'
    <3>1. PICK l \in {"idle", "set", "copyFlags"} : Exchange!Goto("ui", l)
      BY <1>5 DEF Exchange!Send
    <3>2. /\ "ui" \in Exchange!Thread /\ pc["ui"] \notin Inside
          /\ l \in Place \ Inside
          /\ UNCHANGED <<lock, sPresetState>>
          /\ \/ UNCHANGED state
             \/ \E s \in Exchange!State : state' = [state EXCEPT !["ui"] = Exchange!Whole(s)]
      BY <1>5 DEF Exchange!Send, ExchangeInv, Types, Place, Inside,
          Exchange!Thread, Exchange!wordVars, Exchange!uiVars
    <3> QED BY <3>1, <3>2, Outside
  <2>2. Types'
    BY <1>5, StateTypes DEF Exchange!Send, Exchange!Received, ExchangeInv,
        Types, Exchange!ExchangeConstants, Place, Inside, Exchange!Thread,
        Exchange!Goto, Exchange!wordVars, Exchange!uiVars
  <2> QED BY <2>1, <2>2 DEF ExchangeInv
<1>6. CASE Exchange!Sent
  <2>1. Locked' /\ Halves'
    <3>1. /\ "ui" \in Exchange!Thread /\ pc["ui"] \notin Inside
          /\ "idle" \in Place \ Inside
          /\ UNCHANGED <<lock, sPresetState>> /\ Exchange!Goto("ui", "idle")
          /\ state' = [state EXCEPT !["ui"] = Exchange!Whole(Exchange!Blank)]
      BY <1>6 DEF Exchange!Sent, Exchange!Ends, Place, Inside, Exchange!Thread,
          Exchange!wordVars, Exchange!uiVars
    <3> QED BY <3>1, StateTypes, Outside
  <2>2. Types'
    BY <1>6, StateTypes DEF Exchange!Sent, Exchange!Ends, ExchangeInv, Types,
        Exchange!ExchangeConstants, Place, Inside, Exchange!Thread,
        Exchange!Goto, Exchange!wordVars, Exchange!uiVars
  <2> QED BY <2>1, <2>2 DEF ExchangeInv
<1>7. CASE Exchange!Close
  <2>1. Locked' /\ Halves'
    BY <1>7, Still DEF Exchange!Close, Exchange!wordVars, Exchange!uiVars
  <2>2. Types'
    <3>1. ui' \in [shown : Exchange!State, sync : BOOLEAN]
      BY <1>7, StateTypes DEF Exchange!Close, ExchangeInv, Types
    <3>2. acts' \in 0..MaxActs
      BY <1>7 DEF Exchange!Close, ExchangeInv, Types, Exchange!ExchangeConstants
    <3> QED BY <1>7, <3>1, <3>2 DEF Exchange!Close, ExchangeInv, Types,
        Exchange!wordVars
  <2> QED BY <2>1, <2>2 DEF ExchangeInv
<1>8. CASE Exchange!Show
  <2>1. Locked' /\ Halves'
    <3>1. PICK l \in {"fetch", "show"} : Exchange!Goto("ui", l)
      BY <1>8 DEF Exchange!Show
    <3>2. /\ "ui" \in Exchange!Thread /\ pc["ui"] \notin Inside
          /\ l \in Place \ Inside
          /\ UNCHANGED <<lock, sPresetState, state>>
      BY <1>8 DEF Exchange!Show, Place, Inside, Exchange!Thread
    <3> QED BY <3>1, <3>2, Outside
  <2>2. Types'
    <3>1. force' \in BOOLEAN
      BY <1>8 DEF Exchange!Show, ExchangeInv, Types
    <3>2. PICK l \in {"fetch", "show"} : Exchange!Goto("ui", l)
      BY <1>8 DEF Exchange!Show
    <3> QED BY <1>8, <3>1, <3>2 DEF Exchange!Show, ExchangeInv, Types, Place,
        Inside, Exchange!Thread, Exchange!Goto, Exchange!uiVars
  <2> QED BY <2>1, <2>2 DEF ExchangeInv
<1>9. CASE Exchange!Shown
  <2>1. Locked' /\ Halves'
    <3>1. /\ "ui" \in Exchange!Thread /\ pc["ui"] \notin Inside
          /\ UNCHANGED <<lock, sPresetState, state>>
          /\ \E l \in Place \ Inside : Exchange!Goto("ui", l)
      BY <1>9 DEF Exchange!Shown, ExchangeInv, Types,
          Exchange!ExchangeConstants, Place, Inside, Exchange!Thread,
          Exchange!Goto, Exchange!wordVars, Exchange!uiVars
    <3> QED BY <3>1, Outside
  <2>2. Types'
    BY <1>9, StateTypes DEF Exchange!Shown, ExchangeInv, Types,
        Exchange!ExchangeConstants, Place, Inside, Exchange!Thread,
        Exchange!Goto, Exchange!wordVars, Exchange!uiVars
  <2> QED BY <2>1, <2>2 DEF ExchangeInv
<1> QED BY <1>1, <1>2, <1>3, <1>4, <1>5, <1>6, <1>7, <1>8, <1>9

(* The timer and the host outside the lock *)
LEMMA OthersStep ==
  ASSUME Exchange!ExchangeConstants, ExchangeInv,
         \/ Exchange!Transmit \/ Exchange!Toggle \/ Exchange!Load
         \/ Exchange!Loaded \/ Exchange!Save \/ Exchange!Saved
  PROVE  ExchangeInv'
<1>1. CASE Exchange!Transmit
  <2>1. Locked' /\ Halves'
    BY <1>1, Enters DEF Exchange!Transmit, Exchange!Thread
  <2>2. Types'
    BY <1>1, StateTypes DEF Exchange!Transmit, ExchangeInv, Types,
        Exchange!ExchangeConstants, Place, Inside, Exchange!Thread,
        Exchange!Goto, Exchange!wordVars, Exchange!uiVars
  <2> QED BY <2>1, <2>2 DEF ExchangeInv
<1>2. CASE Exchange!Toggle
  <2>1. Locked' /\ Halves'
    BY <1>2, Still DEF Exchange!Toggle, Exchange!wordVars, Exchange!uiVars
  <2>2. Types'
    BY <1>2 DEF Exchange!Toggle, ExchangeInv, Types, Exchange!wordVars, Exchange!uiVars
  <2> QED BY <2>1, <2>2 DEF ExchangeInv
<1>3. CASE Exchange!Load
  <2>1. Locked' /\ Halves'
    <3>1. /\ "host" \in Exchange!Thread /\ pc["host"] \notin Inside
          /\ "set" \in Place \ Inside
          /\ UNCHANGED <<lock, sPresetState>> /\ Exchange!Goto("host", "set")
          /\ \E s \in Exchange!State : state' = [state EXCEPT !["host"] = Exchange!Whole(s)]
      BY <1>3 DEF Exchange!Load, Exchange!State, Place, Inside, Exchange!Thread,
          Exchange!wordVars, Exchange!uiVars
    <3> QED BY <3>1, Outside
  <2>2. Types'
    BY <1>3, StateTypes DEF Exchange!Load, Exchange!State, ExchangeInv, Types,
        Exchange!ExchangeConstants, Place, Inside, Exchange!Thread,
        Exchange!Goto, Exchange!wordVars, Exchange!uiVars
  <2> QED BY <2>1, <2>2 DEF ExchangeInv
<1>4. CASE Exchange!Loaded \/ Exchange!Saved
  <2>1. PICK l \in {"idle", "copyFlags"} : Exchange!Goto("host", l)
    BY <1>4 DEF Exchange!Loaded, Exchange!Saved
  <2>2. /\ "host" \in Exchange!Thread /\ pc["host"] \notin Inside
        /\ l \in Place \ Inside
        /\ UNCHANGED <<lock, sPresetState>>
        /\ \/ UNCHANGED state
           \/ state' = [state EXCEPT !["host"] = Exchange!Whole(Exchange!Blank)]
    BY <1>4 DEF Exchange!Loaded, Exchange!Saved, Exchange!Ends, Place, Inside,
        Exchange!Thread, Exchange!wordVars, Exchange!uiVars
  <2>3. Locked' /\ Halves'
    BY <2>1, <2>2, StateTypes, Outside
  <2>4. Types'
    BY <1>4, <2>1, <2>2, StateTypes DEF Exchange!Loaded, Exchange!Saved, ExchangeInv,
        Types, Place, Inside, Exchange!Thread, Exchange!Goto, Exchange!wordVars,
        Exchange!uiVars
  <2> QED BY <2>3, <2>4 DEF ExchangeInv
<1>5. CASE Exchange!Save
  <2>1. Locked' /\ Halves'
    BY <1>5, Enters DEF Exchange!Save, Exchange!Thread
  <2>2. Types'
    BY <1>5, StateTypes DEF Exchange!Save, ExchangeInv, Types,
        Exchange!ExchangeConstants, Place, Inside, Exchange!Thread,
        Exchange!Goto, Exchange!wordVars, Exchange!uiVars
  <2> QED BY <2>1, <2>2 DEF ExchangeInv
<1> QED BY <1>1, <1>2, <1>3, <1>4, <1>5

(* set_preset_state() takes the lock or leaves a state of higher priority. *)
LEMMA SetStep ==
  ASSUME Exchange!ExchangeConstants, ExchangeInv, NEW t \in {"ui", "host"}, Exchange!SetLock(t)
  PROVE  ExchangeInv'
<1>1. Types'
  BY DEF Exchange!SetLock, ExchangeInv, Types, Exchange!ExchangeConstants,
      Place, Inside, Exchange!Thread, Exchange!Goto, Exchange!wordVars, Exchange!uiVars
<1>2. CASE lock = "free" /\ lock' = t
  <2>1. Exchange!Goto(t, "setName") /\ UNCHANGED <<sPresetState, state>> /\ t \in Exchange!Thread
    BY <1>2 DEF Exchange!SetLock, Exchange!Thread
  <2> QED BY <1>1, <1>2, <2>1, Enters DEF ExchangeInv
<1>3. CASE ~ (lock = "free" /\ lock' = t)
  <2>1. /\ t \in Exchange!Thread /\ pc[t] \notin Inside
        /\ "sent" \in Place \ Inside
        /\ Exchange!Goto(t, "sent") /\ UNCHANGED <<lock, sPresetState, state>>
    BY <1>3 DEF Exchange!SetLock, Exchange!Thread, Place, Inside
  <2> QED BY <1>1, <2>1, Outside DEF ExchangeInv
<1> QED BY <1>2, <1>3

LEMMA CopyStep ==
  ASSUME Exchange!ExchangeConstants, ExchangeInv, NEW t \in Exchange!Thread,
         \/ Exchange!FetchName(t) \/ Exchange!FetchFlags(t)
         \/ t # "timer" /\ (Exchange!SetName(t) \/ Exchange!SetFlags(t))
  PROVE  ExchangeInv'
<1>1. Locked' /\ Halves'
  BY Copies
<1>2. CASE Exchange!FetchName(t)
  BY <1>1, <1>2 DEF Exchange!FetchName, Exchange!Halved, ExchangeInv, Types,
      Exchange!ExchangeConstants, Place, Inside, Exchange!Thread, Exchange!Goto,
      Exchange!wordVars, Exchange!uiVars
<1>3. CASE Exchange!FetchFlags(t)
  <2>1. type' \in {Exchange!PT_NONE, Exchange!PT_UI, Exchange!PT_STATE} /\ force' \in BOOLEAN
    BY <1>3 DEF Exchange!FetchFlags, ExchangeInv, Types
  <2>2. state' \in [Exchange!Thread -> Exchange!Halved]
    BY <1>3 DEF Exchange!FetchFlags, Exchange!Halved, ExchangeInv, Types
  <2>3. PICK l \in {"receive", "copyFlags", "saved"} :
          /\ Exchange!Goto(t, l)
          /\ t = "ui" => l = "receive"
          /\ t = "timer" => l = "copyFlags"
          /\ t = "host" => l = "saved"
    BY <1>3 DEF Exchange!FetchFlags, Exchange!Thread
  <2> QED BY <1>1, <1>3, <2>1, <2>2, <2>3 DEF Exchange!FetchFlags, ExchangeInv, Types,
      Place, Exchange!Thread, Exchange!Goto, Exchange!uiVars
<1>4. CASE t # "timer" /\ Exchange!SetName(t)
  BY <1>1, <1>4 DEF Exchange!SetName, Exchange!Halved, ExchangeInv, Types,
      Exchange!ExchangeConstants, Place, Inside, Exchange!Thread, Exchange!Goto,
      Exchange!wordVars, Exchange!uiVars
<1>5. CASE t # "timer" /\ Exchange!SetFlags(t)
  <2>1. Exchange!Mode(t) \in {Exchange!PT_NONE, Exchange!PT_UI, Exchange!PT_STATE}
    BY DEF Exchange!Mode
  <2> QED BY <1>1, <1>5, <2>1 DEF Exchange!SetFlags, Exchange!Halved, ExchangeInv, Types,
      Exchange!ExchangeConstants, Place, Inside, Exchange!Thread, Exchange!Goto,
      Exchange!wordVars, Exchange!uiVars
<1> QED BY <1>2, <1>3, <1>4, <1>5

(* The controller's copy: its writers need not exclude each other. *)
LEMMA ControllerStep ==
  ASSUME ExchangeInv, NEW t \in Exchange!Thread,
         \/ Exchange!CopyFlags(t) \/ Exchange!CopyName(t)
         \/ t # "ui" /\ Exchange!Notify(t)
  PROVE  ExchangeInv'
<1>1. PICK l \in {"copyName", "set", "notify", "idle"} :
        Exchange!Goto(t, l) /\ (t = "timer" => l # "set") /\ (t = "ui" => l # "notify")
  BY DEF Exchange!CopyFlags, Exchange!CopyName, Exchange!Notify, ExchangeInv, Types
<1>2. /\ pc[t] \notin Inside /\ l \in Place \ Inside
      /\ UNCHANGED <<lock, sPresetState>>
      /\ UNCHANGED <<format, open, counted, type, force, acts, calls>>
      /\ \/ UNCHANGED state
         \/ state' = [state EXCEPT ![t] = Exchange!Whole(Exchange!Blank)]
  BY DEF Exchange!CopyFlags, Exchange!CopyName, Exchange!Notify, Exchange!Ends,
      Place, Inside, Exchange!wordVars, Exchange!uiVars
<1>3. Locked' /\ Halves'
  BY <1>1, <1>2, StateTypes, Outside
<1>4. copy' \in Exchange!Halved /\ ui' \in [shown : Exchange!State, sync : BOOLEAN]
  <2>1. copy \in Exchange!Halved /\ state[t] \in Exchange!Halved
        /\ ui \in [shown : Exchange!State, sync : BOOLEAN]
    BY DEF ExchangeInv, Types
  <2> QED BY <2>1, StateTypes DEF Exchange!CopyFlags, Exchange!CopyName,
      Exchange!Notify, Exchange!Halved, Exchange!uiVars
<1>5. pc' \in [Exchange!Thread -> Place] /\ pc'[t] = l
      /\ \A x \in Exchange!Thread \ {t} : pc'[x] = pc[x]
  BY <1>1, <1>2 DEF ExchangeInv, Types, Exchange!Goto
<1>6. state' \in [Exchange!Thread -> Exchange!Halved]
  BY <1>2, StateTypes DEF ExchangeInv, Types
<1> QED BY <1>1, <1>2, <1>3, <1>4, <1>5, <1>6 DEF ExchangeInv, Types, Exchange!Thread

LEMMA ExchangeStep ==
  ASSUME Exchange!ExchangeConstants, ExchangeInv, [Exchange!Next]_(Exchange!vars)
  PROVE  ExchangeInv'
<1>1. CASE UNCHANGED Exchange!vars
  BY <1>1 DEF Exchange!vars, Exchange!wordVars, Exchange!uiVars, ExchangeInv, Types, Locked,
      Halves
<1>2. CASE Exchange!UiStep
  BY <1>2, InterfaceStep, SetStep, CopyStep, ControllerStep DEF Exchange!UiStep,
      Exchange!Thread
<1>3. CASE Exchange!TimerStep
  BY <1>3, OthersStep, CopyStep, ControllerStep DEF Exchange!TimerStep, Exchange!Thread
<1>4. CASE Exchange!HostStep
  BY <1>4, OthersStep, SetStep, CopyStep, ControllerStep DEF Exchange!HostStep,
      Exchange!Thread
<1>5. CASE Exchange!Act \/ Exchange!Close \/ Exchange!Show \/ Exchange!Load
             \/ Exchange!Save \/ Exchange!Toggle
  BY <1>5, InterfaceStep, OthersStep
<1> QED BY <1>1, <1>2, <1>3, <1>4, <1>5 DEF Exchange!Next

LEMMA ExchangeInvariance ==
  ASSUME Exchange!ExchangeConstants
  PROVE  Exchange!Spec => []ExchangeInv
<1>1. Exchange!Init => ExchangeInv
  BY ExchangeInit
<1>2. ExchangeInv /\ [Exchange!Next]_(Exchange!vars) => ExchangeInv'
  BY ExchangeStep
<1> QED BY <1>1, <1>2, PTL DEF Exchange!Spec

-----------------------------------------------------------------------------
(* The variables keep their types, and the lock is taken exactly while     *)
(* somebody copies (PT_LOCK in nPresetFlags).                              *)
THEOREM TypeCorrect ==
  ASSUME Exchange!ExchangeConstants
  PROVE  Exchange!Spec => []Exchange!TypeOK
<1>1. ASSUME ExchangeInv PROVE Exchange!TypeOK
  <2>1. lock = "free" <=> \A t \in Exchange!Thread : pc[t] \notin Inside
    BY <1>1 DEF ExchangeInv, Locked, Exchange!Thread
  <2>2. /\ pc["ui"] \in Place \ {"notify", "saved"}
        /\ pc["host"] \in Place \ {"fetch", "receive", "send", "show"}
    BY <1>1 DEF ExchangeInv, Types, Exchange!Thread
  <2> QED BY <1>1, <2>1, <2>2 DEF ExchangeInv, Types, Locked, Exchange!TypeOK,
      Exchange!Halved, Inside, Place
<1>2. ExchangeInv => Exchange!TypeOK
  BY <1>1
<1> QED BY <1>2, ExchangeInvariance, PTL

(* Nobody reads half of one state and half of another                      *)
(* (set_preset_state(), fetch_preset_state(), serialize_preset_state()).   *)
THEOREM StatesWhole ==
  ASSUME Exchange!ExchangeConstants
  PROVE  Exchange!Spec => []Exchange!NoneTorn
<1>1. ASSUME ExchangeInv PROVE Exchange!NoneTorn
  <2>1. lock = "free" => \A t \in Exchange!Thread : pc[t] # "setFlags"
    BY <1>1 DEF ExchangeInv, Locked, Inside, Exchange!Thread
  <2> QED BY <1>1, <2>1 DEF ExchangeInv, Halves, Exchange!NoneTorn
<1>2. ExchangeInv => Exchange!NoneTorn
  BY <1>1
<1> QED BY <1>2, ExchangeInvariance, PTL

-----------------------------------------------------------------------------
(* In the run the two sides take turns in being the system, never steps:   *)
(* whatever is chosen at first, the exchange goes through its own steps or *)
(* stands still.                                                           *)
LEMMA ExchangeRuns == SumInit /\ [][SumNext]_sumVars => Exchange!Spec
<1>1. SumInit => Exchange!Init
  BY DEF SumInit
<1>2. [SumNext]_sumVars => [Exchange!Next]_(Exchange!vars)
  BY DEF SumNext, sumVars, exchangeVars, Exchange!vars, Exchange!wordVars, Exchange!uiVars
<1> QED BY <1>1, <1>2, PTL DEF Exchange!Spec

(* The same of the whole model, with the manager beside the exchange and   *)
(* for every setting of the ports and preset: what the run checks.         *)
THEOREM ExchangeTypesHold == FairSpec => []ExchangeTypeOK
<1>1. Exchange!TypeOK => ExchangeTypeOK
  BY DEF ExchangeTypeOK
<1> QED BY <1>1, ExchangeRuns, TypeCorrect, MCAssumption, PTL DEF FairSpec

(* No side ever holds half of one state of a preset and half of another    *)
(* (set_preset_state(), fetch_preset_state(), serialize_preset_state()).   *)
THEOREM NoneTornHolds == FairSpec => []NoneTorn
<1>1. Exchange!NoneTorn => NoneTorn
  BY DEF NoneTorn
<1> QED BY <1>1, ExchangeRuns, StatesWhole, MCAssumption, PTL DEF FairSpec
=============================================================================
