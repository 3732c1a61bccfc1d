--------------------------- MODULE PresetExchange ---------------------------
(***************************************************************************)
(* The state of the active preset (its name and whether it was changed)    *)
(* between the user interface and the plugin, which saves it with the      *)
(* session: Wrapper::set_preset_state(), fetch_preset_state() and the like *)
(* of the wrappers, ui::IWrapper::main_iteration() and receive_preset_     *)
(* state(), and for VST3 the copy that the controller keeps.               *)
(*                                                                         *)
(* In CLAP and VST2 ("shared") the interface calls the plugin's wrapper;   *)
(* in VST3 ("messages") the controller does, and a timer sends the         *)
(* plugin's state back.  The host delivers a message by a call.  Each      *)
(* thread takes the state under a spin lock in nPresetFlags, which also    *)
(* holds the origin (PT_TYPE) of a state that was not passed on yet.  The  *)
(* controller writes its copy without a lock, whoever calls it.            *)
(***************************************************************************)
EXTENDS Naturals

CONSTANTS
  Preset, NoPreset,    \* names of presets, and the empty name
  MaxActs, MaxCalls    \* bounds: choices of the user, calls by the host

ExchangeConstants ==
  NoPreset \notin Preset /\ MaxActs \in Nat /\ MaxCalls \in Nat

VARIABLES
  format,              \* "shared" or "messages"
  ui, open,            \* what the interface shows, F_PRESET_SYNC; it is open
  counted,             \* nUICounterResp > 0
  type, force, lock,   \* nPresetFlags: PT_TYPE, PT_FORCE, PT_LOCK with its owner
  sPresetState,        \* the plugin's state, in two halves
  copy,                \* the controller's sPresetState, in two halves
  pc, state,           \* where each thread is, its local preset_state_t
  acts, calls          \* how often the user and the host acted

wordVars == <<type, force, lock>>
uiVars == <<ui, open, counted>>
vars == <<format, uiVars, wordVars, sPresetState, copy, pc, state, acts, calls>>

Thread == {"ui", "timer", "host"}
PT_NONE == 0
PT_UI == 1
PT_STATE == 2

(* A state says who chose it: the user or the host, in a restored session. *)
State == [name : Preset \cup {NoPreset}, dirty : BOOLEAN, by : {"user", "host"}]
Blank == [name |-> NoPreset, dirty |-> FALSE, by |-> "user"]
Halved == [name : State, flags : State]
Whole(s) == [name |-> s, flags |-> s]
Read(h) == [h.name EXCEPT !.dirty = h.flags.dirty]

TypeOK ==
  /\ format \in {"shared", "messages"}
  /\ ui \in [shown : State, sync : BOOLEAN]
  /\ open \in BOOLEAN /\ counted \in BOOLEAN
  /\ type \in {PT_NONE, PT_UI, PT_STATE} /\ force \in BOOLEAN
  /\ lock \in Thread \cup {"free"}
  /\ sPresetState \in Halved /\ copy \in Halved /\ state \in [Thread -> Halved]
  /\ pc["ui"] \in {"idle", "fetch", "fetchName", "fetchFlags", "receive", "copyFlags",
                   "copyName", "set", "setName", "setFlags", "send", "sent", "show"}
  /\ pc["timer"] \in {"idle", "fetchName", "fetchFlags", "copyFlags", "copyName",
                      "notify"}
  /\ pc["host"] \in {"idle", "set", "setName", "setFlags", "sent", "fetchName",
                     "fetchFlags", "saved", "copyFlags", "copyName", "notify"}
  /\ acts \in 0..MaxActs /\ calls \in 0..MaxCalls
  /\ lock = "free" <=> \A t \in Thread :
       pc[t] \notin {"fetchName", "fetchFlags", "setName", "setFlags"}

Init ==
  /\ format \in {"shared", "messages"}
  /\ ui = [shown |-> Blank, sync |-> FALSE] /\ open = FALSE /\ counted = FALSE
  /\ type = PT_NONE /\ force = FALSE /\ lock = "free"
  /\ sPresetState = Whole(Blank) /\ copy = Whole(Blank)
  /\ pc = [t \in Thread |-> "idle"]
  /\ state = [t \in Thread |-> Whole(Blank)]
  /\ acts = 0 /\ calls = 0

Goto(t, l) == pc' = [pc EXCEPT ![t] = l]
Ends(t) == state' = [state EXCEPT ![t] = Whole(Blank)]    \* the local is gone
Received(s) == [shown |-> s, sync |-> FALSE]     \* receive_preset_state()

-----------------------------------------------------------------------------
(* set_preset_state(state, mode) and the fetches, by any thread.           *)

Mode(t) == IF t = "ui" /\ format = "messages" THEN PT_UI ELSE PT_STATE

(* Slip: the lock is not waited for. *)
SetLockTaken(t) ==
  /\ pc[t] = "set"
  /\ \/ type > Mode(t) /\ Goto(t, "sent") /\ UNCHANGED lock
     \/ type <= Mode(t) /\ lock' = t /\ Goto(t, "setName")
  /\ UNCHANGED <<format, uiVars, type, force, sPresetState, copy, state, acts, calls>>

(* A state of higher priority that was not passed on yet stays.            *)
SetLock(t) ==
  /\ pc[t] = "set"
  /\ \/ /\ type > Mode(t)
        /\ Goto(t, "sent") /\ UNCHANGED lock
     \/ /\ type <= Mode(t) /\ lock = "free"
        /\ lock' = t /\ Goto(t, "setName")
  /\ UNCHANGED <<format, uiVars, type, force, sPresetState, copy, state, acts, calls>>

SetName(t) ==
  /\ pc[t] = "setName" /\ Goto(t, "setFlags")
  /\ sPresetState' = [sPresetState EXCEPT !.name = state[t].name]
  /\ UNCHANGED <<format, uiVars, wordVars, copy, state, acts, calls>>

(* Slip: the state is not marked as one to pass on. *)
SetFlagsUnmarked(t) ==
  /\ pc[t] = "setFlags" /\ Goto(t, "sent")
  /\ sPresetState' = [sPresetState EXCEPT !.flags = state[t].flags]
  /\ type' = PT_NONE /\ force' = FALSE /\ lock' = "free"
  /\ UNCHANGED <<format, uiVars, copy, state, acts, calls>>

(* The rest of the copy and the unlock, which stores the mode alone.       *)
SetFlags(t) ==
  /\ pc[t] = "setFlags" /\ Goto(t, "sent")
  /\ sPresetState' = [sPresetState EXCEPT !.flags = state[t].flags]
  /\ type' = Mode(t) /\ force' = FALSE /\ lock' = "free"
  /\ UNCHANGED <<format, uiVars, copy, state, acts, calls>>

FetchName(t) ==
  /\ pc[t] = "fetchName" /\ Goto(t, "fetchFlags")
  /\ state' = [state EXCEPT ![t].name = sPresetState.name]
  /\ UNCHANGED <<format, uiVars, wordVars, sPresetState, copy, acts, calls>>

(* The unlock after a fetch clears the type; after serialize it stays.     *)
FetchFlags(t) ==
  /\ pc[t] = "fetchFlags"
  /\ state' = [state EXCEPT ![t].flags = sPresetState.flags]
  /\ lock' = "free"
  /\ IF t = "host" THEN UNCHANGED <<type, force>> ELSE type' = PT_NONE /\ force' = FALSE
  /\ Goto(t, CASE t = "ui" -> "receive" [] t = "timer" -> "copyFlags" [] OTHER -> "saved")
  /\ UNCHANGED <<format, uiVars, sPresetState, copy, acts, calls>>

-----------------------------------------------------------------------------
(* The user interface.                                                     *)

(* The user picks another preset, none, or changes a setting of it.        *)
Act ==
  /\ open /\ pc["ui"] = "idle" /\ acts < MaxActs /\ acts' = acts + 1
  /\ \E p \in Preset \cup {NoPreset}, d \in BOOLEAN :
       /\ d => p = ui.shown.name /\ p # NoPreset
       /\ ui' = [shown |-> [name |-> p, dirty |-> d, by |-> "user"], sync |-> TRUE]
  /\ UNCHANGED <<format, open, counted, wordVars, sPresetState, copy, pc, state, calls>>

(* main_iteration(): CLAP and VST2 fetch first, and receive what they got. *)
Iterate ==
  /\ format = "shared" /\ open /\ pc["ui"] = "idle" /\ Goto("ui", "fetch")
  /\ UNCHANGED <<format, uiVars, wordVars, sPresetState, copy, state, acts, calls>>

Fetch ==
  /\ pc["ui"] = "fetch"
  /\ \/ /\ open /\ type # PT_STATE
        /\ Goto("ui", "send") /\ UNCHANGED lock
     \/ /\ ~open \/ type = PT_STATE
        /\ lock = "free" /\ lock' = "ui" /\ Goto("ui", "fetchName")
  /\ UNCHANGED <<format, uiVars, type, force, sPresetState, copy, state, acts, calls>>

(* After a forced fetch the interface is open.                             *)
Receive ==
  /\ pc["ui"] = "receive"
  /\ ui' = Received(Read(state["ui"])) /\ open' = TRUE
  /\ Goto("ui", IF open THEN "send" ELSE "idle") /\ Ends("ui")
  /\ UNCHANGED <<format, counted, wordVars, sPresetState, copy, acts, calls>>

(* IWrapper::main_iteration(); Controller::send_preset_state() keeps a     *)
(* copy before it sends the message.                                       *)
Send ==
  /\ \/ pc["ui"] = "send"
     \/ format = "messages" /\ open /\ pc["ui"] = "idle"
  /\ \/ ~ui.sync /\ Goto("ui", "idle") /\ UNCHANGED state
     \/ /\ ui.sync /\ Goto("ui", IF format = "messages" THEN "copyFlags" ELSE "set")
        /\ state' = [state EXCEPT !["ui"] = Whole(ui.shown)]
  /\ UNCHANGED <<format, uiVars, wordVars, sPresetState, copy, acts, calls>>

Sent ==
  /\ pc["ui"] = "sent" /\ Goto("ui", "idle") /\ Ends("ui")
  /\ ui' = [ui EXCEPT !.sync = FALSE]
  /\ UNCHANGED <<format, open, counted, wordVars, sPresetState, copy, acts, calls>>

(* Closing counts as one of the bounded acts of the user. *)
Close ==
  /\ open /\ pc["ui"] = "idle" /\ open' = FALSE
  /\ acts < MaxActs /\ acts' = acts + 1
  /\ ui' = IF format = "messages" THEN Received(Blank) ELSE ui
  /\ UNCHANGED <<format, counted, wordVars, sPresetState, copy, pc, state, calls>>

(* CLAP and VST2 fetch by force; the VST3 controller asks the plugin for   *)
(* its state and shows its own copy to the new interface.                  *)
Show ==
  /\ ~open /\ pc["ui"] = "idle"
  /\ IF format = "shared" THEN Goto("ui", "fetch") /\ UNCHANGED force
     ELSE Goto("ui", "show") /\ force' = TRUE
  /\ UNCHANGED <<format, uiVars, type, lock, sPresetState, copy, state, acts, calls>>

Shown ==
  /\ pc["ui"] = "show" /\ Goto("ui", "idle")
  /\ open' = TRUE /\ ui' = Received(Read(copy))
  /\ UNCHANGED <<format, counted, wordVars, sPresetState, copy, state, acts, calls>>

-----------------------------------------------------------------------------
(* The controller of VST3.  It is called by the interface, by the timer    *)
(* through the host, and by the host, and takes no lock for its copy.      *)

CopyFlags(t) ==
  /\ pc[t] = "copyFlags" /\ Goto(t, "copyName")
  /\ copy' = [copy EXCEPT !.flags = state[t].flags]
  /\ UNCHANGED <<format, uiVars, wordVars, sPresetState, state, acts, calls>>

CopyName(t) ==
  /\ pc[t] = "copyName" /\ Goto(t, IF t = "ui" THEN "set" ELSE "notify")
  /\ copy' = [copy EXCEPT !.name = state[t].name]
  /\ IF t = "ui" THEN UNCHANGED state ELSE Ends(t)
  /\ UNCHANGED <<format, uiVars, wordVars, sPresetState, acts, calls>>

(* receive_preset_state(): the interface gets whatever the copy is by now. *)
Notify(t) ==
  /\ pc[t] = "notify" /\ Goto(t, "idle")
  /\ ui' = IF open THEN Received(Read(copy)) ELSE ui
  /\ UNCHANGED <<format, open, counted, wordVars, sPresetState, copy, state, acts, calls>>

-----------------------------------------------------------------------------
(* The plugin counts the interfaces when it processes audio:               *)
(* toggle_ui_state().                                                      *)
Toggle ==
  /\ format = "messages" /\ counted # (open \/ pc["ui"] = "show")
  /\ counted' = ~counted
  /\ UNCHANGED <<format, ui, open, wordVars, sPresetState, copy, pc, state, acts, calls>>

(* The timer of VST3: sync_data() and transmit_preset_state(), while an    *)
(* interface is counted.  The message takes the state to the controller.   *)
Transmit ==
  /\ format = "messages" /\ counted /\ pc["timer"] = "idle"
  /\ (force \/ type = PT_STATE) /\ lock = "free"
  /\ lock' = "timer" /\ Goto("timer", "fetchName")
  /\ UNCHANGED <<format, uiVars, type, force, sPresetState, copy, state, acts, calls>>

-----------------------------------------------------------------------------
(* The host restores a session: the plugin first, then the controller.     *)
Load ==
  /\ pc["host"] = "idle" /\ calls < MaxCalls /\ calls' = calls + 1
  /\ \E p \in Preset \cup {NoPreset}, d \in BOOLEAN :
       /\ p = NoPreset => ~d
       /\ state' = [state EXCEPT !["host"] =
                      Whole([name |-> p, dirty |-> d, by |-> "host"])]
  /\ Goto("host", "set")
  /\ UNCHANGED <<format, uiVars, wordVars, sPresetState, copy, acts>>

Loaded ==
  /\ pc["host"] = "sent"
  /\ \/ format = "messages" /\ Goto("host", "copyFlags") /\ UNCHANGED state
     \/ format = "shared" /\ Goto("host", "idle") /\ Ends("host")
  /\ UNCHANGED <<format, uiVars, wordVars, sPresetState, copy, acts, calls>>

(* The host saves the session: serialize_preset_state().                   *)
Save ==
  /\ pc["host"] = "idle" /\ calls < MaxCalls /\ calls' = calls + 1
  /\ lock = "free" /\ lock' = "host" /\ Goto("host", "fetchName")
  /\ UNCHANGED <<format, uiVars, type, force, sPresetState, copy, state, acts>>

Saved ==
  /\ pc["host"] = "saved" /\ Goto("host", "idle") /\ Ends("host")
  /\ UNCHANGED <<format, uiVars, wordVars, sPresetState, copy, acts, calls>>

-----------------------------------------------------------------------------
Busy(t) == pc[t] # "idle"
UiStep ==
  \/ Iterate \/ Send
  \/ /\ Busy("ui")
     /\ \/ Fetch \/ FetchName("ui") \/ FetchFlags("ui") \/ Receive
        \/ CopyFlags("ui") \/ CopyName("ui")
        \/ SetLock("ui") \/ SetName("ui") \/ SetFlags("ui") \/ Sent \/ Shown
TimerStep ==
  \/ Transmit
  \/ /\ Busy("timer")
     /\ \/ FetchName("timer") \/ FetchFlags("timer")
        \/ CopyFlags("timer") \/ CopyName("timer") \/ Notify("timer")
HostStep ==
  /\ Busy("host")
  /\ \/ SetLock("host") \/ SetName("host") \/ SetFlags("host") \/ Loaded
     \/ CopyFlags("host") \/ CopyName("host") \/ Notify("host")
     \/ FetchName("host") \/ FetchFlags("host") \/ Saved

Next ==
  \/ Act \/ Close \/ Show \/ Load \/ Save
  \/ UiStep \/ TimerStep \/ HostStep \/ Toggle

Spec == Init /\ [][Next]_vars

(* Each thread goes on: the event loop of the interface, the timer, the    *)
(* host within a call, and the processing of audio.                        *)
Fairness ==
  WF_vars(UiStep) /\ WF_vars(TimerStep) /\ WF_vars(HostStep) /\ WF_vars(Toggle)
FairSpec == Spec /\ Fairness

-----------------------------------------------------------------------------
(* Nobody reads half of one state and half of another: what a thread has   *)
(* taken is a state that somebody stored, and what the host saves too.     *)
(* The controller's copy has no lock, and nothing is promised of it.       *)
NoneTorn ==
  /\ \A t \in Thread : pc[t] # "fetchFlags" => state[t].name = state[t].flags
  /\ lock = "free" => sPresetState.name = sPresetState.flags

(* When the user and the host are done, an open interface shows what the   *)
(* plugin holds.  Over messages a choice of the user may cross a state on  *)
(* its way back, so there it is promised for what the host restored.       *)
Settled ==
  <>[](open /\ (format = "shared" \/ sPresetState.flags.by = "host")
         => ui.shown.name = sPresetState.flags.name
            /\ ui.shown.dirty = sPresetState.flags.dirty)

(* "Mark state changed if data was transferred from UI": the wrappers tell *)
(* the user's choice (PT_UI) from a state of the host to pass on           *)
(* (PT_STATE), so the user's own earlier choice never replaces a later     *)
(* one that the open interface shows.                                      *)
ChoiceStands ==
  [][open /\ open' /\ acts' = acts /\ ui'.shown.by = "user"
       => ui'.shown = ui.shown]_vars
=============================================================================
