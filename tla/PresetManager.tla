--------------------------- MODULE PresetManager ---------------------------
(***************************************************************************)
(* The presets of the user interface (src/main/ui/IWrapper.cpp): which one *)
(* is active, whether the settings differ from it, what the plugin is told *)
(* of it, and the two sets of settings A and B.                            *)
(*                                                                         *)
(* All ports together hold one value, the settings; the values in the KVT  *)
(* that A and B also keep are left out.  The list is sorted whenever it    *)
(* grows, so vPresets is the set of its presets and Rank their order       *)
(* (preset_compare_function); nActivePreset is an index there, which       *)
(* remove_preset() leaves alone when the list shrinks before it.           *)
(* mark_active_preset_dirty() is called by ports whose value changes,      *)
(* unless settings are being imported.                                     *)
(***************************************************************************)
EXTENDS Integers, FiniteSets

CONSTANTS
  Settings, Default,      \* values of all ports; the default one
  Factory, User,          \* names of presets in the resources and in files
  Rank,                   \* the order of the list
  NoPreset, Absent        \* no active preset; no file, or no data in a slot

ASSUME PresetAssumption ==
  /\ Default \in Settings /\ Factory \cap User = {}
  /\ NoPreset \notin Factory \cup User /\ Absent \notin Settings
  /\ IsFiniteSet(Factory \cup User) /\ Rank \in [Factory \cup User -> Nat]
  /\ \A p, q \in Factory \cup User : Rank[p] = Rank[q] => p = q

VARIABLES
  settings,          \* the values of the ports
  content,           \* what each preset holds on disk
  vPresets, nActivePreset,
  dirty, sync,       \* F_PRESET_DIRTY, F_PRESET_SYNC
  vPresetData, nActivePresetData,
  told, echo,        \* the state the plugin has, and will give back
  left, past         \* history, see below

vars == <<settings, content, vPresets, nActivePreset, dirty, sync, vPresetData,
          nActivePresetData, told, echo, left, past>>

Preset == Factory \cup User
Slot == {0, 1}
Other(s) == 1 - s
active == nActivePresetData

INVALID_PRESET_INDEX == -1
index_of(list, p) ==
  IF p \in list THEN Cardinality({q \in list : Rank[q] < Rank[p]})
  ELSE INVALID_PRESET_INDEX

(* vPresets.get(): nothing is found past the end of the list. *)
get(list, i) ==
  IF \E p \in list : index_of(list, p) = i
  THEN CHOOSE p \in list : index_of(list, p) = i ELSE NoPreset
active_preset == get(vPresets, nActivePreset)

TypeOK ==
  /\ settings \in Settings
  /\ content \in [Preset -> Settings \cup {Absent}]
  /\ Factory \subseteq vPresets /\ vPresets \subseteq Preset
  /\ nActivePreset \in Nat \cup {INVALID_PRESET_INDEX}
  /\ \/ nActivePreset = INVALID_PRESET_INDEX \/ active_preset # NoPreset
     \/ "shifted" \in past     \* the index is one of the list
  /\ dirty \in BOOLEAN /\ sync \in BOOLEAN
  /\ vPresetData \in [Slot -> [data : Settings \cup {Absent}, dirty : BOOLEAN]]
  /\ nActivePresetData \in Slot
  /\ told \in [name : Preset \cup {NoPreset}, dirty : BOOLEAN]
  /\ echo \in BOOLEAN
  /\ left \in Settings \cup {Absent}
  /\ past \subseteq {"slot", "preset", "left", "shifted", "untold", "echo"}

(* History: left is what the ports held when the inactive slot was left    *)
(* (or what was copied there).  past tells which settings changed without  *)
(* a port that marked it: since the slot was entered, since the preset was *)
(* loaded, or before the inactive slot was left.  It also tells that the   *)
(* index came to name another preset since one was chosen ("shifted") or   *)
(* since the plugin was told ("untold"), and that an earlier choice came   *)
(* back from the plugin in place of a later one ("echo").                  *)
Chosen == {"preset", "shifted", "echo"}     \* what a new choice ends
Init ==
  /\ settings = Default
  /\ content \in {c \in [Preset -> Settings \cup {Absent}] :
                    \A p \in Factory : c[p] # Absent}
  /\ vPresets = {p \in Preset : content[p] # Absent}
  /\ nActivePreset = INVALID_PRESET_INDEX /\ dirty = FALSE /\ sync = FALSE
  /\ vPresetData = [s \in Slot |-> [data |-> Absent, dirty |-> FALSE]]
  /\ nActivePresetData = 0
  /\ told = [name |-> NoPreset, dirty |-> FALSE] /\ echo = FALSE
  /\ left = Absent /\ past = {}

-----------------------------------------------------------------------------
(* The ports.                                                              *)

Marked(d, changed) ==
  IF changed THEN [d EXCEPT ![active].dirty = TRUE] ELSE d

(* A port of the user interface takes a value: set_value() or write(), and *)
(* through it mark_active_preset_dirty().                                  *)
Edit(v) ==
  /\ v # settings /\ settings' = v
  /\ dirty' = (dirty \/ active_preset # NoPreset)
  /\ sync' = (sync \/ (active_preset # NoPreset /\ ~dirty))
  /\ vPresetData' = Marked(vPresetData, TRUE)
  /\ UNCHANGED <<content, vPresets, nActivePreset, nActivePresetData, told,
                 echo, left, past>>

(* A value comes from the plugin (automation by the host): sync() takes it *)
(* and marks nothing.                                                      *)
Automated(v) ==
  /\ v # settings /\ settings' = v
  /\ past' = past \cup {"slot", "preset"}
  /\ UNCHANGED <<content, vPresets, nActivePreset, dirty, sync, vPresetData,
                 nActivePresetData, told, echo, left>>

(* The user loads settings from a file: import_settings(), during which    *)
(* F_IMPORT_SETTINGS_ACTIVE keeps the ports from marking anything.         *)
ImportSettings(v) == Automated(v)

(* receive_preset_state(): the preset of that name, if it is in the list.  *)
Received(state) ==
  /\ nActivePreset' = index_of(vPresets, state.name)
  /\ dirty' = state.dirty /\ sync' = FALSE

(* The host restores a session: ports and the state of the preset.         *)
ReceivePresetState(v, state) ==
  /\ settings' = v /\ told' = state /\ echo' = FALSE
  /\ Received(state)
  /\ past' = (past \ (Chosen \cup {"untold"})) \cup {"slot", "preset"}
  /\ UNCHANGED <<content, vPresets, vPresetData, nActivePresetData, left>>

(* CLAP and VST2 take what the interface sent for a state of the host and  *)
(* give it back at its next iteration, whatever the user has done since:   *)
(* no port changes (PresetExchange has the two sides).                     *)
ReceiveEcho ==
  /\ echo /\ echo' = FALSE
  /\ Received(told)
  /\ past' = (past \ {"untold"})
             \cup (IF told.name = active_preset /\ told.dirty = dirty THEN {} ELSE {"echo"})
  /\ UNCHANGED <<settings, content, vPresets, vPresetData, nActivePresetData,
                 told, left>>

(* reset_settings() by the user.                                           *)
ResetSettings ==
  /\ settings' = Default /\ nActivePreset' = INVALID_PRESET_INDEX
  /\ dirty' = FALSE /\ sync' = TRUE
  /\ vPresetData' = Marked(vPresetData, settings # Default)
  /\ past' = past \ Chosen
  /\ UNCHANGED <<content, vPresets, nActivePresetData, told, echo, left>>

-----------------------------------------------------------------------------
(* The list of presets.                                                    *)

(* Slip: the active preset is not imported again, but loses its mark. *)
SelectActivePresetOnce(p, force) ==
  /\ LET found == content[p] # Absent /\ (p # active_preset \/ force) IN
       /\ settings' = IF found THEN content[p] ELSE settings
       /\ past' = IF found THEN (past \ Chosen) \cup {"slot"} ELSE past \ {"shifted", "echo"}
  /\ nActivePreset' = index_of(vPresets, p) /\ dirty' = FALSE /\ sync' = TRUE
  /\ UNCHANGED <<content, vPresets, vPresetData, nActivePresetData, told, echo, left>>

(* select_active_preset(); a preset whose file is gone becomes the active  *)
(* one although nothing was imported.                                      *)
SelectActivePreset(p, force) ==
  /\ p # active_preset \/ force
  /\ LET found == content[p] # Absent IN
       /\ settings' = IF found THEN content[p] ELSE settings
       /\ past' = (past \ Chosen) \cup (IF found THEN {"slot"} ELSE {"preset"})
  /\ nActivePreset' = index_of(vPresets, p) /\ dirty' = FALSE /\ sync' = TRUE
  /\ UNCHANGED <<content, vPresets, vPresetData, nActivePresetData, told, echo, left>>

(* Deselection: without an index only the mark is cleared, and an index    *)
(* past the list is kept as if nothing were selected.                      *)
DeselectActivePreset(force) ==
  /\ nActivePreset = INVALID_PRESET_INDEX \/ active_preset # NoPreset \/ force
  /\ nActivePreset' = INVALID_PRESET_INDEX /\ dirty' = FALSE
  /\ sync' = (sync \/ nActivePreset # INVALID_PRESET_INDEX)
  /\ past' = past \ Chosen
  /\ UNCHANGED <<settings, content, vPresets, vPresetData, nActivePresetData,
                 told, echo, left>>

(* Slip: the mark is cleared without telling the plugin. *)
SavePresetQuietly(p) ==
  /\ p \notin vPresets \/ content[p] # Absent
  /\ content' = [content EXCEPT ![p] = settings]
  /\ vPresets' = vPresets \cup {p}
  /\ nActivePreset' = index_of(vPresets', p) /\ dirty' = FALSE
  /\ sync' = (sync \/ p # active_preset)
  /\ past' = past \ Chosen
  /\ UNCHANGED <<settings, vPresetData, nActivePresetData, told, echo, left>>

(* save_preset(): the settings go to the file of that name.  One that is   *)
(* in the list is removed for it, which fails when the file is gone.       *)
SavePreset(p) ==
  /\ p \notin vPresets \/ content[p] # Absent
  /\ content' = [content EXCEPT ![p] = settings]
  /\ vPresets' = vPresets \cup {p}
  /\ nActivePreset' = index_of(vPresets', p) /\ dirty' = FALSE /\ sync' = TRUE
  /\ past' = past \ Chosen
  /\ UNCHANGED <<settings, vPresetData, nActivePresetData, told, echo, left>>

(* The old file was removed and the temporary one cannot be renamed.       *)
SavePresetFails(p) ==
  /\ p \in vPresets /\ content[p] # Absent
  /\ content' = [content EXCEPT ![p] = Absent]
  /\ UNCHANGED <<settings, vPresets, nActivePreset, dirty, sync, vPresetData,
                 nActivePresetData, told, echo, left, past>>

(* remove_preset() of the preset selected in the list, the active one or   *)
(* not; it fails when the file is not there.  The mark stays, and so does  *)
(* the index when an earlier preset goes: it then names the next one.      *)
RemovePreset(p) ==
  /\ p \in vPresets /\ content[p] # Absent
  /\ content' = [content EXCEPT ![p] = Absent]
  /\ vPresets' = vPresets \ {p}
  /\ LET preset_id == index_of(vPresets, p) IN
       /\ nActivePreset' = IF nActivePreset = preset_id THEN INVALID_PRESET_INDEX
                           ELSE nActivePreset
       /\ sync' = (sync \/ nActivePreset = preset_id)
       /\ past' = (IF nActivePreset = preset_id THEN past \ Chosen ELSE past)
                  \cup (IF nActivePreset > preset_id THEN {"shifted", "untold"} ELSE {})
  /\ UNCHANGED <<settings, dirty, vPresetData, nActivePresetData, told, echo, left>>

(* Slip: the index is kept although the list changed. *)
ScanPresetsKeeping ==
  /\ vPresets' = {p \in Preset : content[p] # Absent}
  /\ UNCHANGED <<settings, content, nActivePreset, dirty, sync, vPresetData,
                 nActivePresetData, told, echo, left, past>>

(* scan_presets(): the list is read again, and the active preset looked up *)
(* in it.                                                                  *)
ScanPresets ==
  /\ vPresets' = {p \in Preset : content[p] # Absent}
  /\ nActivePreset' = index_of(vPresets', active_preset)
  /\ UNCHANGED <<settings, content, dirty, sync, vPresetData,
                 nActivePresetData, told, echo, left, past>>

(* set_preset_tab() has the plugin told of the tab.                        *)
SetPresetTab ==
  /\ sync' = TRUE
  /\ UNCHANGED <<settings, content, vPresets, nActivePreset, dirty, vPresetData,
                 nActivePresetData, told, echo, left, past>>

(* main_iteration(), after what came back was received: the mark counts    *)
(* only with an active preset.  Some wrappers will give the state back.    *)
MainIteration ==
  /\ ~echo /\ echo' \in BOOLEAN
  /\ sync /\ sync' = FALSE
  /\ told' = [name |-> active_preset, dirty |-> dirty /\ active_preset # NoPreset]
  /\ past' = past \ {"untold"}
  /\ UNCHANGED <<settings, content, vPresets, nActivePreset, dirty, vPresetData,
                 nActivePresetData, left>>

-----------------------------------------------------------------------------
(* A and B: serialize_state() and deserialize_state() without the values   *)
(* in the KVT, which have no part in the marks but through their listeners *)
(* (Edit).                                                                 *)

Serialized(d, s) == [d EXCEPT ![s] = [data |-> settings, dirty |-> FALSE]]

(* copy_preset_data() *)
CopyPresetData ==
  /\ vPresetData' = Serialized(vPresetData, Other(active))
  /\ left' = settings /\ past' = past \ {"left"}
  /\ UNCHANGED <<settings, content, vPresets, nActivePreset, dirty, sync,
                 nActivePresetData, told, echo>>

(* Slip: the mark of a slot is not looked at. *)
SwitchFirst ==
  IF vPresetData[active].data = Absent
  THEN Serialized(vPresetData, active) ELSE vPresetData

(* switch_preset_data(): the settings are kept if the slot is empty or     *)
(* marked, then those of the other slot are loaded into the ports, which   *)
(* mark the slot that is left; an empty slot resets everything, the active *)
(* preset included.                                                        *)
SwitchKeep ==
  IF vPresetData[active].data = Absent \/ vPresetData[active].dirty
  THEN Serialized(vPresetData, active) ELSE vPresetData

SwitchPresetData ==
  LET new == vPresetData[Other(active)].data
      loaded == IF new = Absent THEN Default ELSE new
      index == IF new = Absent THEN INVALID_PRESET_INDEX ELSE nActivePreset
      preset == get(vPresets, index)
  IN /\ settings' = loaded
     /\ nActivePreset' = index
     /\ vPresetData' = Marked(SwitchKeep, loaded # settings)
     /\ nActivePresetData' = Other(active)
     /\ dirty' = IF new = Absent THEN FALSE ELSE dirty \/ preset # NoPreset
     /\ sync' = (sync \/ new = Absent \/ (preset # NoPreset /\ ~dirty))
     /\ left' = settings
     /\ past' = (past \ ({"slot", "left"} \cup (IF new = Absent THEN Chosen ELSE {})))
                \cup (IF "slot" \in past THEN {"left"} ELSE {})
  /\ UNCHANGED <<content, vPresets, told, echo>>

-----------------------------------------------------------------------------
PresetState ==
  [name : Preset, dirty : BOOLEAN] \cup {[name |-> NoPreset, dirty |-> FALSE]}

Next ==
  \/ \E v \in Settings : Edit(v) \/ Automated(v) \/ ImportSettings(v)
  \/ \E v \in Settings, state \in PresetState : ReceivePresetState(v, state)
  \/ ReceiveEcho \/ ResetSettings
  \/ \E p \in vPresets, force \in BOOLEAN : SelectActivePreset(p, force)
  \/ \E force \in BOOLEAN : DeselectActivePreset(force)
  \/ \E p \in User : SavePreset(p) \/ SavePresetFails(p) \/ RemovePreset(p)
  \/ ScanPresets \/ SetPresetTab \/ MainIteration
  \/ CopyPresetData \/ SwitchPresetData

Spec == Init /\ [][Next]_vars

-----------------------------------------------------------------------------
(* switch_preset_data() back to a slot brings back the settings it was     *)
(* left with, unless they came into the ports past the marks: from an      *)
(* import or from the host.                                                *)
SlotsKept ==
  "left" \in past \/ vPresetData[Other(active)].data = left

(* "Select new active preset data and apply settings from it", IWrapper.h: *)
(* what a slot is left with is what the switch back applies.               *)
SlotsAlwaysKept == vPresetData[Other(active)].data = left

(* A preset shown as unchanged is what the ports hold, unless its file is  *)
(* lost, the host or an import moved the ports since, remove_preset() of   *)
(* an earlier one left the index to another preset, or an earlier choice   *)
(* came back from the plugin in place of a later one.                      *)
CleanIsPreset ==
  active_preset # NoPreset /\ ~dirty
    => \/ settings = content[active_preset]
       \/ content[active_preset] = Absent \/ past \cap Chosen # {}

(* With nothing left to tell, the plugin (and so the session the host will *)
(* save) has the preset and the mark the user sees, unless the preset it   *)
(* was told of vanished from the list with its file, or since then         *)
(* remove_preset() of an earlier one left the index to another preset.     *)
PluginTold ==
  ~sync => \/ told.name \notin vPresets \cup {NoPreset}
           \/ "untold" \in past
           \/ /\ told.name = active_preset
              /\ active_preset # NoPreset => told.dirty = dirty
=============================================================================
