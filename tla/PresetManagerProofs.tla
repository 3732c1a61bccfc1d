------------------------ MODULE PresetManagerProofs -------------------------
(***************************************************************************)
(* Proofs about PresetManager for every set of settings, of factory and of *)
(* user presets: A and B keep what they were left with, a preset shown as  *)
(* unchanged is what the ports hold, and the plugin is told what the user  *)
(* sees.                                                                   *)
(***************************************************************************)
EXTENDS PresetManager, FiniteSetTheorems, TLAPS

-----------------------------------------------------------------------------
(* The two sets of settings.                                               *)

(* Marking a slot as changed keeps its data and the other slot. *)
LEMMA MarkedSlots ==
  ASSUME TypeOK, NEW changed \in BOOLEAN,
         NEW d \in [Slot -> [data : Settings \cup {Absent}, dirty : BOOLEAN]]
  PROVE  /\ Marked(d, changed) \in [Slot -> [data : Settings \cup {Absent}, dirty : BOOLEAN]]
         /\ \A s \in Slot : Marked(d, changed)[s].data = d[s].data
         /\ Marked(d, changed)[active].dirty = (d[active].dirty \/ changed)
BY DEF Marked, TypeOK, active

(* Storing the ports into a slot changes that slot only. *)
LEMMA SerializedSlots ==
  ASSUME TypeOK, NEW s \in Slot,
         NEW d \in [Slot -> [data : Settings \cup {Absent}, dirty : BOOLEAN]]
  PROVE  /\ Serialized(d, s) \in [Slot -> [data : Settings \cup {Absent}, dirty : BOOLEAN]]
         /\ Serialized(d, s)[s].data = settings
         /\ \A r \in Slot \ {s} : Serialized(d, s)[r] = d[r]
BY DEF Serialized, TypeOK

LEMMA OtherSlot ==
  ASSUME NEW s \in Slot
  PROVE  Other(s) \in Slot /\ Other(s) # s /\ Other(Other(s)) = s
BY DEF Other, Slot

-----------------------------------------------------------------------------
(* The index and the list.                                                 *)

Earlier(list, p) == {q \in list : Rank[q] < Rank[p]}

LEMMA EarlierFinite ==
  ASSUME NEW list \in SUBSET Preset, NEW p
  PROVE  IsFiniteSet(Earlier(list, p)) /\ Cardinality(Earlier(list, p)) \in Nat
<1>1. IsFiniteSet(Preset)
  BY PresetAssumption DEF Preset
<1>2. IsFiniteSet(Earlier(list, p))
  BY <1>1, FS_Subset DEF Earlier
<1> QED BY <1>2, FS_CardinalityType

(* A preset of the list has an index, nothing else has. *)
LEMMA IndexOf ==
  ASSUME NEW list \in SUBSET Preset, NEW p
  PROVE  /\ p \in list => /\ index_of(list, p) \in Nat
                          /\ index_of(list, p) = Cardinality(Earlier(list, p))
         /\ p \notin list => index_of(list, p) = INVALID_PRESET_INDEX
BY EarlierFinite DEF index_of, Earlier

(* An earlier preset has a lower index. *)
LEMMA IndexOrder ==
  ASSUME NEW list \in SUBSET Preset, NEW p \in list, NEW q \in list, Rank[p] < Rank[q]
  PROVE  index_of(list, p) < index_of(list, q)
<1>1. Rank[p] \in Nat /\ Rank[q] \in Nat /\ \A r \in list : Rank[r] \in Nat
  BY PresetAssumption DEF Preset
<1>2. Earlier(list, p) \subseteq Earlier(list, q)
  BY <1>1 DEF Earlier
<1>3. p \in Earlier(list, q) /\ p \notin Earlier(list, p)
  BY <1>1 DEF Earlier
<1>4. /\ Cardinality(Earlier(list, p)) <= Cardinality(Earlier(list, q))
      /\ Cardinality(Earlier(list, p)) # Cardinality(Earlier(list, q))
  BY <1>2, <1>3, EarlierFinite, FS_Subset
<1> QED BY <1>4, EarlierFinite, IndexOf

LEMMA IndexUnique ==
  ASSUME NEW list \in SUBSET Preset, NEW p \in list, NEW q \in list,
         index_of(list, p) = index_of(list, q)
  PROVE  p = q
<1>1. Rank[p] \in Nat /\ Rank[q] \in Nat
  BY PresetAssumption DEF Preset
<1>2. index_of(list, p) \in Nat
  BY IndexOf
<1>3. CASE Rank[p] < Rank[q]
  BY <1>2, <1>3, IndexOrder
<1>4. CASE Rank[q] < Rank[p]
  BY <1>2, <1>4, IndexOrder
<1>5. CASE Rank[p] = Rank[q]
  BY <1>5, PresetAssumption DEF Preset
<1> QED BY <1>1, <1>3, <1>4, <1>5

(* The preset at the index of one is that one; there is none at -1. *)
LEMMA GetIndex ==
  ASSUME NEW list \in SUBSET Preset
  PROVE  /\ \A i : get(list, i) \in list \cup {NoPreset}
         /\ \A p \in list : get(list, index_of(list, p)) = p
         /\ get(list, INVALID_PRESET_INDEX) = NoPreset
         /\ index_of(list, NoPreset) = INVALID_PRESET_INDEX
<1>1. ASSUME NEW i PROVE get(list, i) \in list \cup {NoPreset}
  BY DEF get
<1>2. ASSUME NEW p \in list PROVE get(list, index_of(list, p)) = p
  <2>1. \A q \in list : index_of(list, q) = index_of(list, p) => q = p
    BY IndexUnique
  <2> QED BY <2>1 DEF get
<1>3. \A p \in list : index_of(list, p) # INVALID_PRESET_INDEX
  BY IndexOf DEF INVALID_PRESET_INDEX
<1>4. get(list, INVALID_PRESET_INDEX) = NoPreset
  BY <1>3 DEF get
<1>5. index_of(list, NoPreset) = INVALID_PRESET_INDEX
  BY IndexOf, PresetAssumption DEF Preset
<1> QED BY <1>1, <1>2, <1>4, <1>5

(* Removing a preset after the index leaves it to the same preset. *)
LEMMA RemovedLater ==
  ASSUME NEW list \in SUBSET Preset, NEW p \in list,
         NEW i \in Nat \cup {INVALID_PRESET_INDEX}, i < index_of(list, p)
  PROVE  get(list \ {p}, i) = get(list, i)
<1> DEFINE rest == list \ {p}
<1>0. rest \in SUBSET Preset /\ \A r \in list : Rank[r] \in Nat
  BY PresetAssumption DEF Preset
<1>1. ASSUME NEW q \in rest, Rank[q] < Rank[p]
      PROVE  index_of(rest, q) = index_of(list, q)
  <2>1. Earlier(rest, q) = Earlier(list, q)
    BY <1>0, <1>1 DEF Earlier
  <2> QED BY <1>0, <2>1, IndexOf
<1>2. ASSUME NEW q \in rest, ~ (Rank[q] < Rank[p])
      PROVE  index_of(rest, q) # i /\ index_of(list, q) # i
  <2>1. Rank[p] < Rank[q]
    <3>1. Rank[q] # Rank[p]
      BY PresetAssumption DEF Preset
    <3> QED BY <1>0, <1>2, <3>1
  <2>2. Earlier(list, p) \subseteq Earlier(rest, q)
    BY <1>0, <2>1 DEF Earlier
  <2>3. Cardinality(Earlier(list, p)) <= Cardinality(Earlier(rest, q))
    BY <1>0, <2>2, EarlierFinite, FS_Subset
  <2>4. index_of(list, p) <= index_of(rest, q)
    BY <1>0, <2>3, IndexOf
  <2>5. index_of(list, p) < index_of(list, q)
    BY <2>1, IndexOrder
  <2>6. /\ index_of(list, p) \in Nat /\ index_of(list, q) \in Nat
        /\ index_of(rest, q) \in Nat
    BY <1>0, IndexOf
  <2> QED BY <2>4, <2>5, <2>6 DEF INVALID_PRESET_INDEX
<1>3. \A q \in rest : index_of(rest, q) = i <=> index_of(list, q) = i
  BY <1>1, <1>2
<1>4. index_of(list, p) # i
  BY IndexOf DEF INVALID_PRESET_INDEX
<1>5. CASE \E q \in rest : index_of(rest, q) = i
  <2>1. PICK q \in rest : index_of(rest, q) = i
    BY <1>5
  <2>2. index_of(list, q) = i
    BY <1>3, <2>1
  <2> QED BY <1>0, <2>1, <2>2, GetIndex
<1>6. CASE ~ \E q \in rest : index_of(rest, q) = i
  <2>1. ~ \E q \in list : index_of(list, q) = i
    BY <1>3, <1>4, <1>6
  <2> QED BY <1>6, <2>1 DEF get
<1> QED BY <1>5, <1>6

(* The active preset after each kind of step. *)
LEMMA ActivePreset ==
  ASSUME TypeOK, vPresets' \in SUBSET Preset
  PROVE  /\ active_preset \in vPresets \cup {NoPreset}
         /\ nActivePreset = INVALID_PRESET_INDEX => active_preset = NoPreset
         /\ nActivePreset' = INVALID_PRESET_INDEX => active_preset' = NoPreset
         /\ \A p \in Preset \cup {NoPreset} :
              nActivePreset' = index_of(vPresets', p)
                => active_preset' = IF p \in vPresets' THEN p ELSE NoPreset
         /\ UNCHANGED <<vPresets, nActivePreset>> => active_preset' = active_preset
<1>1. vPresets \in SUBSET Preset
  BY DEF TypeOK
<1>2. ASSUME NEW p \in Preset \cup {NoPreset}, nActivePreset' = index_of(vPresets', p)
      PROVE  active_preset' = IF p \in vPresets' THEN p ELSE NoPreset
  <2>1. CASE p \in vPresets'
    BY <1>2, <2>1, GetIndex DEF active_preset
  <2>2. CASE p \notin vPresets'
    BY <1>2, <2>2, IndexOf, GetIndex DEF active_preset
  <2> QED BY <2>1, <2>2
<1> QED BY <1>1, <1>2, GetIndex DEF active_preset

(* The active preset after one was removed. *)
LEMMA ActiveRemoved ==
  ASSUME TypeOK, NEW p \in User, RemovePreset(p)
  PROVE  \/ /\ nActivePreset' = INVALID_PRESET_INDEX /\ active_preset' = NoPreset
            /\ sync' = TRUE /\ past' = past \ Chosen
         \/ /\ nActivePreset' = nActivePreset /\ sync' = sync
            /\ past' = past \cup {"shifted", "untold"}
         \/ /\ nActivePreset' = nActivePreset /\ sync' = sync /\ past' = past
            /\ active_preset' = active_preset /\ active_preset # p
<1> DEFINE preset_id == index_of(vPresets, p)
<1>1. vPresets \in SUBSET Preset /\ p \in vPresets /\ vPresets' = vPresets \ {p}
  BY DEF TypeOK, RemovePreset
<1>2. nActivePreset \in Nat \cup {INVALID_PRESET_INDEX} /\ preset_id \in Nat
  BY <1>1, IndexOf DEF TypeOK
<1>3. sync \in BOOLEAN
  BY DEF TypeOK
<1>4. CASE nActivePreset = preset_id
  <2>1. ~ (nActivePreset > preset_id)
    BY <1>2, <1>4
  <2>2. nActivePreset' = INVALID_PRESET_INDEX /\ sync' = TRUE
    BY <1>4 DEF RemovePreset
  <2>3. past' = past \ Chosen
    BY <1>4, <2>1 DEF RemovePreset
  <2>4. active_preset' = NoPreset
    <3>1. vPresets' \in SUBSET Preset
      BY <1>1
    <3>2. get(vPresets', INVALID_PRESET_INDEX) = NoPreset
      BY <3>1, GetIndex
    <3> QED BY <2>2, <3>2 DEF active_preset
  <2> QED BY <2>2, <2>3, <2>4
<1>5. ASSUME nActivePreset # preset_id
      PROVE  nActivePreset' = nActivePreset /\ sync' = sync
  BY <1>3, <1>5 DEF RemovePreset
<1>6. CASE nActivePreset > preset_id
  <2>1. nActivePreset # preset_id
    BY <1>2, <1>6 DEF INVALID_PRESET_INDEX
  <2>2. past' = past \cup {"shifted", "untold"}
    BY <1>6, <2>1 DEF RemovePreset
  <2> QED BY <1>5, <2>1, <2>2
<1>7. CASE nActivePreset < preset_id
  <2>1. nActivePreset # preset_id /\ ~ (nActivePreset > preset_id)
    BY <1>2, <1>7 DEF INVALID_PRESET_INDEX
  <2>2. past' = past
    BY <2>1 DEF RemovePreset
  <2>3. active_preset' = active_preset
    <3>1. get(vPresets', nActivePreset) = get(vPresets, nActivePreset)
      BY <1>1, <1>2, <1>7, RemovedLater
    <3> QED BY <1>5, <2>1, <3>1 DEF active_preset
  <2>4. active_preset # p
    <3>1. vPresets' \in SUBSET Preset
      BY <1>1
    <3>2. \A i : get(vPresets', i) \in vPresets' \cup {NoPreset}
      BY <3>1, GetIndex
    <3>3. active_preset' \in vPresets' \cup {NoPreset}
      BY <3>2 DEF active_preset
    <3> QED BY <1>1, <2>3, <3>3, PresetAssumption DEF Preset
  <2> QED BY <1>5, <2>1, <2>2, <2>3, <2>4
<1>8. \/ nActivePreset = preset_id \/ nActivePreset > preset_id
      \/ nActivePreset < preset_id
  BY <1>2 DEF INVALID_PRESET_INDEX
<1> QED BY <1>4, <1>6, <1>7, <1>8

-----------------------------------------------------------------------------
(* Types.                                                                  *)

(* Every variable keeps its type: the active preset is in the list or      *)
(* there is none, the factory presets never leave the list and never lose  *)
(* their content.                                                          *)
FactoryKept == \A p \in Factory : content[p] # Absent

Indexed ==
  /\ nActivePreset \in Nat \cup {INVALID_PRESET_INDEX}
  /\ \/ nActivePreset = INVALID_PRESET_INDEX \/ active_preset # NoPreset
     \/ "shifted" \in past

(* A step keeps the index, gives it up, or takes that of a preset. *)
LEMMA IndexStep ==
  ASSUME TypeOK, vPresets' \in SUBSET Preset,
         \/ /\ UNCHANGED <<vPresets, nActivePreset>>
            /\ "shifted" \in past => "shifted" \in past'
         \/ nActivePreset' = INVALID_PRESET_INDEX
         \/ \E p \in Preset \cup {NoPreset} : nActivePreset' = index_of(vPresets', p)
  PROVE  Indexed'
<1>1. CASE /\ UNCHANGED <<vPresets, nActivePreset>>
           /\ "shifted" \in past => "shifted" \in past'
  <2>1. active_preset' = active_preset
    BY <1>1, ActivePreset
  <2> QED BY <1>1, <2>1 DEF Indexed, TypeOK
<1>2. CASE nActivePreset' = INVALID_PRESET_INDEX
  BY <1>2 DEF Indexed
<1>3. CASE \E p \in Preset \cup {NoPreset} : nActivePreset' = index_of(vPresets', p)
  <2>1. PICK p \in Preset \cup {NoPreset} : nActivePreset' = index_of(vPresets', p)
    BY <1>3
  <2>2. CASE p \in vPresets'
    <3>1. nActivePreset' \in Nat
      BY <2>1, <2>2, IndexOf
    <3>2. active_preset' = p
      BY <2>1, <2>2, ActivePreset
    <3> QED BY <2>2, <3>1, <3>2, PresetAssumption DEF Indexed, Preset
  <2>3. CASE p \notin vPresets'
    <3>1. nActivePreset' = INVALID_PRESET_INDEX
      BY <2>1, <2>3, IndexOf
    <3> QED BY <3>1 DEF Indexed
  <2> QED BY <2>2, <2>3
<1> QED BY <1>1, <1>2, <1>3

(* Types but for the index *)
Typed ==
  /\ settings \in Settings
  /\ content \in [Preset -> Settings \cup {Absent}]
  /\ Factory \subseteq vPresets /\ vPresets \subseteq Preset
  /\ dirty \in BOOLEAN /\ sync \in BOOLEAN
  /\ vPresetData \in [Slot -> [data : Settings \cup {Absent}, dirty : BOOLEAN]]
  /\ nActivePresetData \in Slot
  /\ told \in [name : Preset \cup {NoPreset}, dirty : BOOLEAN]
  /\ echo \in BOOLEAN
  /\ left \in Settings \cup {Absent}
  /\ past \subseteq {"slot", "preset", "left", "shifted", "untold", "echo"}

LEMMA TypeParts == TypeOK <=> Typed /\ Indexed
BY DEF TypeOK, Typed, Indexed

LEMMA TypeStep == TypeOK /\ FactoryKept /\ [Next]_vars => TypeOK' /\ FactoryKept'
<1> SUFFICES ASSUME TypeOK, FactoryKept, [Next]_vars
             PROVE  Typed' /\ FactoryKept' /\ Indexed'
  BY TypeParts, PTL
<1>0. Typed /\ active_preset \in vPresets \cup {NoPreset}
  BY TypeParts, GetIndex DEF active_preset, Typed
<1> USE PresetAssumption, <1>0 DEF Typed, FactoryKept, Preset
<1>1. ASSUME NEW v \in Settings, Edit(v) PROVE Typed' /\ FactoryKept' /\ Indexed'
  <2>1. vPresetData' \in [Slot -> [data : Settings \cup {Absent}, dirty : BOOLEAN]]
    BY <1>1, MarkedSlots DEF Edit
  <2>2. (active_preset # NoPreset) \in BOOLEAN
    OBVIOUS
  <2>3. dirty' \in BOOLEAN /\ sync' \in BOOLEAN
    BY <1>1, <2>2, Zenon DEF Edit
  <2> QED BY <1>1, <2>1, <2>3, IndexStep DEF Edit
<1>2. ASSUME NEW v \in Settings, Automated(v) PROVE Typed' /\ FactoryKept' /\ Indexed'
  BY <1>2, IndexStep DEF Automated
<1>3. ASSUME NEW v \in Settings, NEW state \in PresetState, ReceivePresetState(v, state)
      PROVE  Typed' /\ FactoryKept' /\ Indexed'
  <2>1. state \in [name : Preset \cup {NoPreset}, dirty : BOOLEAN]
    <3>1. CASE state \in [name : Preset, dirty : BOOLEAN]
      BY <3>1
    <3>2. CASE state = [name |-> NoPreset, dirty |-> FALSE]
      BY <3>2
    <3> QED BY <3>1, <3>2 DEF PresetState
  <2>2. state.name \in Preset \cup {NoPreset} /\ state.dirty \in BOOLEAN
    BY <2>1
  <2>3. told' \in [name : Preset \cup {NoPreset}, dirty : BOOLEAN]
    BY <1>3, <2>1 DEF ReceivePresetState
  <2>4. Indexed'
    BY <1>3, <2>2, IndexStep DEF ReceivePresetState, Received
  <2> QED BY <1>3, <2>2, <2>3, <2>4 DEF ReceivePresetState, Received
<1>4. CASE ReceiveEcho
  <2>1. told.name \in Preset \cup {NoPreset} /\ told.dirty \in BOOLEAN
    OBVIOUS
  <2>2. Indexed'
    BY <1>4, <2>1, IndexStep DEF ReceiveEcho, Received
  <2> QED BY <1>4, <2>1, <2>2 DEF ReceiveEcho, Received
<1>5. CASE ResetSettings
  <2>1. vPresetData' \in [Slot -> [data : Settings \cup {Absent}, dirty : BOOLEAN]]
    BY <1>5, MarkedSlots DEF ResetSettings
  <2> QED BY <1>5, <2>1, IndexStep DEF ResetSettings
<1>6. ASSUME NEW p \in vPresets, NEW force \in BOOLEAN, SelectActivePreset(p, force)
      PROVE  Typed' /\ FactoryKept' /\ Indexed'
  <2>1. Indexed'
    BY <1>6, IndexStep DEF SelectActivePreset
  <2> QED BY <1>6, <2>1 DEF SelectActivePreset
<1>7. ASSUME NEW force \in BOOLEAN, DeselectActivePreset(force)
      PROVE  Typed' /\ FactoryKept' /\ Indexed'
  <2>1. (nActivePreset # INVALID_PRESET_INDEX) \in BOOLEAN
    OBVIOUS
  <2>2. sync' \in BOOLEAN
    BY <1>7, <2>1, Zenon DEF DeselectActivePreset
  <2> QED BY <1>7, <2>2, IndexStep DEF DeselectActivePreset
<1>8. ASSUME NEW p \in User, SavePreset(p) PROVE Typed' /\ FactoryKept' /\ Indexed'
  <2>1. Indexed'
    BY <1>8, IndexStep DEF SavePreset
  <2> QED BY <1>8, <2>1 DEF SavePreset
<1>9. ASSUME NEW p \in User, SavePresetFails(p) PROVE Typed' /\ FactoryKept' /\ Indexed'
  BY <1>9, IndexStep DEF SavePresetFails
<1>10. ASSUME NEW p \in User, RemovePreset(p) PROVE Typed' /\ FactoryKept' /\ Indexed'
  <2>1. Indexed'
    <3>1. Indexed /\ TypeOK
      BY TypeParts
    <3>2. CASE nActivePreset' = INVALID_PRESET_INDEX
      BY <3>2 DEF Indexed
    <3>3. CASE nActivePreset' = nActivePreset /\ past' = past \cup {"shifted", "untold"}
      BY <3>1, <3>3 DEF Indexed
    <3>4. CASE /\ nActivePreset' = nActivePreset /\ past' = past
               /\ active_preset' = active_preset
      BY <3>1, <3>4 DEF Indexed
    <3> QED BY <1>10, <3>1, <3>2, <3>3, <3>4, ActiveRemoved
  <2>2. sync' \in BOOLEAN /\ past' \subseteq {"slot", "preset", "left", "shifted", "untold", "echo"}
    BY <1>10, ActiveRemoved
  <2> QED BY <1>10, <2>1, <2>2 DEF RemovePreset
<1>11. CASE ScanPresets
  <2>1. Indexed'
    BY <1>11, IndexStep DEF ScanPresets
  <2> QED BY <1>11, <2>1 DEF ScanPresets
<1>12. CASE SetPresetTab
  BY <1>12, IndexStep DEF SetPresetTab
<1>13. CASE MainIteration
  <2>1. (dirty /\ active_preset # NoPreset) \in BOOLEAN
    OBVIOUS
  <2>2. active_preset \in Preset \cup {NoPreset}
    OBVIOUS
  <2>3. told' \in [name : Preset \cup {NoPreset}, dirty : BOOLEAN]
    BY <1>13, <2>1, <2>2, Zenon DEF MainIteration
  <2>4. Indexed'
    BY <1>13, IndexStep DEF MainIteration
  <2> QED BY <1>13, <2>3, <2>4 DEF MainIteration
<1>14. CASE CopyPresetData
  <2>1. vPresetData' \in [Slot -> [data : Settings \cup {Absent}, dirty : BOOLEAN]]
    BY <1>14, SerializedSlots, OtherSlot DEF CopyPresetData, active
  <2> QED BY <1>14, <2>1, IndexStep DEF CopyPresetData
<1>15. CASE SwitchPresetData
  <2>1. SwitchKeep \in [Slot -> [data : Settings \cup {Absent}, dirty : BOOLEAN]]
    BY SerializedSlots DEF SwitchKeep, active
  <2>2. vPresetData' \in [Slot -> [data : Settings \cup {Absent}, dirty : BOOLEAN]]
    BY <1>15, <2>1, MarkedSlots DEF SwitchPresetData
  <2>3. Other(active) \in Slot
    BY OtherSlot DEF active
  <2>4. Indexed'
    BY <1>15, IndexStep DEF SwitchPresetData, Chosen
  <2>5. dirty' \in BOOLEAN /\ sync' \in BOOLEAN
    <3> DEFINE new == vPresetData[Other(active)].data
               index == IF new = Absent THEN INVALID_PRESET_INDEX ELSE nActivePreset
    <3>1. (get(vPresets, index) # NoPreset) \in BOOLEAN /\ (new = Absent) \in BOOLEAN
      OBVIOUS
    <3>2. /\ dirty' = IF new = Absent THEN FALSE ELSE dirty \/ get(vPresets, index) # NoPreset
          /\ sync' = (sync \/ new = Absent \/ (get(vPresets, index) # NoPreset /\ ~dirty))
      BY <1>15 DEF SwitchPresetData
    <3> HIDE DEF new, index
    <3>3. dirty' \in BOOLEAN
      BY <3>1, <3>2, Zenon
    <3> QED BY <3>1, <3>2, <3>3, Zenon
  <2> QED BY <1>15, <2>2, <2>3, <2>4, <2>5 DEF SwitchPresetData
<1>16. CASE UNCHANGED vars
  BY <1>16, IndexStep DEF vars
<1> QED
  BY <1>1, <1>2, <1>3, <1>4, <1>5, <1>6, <1>7, <1>8, <1>9, <1>10, <1>11, <1>12,
     <1>13, <1>14, <1>15, <1>16 DEF Next, ImportSettings

LEMMA TypeInvariant == Spec => [](TypeOK /\ FactoryKept)
<1>1. Init => TypeOK /\ FactoryKept
  <2> SUFFICES ASSUME Init PROVE TypeOK /\ FactoryKept
    OBVIOUS
  <2>1. vPresetData \in [Slot -> [data : Settings \cup {Absent}, dirty : BOOLEAN]]
    BY DEF Init
  <2>2. told \in [name : Preset \cup {NoPreset}, dirty : BOOLEAN]
    BY DEF Init
  <2>3. content \in [Preset -> Settings \cup {Absent}] /\ FactoryKept
    BY DEF Init, FactoryKept
  <2>4. Factory \subseteq vPresets /\ vPresets \subseteq Preset
    BY <2>3 DEF Init, FactoryKept, Preset
  <2>5. QED
    BY <2>1, <2>2, <2>3, <2>4, PresetAssumption DEF Init, TypeOK, Slot
<1>2. QED
  BY <1>1, TypeStep, PTL DEF Spec

THEOREM TypeCorrect == Spec => []TypeOK
BY TypeInvariant, PTL

-----------------------------------------------------------------------------
(* A and B.                                                                *)

(* What the switch relies on: the data of the active slot are what the     *)
(* ports hold, or the slot is marked or empty and will be stored before it *)
(* is left, or the ports were changed past the marks.                      *)
ActiveSlot ==
  \/ "slot" \in past
  \/ vPresetData[active].data \in {Absent, settings}
  \/ vPresetData[active].dirty

LEMMA SlotsStep ==
  TypeOK /\ SlotsKept /\ ActiveSlot /\ [Next]_vars => SlotsKept' /\ ActiveSlot'
<1> SUFFICES ASSUME TypeOK, SlotsKept, ActiveSlot, [Next]_vars
             PROVE  SlotsKept' /\ ActiveSlot'
  OBVIOUS
<1>0. /\ active \in Slot /\ Other(active) \in Slot /\ Other(active) # active
      /\ Other(Other(active)) = active
      /\ vPresetData \in [Slot -> [data : Settings \cup {Absent}, dirty : BOOLEAN]]
  BY OtherSlot DEF TypeOK, active
(* Ports that mark the active slot. *)
<1>1. ASSUME NEW changed \in BOOLEAN,
             vPresetData' = Marked(vPresetData, changed),
             changed \/ settings' = settings,
             past \cap {"left", "slot"} \subseteq past',
             UNCHANGED <<nActivePresetData, left>>
      PROVE  SlotsKept' /\ ActiveSlot'
  <2>1. /\ \A s \in Slot : vPresetData'[s].data = vPresetData[s].data
        /\ vPresetData'[active].dirty = (vPresetData[active].dirty \/ changed)
    BY <1>0, <1>1, MarkedSlots
  <2>2. active' = active
    BY <1>1 DEF active
  <2>3. SlotsKept'
    BY <1>0, <1>1, <2>1, <2>2 DEF SlotsKept
  <2>4. ActiveSlot'
    BY <1>0, <1>1, <2>1, <2>2 DEF ActiveSlot
  <2>5. QED
    BY <2>3, <2>4
(* Settings that go past the marks, and steps that leave them alone. *)
<1>2. ASSUME "slot" \in past' \/ settings' = settings,
             past \cap {"left", "slot"} \subseteq past',
             UNCHANGED <<vPresetData, nActivePresetData, left>>
      PROVE  SlotsKept' /\ ActiveSlot'
  <2>1. active' = active
    BY <1>2 DEF active
  <2>2. SlotsKept'
    BY <1>2, <2>1 DEF SlotsKept
  <2>3. ActiveSlot'
    BY <1>2, <2>1 DEF ActiveSlot
  <2>4. QED
    BY <2>2, <2>3
<1>3. ASSUME NEW v \in Settings, Edit(v) PROVE SlotsKept' /\ ActiveSlot'
  BY <1>1, <1>3 DEF Edit
<1>4. ASSUME NEW v \in Settings, Automated(v) PROVE SlotsKept' /\ ActiveSlot'
  BY <1>2, <1>4 DEF Automated
<1>5. ASSUME NEW v \in Settings, NEW state \in PresetState, ReceivePresetState(v, state)
      PROVE  SlotsKept' /\ ActiveSlot'
  BY <1>2, <1>5 DEF ReceivePresetState, Chosen
<1>6. CASE ResetSettings
  <2>1. /\ (settings # Default) \in BOOLEAN
        /\ vPresetData' = Marked(vPresetData, settings # Default)
        /\ settings # Default \/ settings' = settings
        /\ past \cap {"left", "slot"} \subseteq past'
        /\ UNCHANGED <<nActivePresetData, left>>
    BY <1>6 DEF ResetSettings, Chosen
  <2> QED BY <1>1, <2>1
<1>7. ASSUME NEW p \in vPresets, NEW force \in BOOLEAN, SelectActivePreset(p, force)
      PROVE  SlotsKept' /\ ActiveSlot'
  BY <1>2, <1>7 DEF SelectActivePreset, Chosen
<1>8. CASE ReceiveEcho \/ ScanPresets \/ SetPresetTab \/ MainIteration
  BY <1>2, <1>8 DEF ReceiveEcho, ScanPresets, SetPresetTab, MainIteration
<1>9. ASSUME NEW p \in User, SavePreset(p) \/ SavePresetFails(p) \/ RemovePreset(p)
      PROVE  SlotsKept' /\ ActiveSlot'
  <2>1. past \cap {"left", "slot"} \subseteq past'
    BY <1>9, ActiveRemoved DEF SavePreset, SavePresetFails, Chosen
  <2> QED BY <1>2, <1>9, <2>1 DEF SavePreset, SavePresetFails, RemovePreset
<1>10. CASE CopyPresetData
  <2>1. /\ vPresetData'[Other(active)].data = settings
        /\ vPresetData'[active] = vPresetData[active]
    BY <1>0, <1>10, SerializedSlots DEF CopyPresetData
  <2>2. active' = active
    BY <1>10 DEF CopyPresetData, active
  <2>3. SlotsKept'
    BY <1>10, <2>1, <2>2 DEF SlotsKept, CopyPresetData
  <2>4. ActiveSlot'
    BY <1>10, <2>1, <2>2 DEF ActiveSlot, CopyPresetData
  <2>5. QED
    BY <2>3, <2>4
<1>11. CASE SwitchPresetData
  <2> DEFINE new == vPresetData[Other(active)].data
             loaded == IF new = Absent THEN Default ELSE new
  <2>1. /\ SwitchKeep \in [Slot -> [data : Settings \cup {Absent}, dirty : BOOLEAN]]
        /\ SwitchKeep[Other(active)].data = new
        /\ SwitchKeep[active].data = settings \/ "slot" \in past
    <3>1. CASE vPresetData[active].data = Absent \/ vPresetData[active].dirty
      BY <1>0, <3>1, SerializedSlots DEF SwitchKeep
    <3>2. CASE vPresetData[active].data # Absent /\ ~vPresetData[active].dirty
      BY <1>0, <3>2 DEF SwitchKeep, ActiveSlot
    <3>3. QED
      BY <3>1, <3>2
  <2>2. \A s \in Slot : vPresetData'[s].data = SwitchKeep[s].data
    <3>1. vPresetData' = Marked(SwitchKeep, loaded # settings)
      BY <1>11 DEF SwitchPresetData
    <3>2. (loaded # settings) \in BOOLEAN
      OBVIOUS
    <3>3. \A changed \in BOOLEAN : \A s \in Slot :
            Marked(SwitchKeep, changed)[s].data = SwitchKeep[s].data
      BY <2>1, MarkedSlots
    <3>4. QED
      BY <3>1, <3>2, <3>3, Zenon
  <2>3. active' = Other(active)
    BY <1>11 DEF SwitchPresetData, active
  <2>4. /\ settings' = loaded /\ left' = settings
        /\ "slot" \in past => "left" \in past'
    BY <1>11 DEF SwitchPresetData, Chosen
  <2>5. SlotsKept'
    <3>1. Other(active)' = active
      BY <1>0, <2>3 DEF Other
    <3>2. QED
      BY <1>0, <2>1, <2>2, <2>4, <3>1 DEF SlotsKept
  <2>6. ActiveSlot'
    BY <1>0, <2>1, <2>2, <2>3, <2>4 DEF ActiveSlot
  <2>7. QED
    BY <2>5, <2>6
<1>12. CASE UNCHANGED vars
  BY <1>2, <1>12 DEF vars
<1>13. ASSUME NEW force \in BOOLEAN, DeselectActivePreset(force)
       PROVE  SlotsKept' /\ ActiveSlot'
  BY <1>2, <1>13 DEF DeselectActivePreset, Chosen
<1> QED
  BY <1>3, <1>4, <1>5, <1>6, <1>7, <1>8, <1>9, <1>10, <1>11, <1>12, <1>13
     DEF Next, ImportSettings

(* switch_preset_data() back to a slot brings back the settings it was     *)
(* left with, unless an import or the host put them there.                 *)
THEOREM SwitchKeepsSlots == Spec => []SlotsKept
<1>1. Init => SlotsKept /\ ActiveSlot
  BY OtherSlot DEF Init, SlotsKept, ActiveSlot, active, Slot, Other
<1>2. QED
  BY <1>1, SlotsStep, TypeInvariant, PTL DEF Spec

-----------------------------------------------------------------------------
(* The preset that is shown and the plugin.                                *)

(* A step keeps the active preset, has none, or takes one of the list. *)
LEMMA ActiveStep ==
  ASSUME TypeOK, TypeOK'
  PROVE  /\ active_preset \in vPresets \cup {NoPreset}
         /\ NoPreset \notin vPresets
         /\ nActivePreset = INVALID_PRESET_INDEX => active_preset = NoPreset
         /\ nActivePreset' = INVALID_PRESET_INDEX => active_preset' = NoPreset
         /\ UNCHANGED <<vPresets, nActivePreset>> => active_preset' = active_preset
         /\ \A p \in Preset \cup {NoPreset} :
              nActivePreset' = index_of(vPresets', p)
                => active_preset' = IF p \in vPresets' THEN p ELSE NoPreset
<1>1. vPresets' \in SUBSET Preset
  BY DEF TypeOK
<1>2. NoPreset \notin vPresets
  BY PresetAssumption DEF TypeOK, Preset
<1> QED BY <1>1, <1>2, ActivePreset

(* After switch_preset_data() there is no active preset or the same one,   *)
(* which is then marked, and to be told of when it was not marked before.  *)
LEMMA ActiveSwitched ==
  ASSUME TypeOK, TypeOK', SwitchPresetData
  PROVE  \/ active_preset' = NoPreset /\ sync' = TRUE
         \/ /\ active_preset' = active_preset /\ past' \cap Chosen = past \cap Chosen
            /\ "untold" \in past' <=> "untold" \in past
            /\ dirty' = (dirty \/ active_preset # NoPreset)
            /\ sync' = (sync \/ (active_preset # NoPreset /\ ~dirty))
<1> DEFINE new == vPresetData[Other(active)].data
<1>1. CASE new = Absent
  <2>1. nActivePreset' = INVALID_PRESET_INDEX /\ sync' = TRUE
    BY <1>1 DEF SwitchPresetData
  <2> QED BY <2>1, ActiveStep
<1>2. CASE new # Absent
  <2>1. /\ UNCHANGED <<vPresets, nActivePreset>>
        /\ dirty' = (dirty \/ get(vPresets, nActivePreset) # NoPreset)
        /\ sync' = (sync \/ (get(vPresets, nActivePreset) # NoPreset /\ ~dirty))
    BY <1>2 DEF SwitchPresetData
  <2>2. /\ past' \cap Chosen = past \cap Chosen
        /\ "untold" \in past' <=> "untold" \in past
    BY <1>2 DEF SwitchPresetData, Chosen
  <2> QED BY <2>1, <2>2, ActiveStep DEF active_preset
<1> QED BY <1>1, <1>2

LEMMA CleanStep ==
  TypeOK /\ TypeOK' /\ CleanIsPreset /\ [Next]_vars => CleanIsPreset'
<1> SUFFICES ASSUME TypeOK, TypeOK', CleanIsPreset, [Next]_vars PROVE CleanIsPreset'
  OBVIOUS
<1>0. /\ content \in [Preset -> Settings \cup {Absent}] /\ User \subseteq Preset
      /\ vPresets \subseteq Preset /\ vPresets' \subseteq Preset
      /\ told.name \in Preset \cup {NoPreset}
      /\ active_preset \in Preset \cup {NoPreset}
  BY ActiveStep DEF TypeOK, Preset
<1>1. ASSUME NEW v \in Settings, Edit(v) PROVE CleanIsPreset'
  <2>1. active_preset' = active_preset /\ dirty' = (dirty \/ active_preset # NoPreset)
    BY <1>1, ActiveStep DEF Edit
  <2> QED BY <2>1 DEF CleanIsPreset
<1>2. ASSUME NEW v \in Settings, Automated(v) PROVE CleanIsPreset'
  BY <1>2 DEF Automated, CleanIsPreset, Chosen
<1>3. ASSUME NEW v \in Settings, NEW state \in PresetState, ReceivePresetState(v, state)
      PROVE  CleanIsPreset'
  BY <1>3 DEF ReceivePresetState, CleanIsPreset, Chosen
<1>4. CASE ReceiveEcho
  <2>1. CASE told.name = active_preset /\ told.dirty = dirty
    <3>1. active_preset' = IF told.name \in vPresets' THEN told.name ELSE NoPreset
      BY <1>0, <1>4, ActiveStep DEF ReceiveEcho, Received
    <3>2. UNCHANGED <<settings, content, dirty>> /\ past \cap Chosen \subseteq past'
      BY <1>4, <2>1 DEF ReceiveEcho, Received, Chosen
    <3> QED BY <2>1, <3>1, <3>2 DEF CleanIsPreset
  <2>2. CASE ~ (told.name = active_preset /\ told.dirty = dirty)
    BY <1>4, <2>2 DEF ReceiveEcho, CleanIsPreset, Chosen
  <2> QED BY <2>1, <2>2
<1>5. ASSUME NEW force \in BOOLEAN, ResetSettings \/ DeselectActivePreset(force)
      PROVE  CleanIsPreset'
  <2>1. nActivePreset' = INVALID_PRESET_INDEX
    BY <1>5 DEF ResetSettings, DeselectActivePreset
  <2> QED BY <2>1, ActiveStep DEF CleanIsPreset
<1>6. ASSUME NEW p \in vPresets, NEW force \in BOOLEAN, SelectActivePreset(p, force)
      PROVE  CleanIsPreset'
  <2>1. active_preset' = p
    BY <1>0, <1>6, ActiveStep DEF SelectActivePreset
  <2> QED BY <1>6, <2>1 DEF SelectActivePreset, CleanIsPreset
<1>7. ASSUME NEW p \in User, SavePreset(p) PROVE CleanIsPreset'
  <2>1. active_preset' = p
    BY <1>0, <1>7, ActiveStep DEF SavePreset
  <2>2. content'[p] = settings /\ settings' = settings
    BY <1>0, <1>7 DEF SavePreset
  <2> QED BY <2>1, <2>2 DEF CleanIsPreset
<1>8. ASSUME NEW p \in User, SavePresetFails(p) PROVE CleanIsPreset'
  <2>1. active_preset' = active_preset
    BY <1>8, ActiveStep DEF SavePresetFails
  <2>2. /\ \A q \in Preset : content'[q] \in {content[q], Absent}
        /\ UNCHANGED <<settings, dirty, past>>
    BY <1>0, <1>8 DEF SavePresetFails
  <2> QED BY <1>0, <2>1, <2>2 DEF CleanIsPreset
<1>9. ASSUME NEW p \in User, RemovePreset(p) PROVE CleanIsPreset'
  <2>1. CASE active_preset' = NoPreset
    BY <2>1 DEF CleanIsPreset
  <2>2. CASE past' = past \cup {"shifted", "untold"}
    BY <2>2 DEF CleanIsPreset, Chosen
  <2>3. CASE past' = past /\ active_preset' = active_preset /\ active_preset # p
    <3>1. /\ \A q \in Preset \ {p} : content'[q] = content[q]
          /\ UNCHANGED <<settings, dirty>>
      BY <1>0, <1>9 DEF RemovePreset
    <3> QED BY <1>0, <2>3, <3>1 DEF CleanIsPreset
  <2> QED BY <1>9, <2>1, <2>2, <2>3, ActiveRemoved
<1>10. CASE ScanPresets
  <2>1. active_preset' = IF active_preset \in vPresets' THEN active_preset ELSE NoPreset
    BY <1>0, <1>10, ActiveStep DEF ScanPresets
  <2> QED BY <1>10, <2>1 DEF ScanPresets, CleanIsPreset
<1>11. CASE SetPresetTab \/ MainIteration \/ CopyPresetData
  <2>1. active_preset' = active_preset
    BY <1>11, ActiveStep DEF SetPresetTab, MainIteration, CopyPresetData
  <2>2. UNCHANGED <<settings, content, dirty>> /\ past \cap Chosen \subseteq past'
    BY <1>11 DEF SetPresetTab, MainIteration, CopyPresetData, Chosen
  <2> QED BY <2>1, <2>2 DEF CleanIsPreset
<1>12. CASE SwitchPresetData
  <2>1. CASE active_preset' = NoPreset
    BY <2>1 DEF CleanIsPreset
  <2>2. CASE active_preset' = active_preset /\ dirty' = (dirty \/ active_preset # NoPreset)
    BY <2>2 DEF CleanIsPreset
  <2> QED BY <1>12, <2>1, <2>2, ActiveSwitched
<1>13. CASE UNCHANGED vars
  <2>1. active_preset' = active_preset
    BY <1>13, ActiveStep DEF vars
  <2> QED BY <1>13, <2>1 DEF vars, CleanIsPreset
<1> QED
  BY <1>1, <1>2, <1>3, <1>4, <1>5, <1>6, <1>7, <1>8, <1>9, <1>10, <1>11, <1>12,
     <1>13 DEF Next, ImportSettings

(* A preset shown as unchanged is what the ports hold, but for a lost      *)
(* file, settings that came from the host or an import, an index that      *)
(* remove_preset() of an earlier one left to another preset, and an        *)
(* earlier choice that came back in place of a later one.                  *)
THEOREM CleanShowsPreset == Spec => []CleanIsPreset
<1>1. Init => CleanIsPreset
  <2> SUFFICES ASSUME Init PROVE CleanIsPreset
    OBVIOUS
  <2>1. vPresets \in SUBSET Preset /\ nActivePreset = INVALID_PRESET_INDEX
    BY DEF Init
  <2>2. active_preset = NoPreset
    BY <2>1, GetIndex DEF active_preset
  <2> QED BY <2>2 DEF CleanIsPreset
<1>2. QED
  BY <1>1, CleanStep, TypeInvariant, PTL DEF Spec

(* Only presets of the list have content, so a scan of the directories     *)
(* never brings a preset back that the plugin was told of.                 *)
Listed == \A p \in Preset : content[p] # Absent => p \in vPresets

LEMMA ListedStep ==
  TypeOK /\ Listed /\ [Next]_vars => Listed'
<1> SUFFICES ASSUME TypeOK, Listed, [Next]_vars PROVE Listed'
  OBVIOUS
<1>1. content \in [Preset -> Settings \cup {Absent}] /\ User \subseteq Preset
  BY DEF TypeOK, Preset
<1>2. CASE UNCHANGED <<content, vPresets>>
  BY <1>2 DEF Listed
<1>3. ASSUME NEW p \in User, SavePreset(p) \/ SavePresetFails(p) \/ RemovePreset(p)
      PROVE  Listed'
  BY <1>1, <1>3 DEF Listed, SavePreset, SavePresetFails, RemovePreset
<1>4. CASE ScanPresets
  BY <1>4 DEF Listed, ScanPresets
<1> QED
  BY <1>2, <1>3, <1>4 DEF Next, vars, Edit, Automated, ImportSettings,
     ReceivePresetState, ReceiveEcho, ResetSettings, SelectActivePreset,
     DeselectActivePreset, SetPresetTab, MainIteration, CopyPresetData,
     SwitchPresetData

LEMMA ToldStep ==
  TypeOK /\ TypeOK' /\ Listed /\ PluginTold /\ [Next]_vars => PluginTold'
<1> SUFFICES ASSUME TypeOK, TypeOK', Listed, PluginTold, [Next]_vars PROVE PluginTold'
  OBVIOUS
<1>0. /\ vPresets \subseteq Preset /\ vPresets' \subseteq Preset
      /\ told.name \in Preset \cup {NoPreset}
      /\ active_preset \in vPresets \cup {NoPreset} /\ NoPreset \notin vPresets
      /\ dirty \in BOOLEAN /\ sync \in BOOLEAN
  BY ActiveStep DEF TypeOK
(* Steps that have the plugin told, and those that change nothing it knows. *)
<1>1. CASE sync' = TRUE
  BY <1>1 DEF PluginTold
<1>2. ASSUME sync' = sync, active_preset' = active_preset, told' = told,
             vPresets' \subseteq vPresets, "untold" \in past => "untold" \in past',
             active_preset = NoPreset \/ dirty' = dirty
      PROVE  PluginTold'
  BY <1>2 DEF PluginTold
<1>3. ASSUME NEW v \in Settings, Edit(v) PROVE PluginTold'
  <2>1. /\ active_preset' = active_preset
        /\ dirty' = (dirty \/ active_preset # NoPreset)
        /\ sync' = (sync \/ (active_preset # NoPreset /\ ~dirty))
    BY <1>3, ActiveStep DEF Edit
  <2>2. UNCHANGED <<told, past, vPresets>>
    BY <1>3 DEF Edit
  <2>3. CASE active_preset # NoPreset /\ ~dirty
    BY <1>1, <2>1, <2>3
  <2>4. CASE active_preset = NoPreset \/ dirty
    <3>1. sync' = sync /\ (active_preset = NoPreset \/ dirty' = dirty)
      BY <1>0, <2>1, <2>4
    <3> QED BY <1>2, <2>1, <2>2, <3>1
  <2> QED BY <2>3, <2>4
<1>4. ASSUME NEW v \in Settings, Automated(v) PROVE PluginTold'
  <2>1. active_preset' = active_preset
    BY <1>4, ActiveStep DEF Automated
  <2> QED BY <1>2, <1>4, <2>1 DEF Automated
<1>5. ASSUME NEW v \in Settings, NEW state \in PresetState, ReceivePresetState(v, state)
      PROVE  PluginTold'
  <2>1. state.name \in Preset \cup {NoPreset}
    BY DEF PresetState
  <2>2. active_preset' = IF state.name \in vPresets' THEN state.name ELSE NoPreset
    BY <1>5, <2>1, ActiveStep DEF ReceivePresetState, Received
  <2>3. told' = state /\ dirty' = state.dirty
    BY <1>5 DEF ReceivePresetState, Received
  <2> QED BY <2>2, <2>3 DEF PluginTold
<1>6. CASE ReceiveEcho
  <2>1. active_preset' = IF told.name \in vPresets' THEN told.name ELSE NoPreset
    BY <1>0, <1>6, ActiveStep DEF ReceiveEcho, Received
  <2>2. told' = told /\ dirty' = told.dirty
    BY <1>6 DEF ReceiveEcho, Received
  <2> QED BY <2>1, <2>2 DEF PluginTold
<1>7. ASSUME NEW force \in BOOLEAN, DeselectActivePreset(force) PROVE PluginTold'
  <2>1. CASE nActivePreset # INVALID_PRESET_INDEX
    BY <1>1, <1>7, <2>1 DEF DeselectActivePreset
  <2>2. CASE nActivePreset = INVALID_PRESET_INDEX
    <3>1. active_preset = NoPreset /\ active_preset' = NoPreset
      BY <1>7, <2>2, ActiveStep DEF DeselectActivePreset
    <3>2. UNCHANGED <<told, vPresets>> /\ ("untold" \in past => "untold" \in past')
      BY <1>7 DEF DeselectActivePreset, Chosen
    <3>3. sync' = sync
      BY <1>0, <1>7, <2>2 DEF DeselectActivePreset
    <3> QED BY <1>2, <3>1, <3>2, <3>3
  <2> QED BY <2>1, <2>2
<1>8. ASSUME NEW p \in vPresets, NEW force \in BOOLEAN, SelectActivePreset(p, force)
      PROVE  PluginTold'
  BY <1>1, <1>8 DEF SelectActivePreset
<1>9. ASSUME NEW p \in User, SavePreset(p) PROVE PluginTold'
  BY <1>1, <1>9 DEF SavePreset
<1>10. ASSUME NEW p \in User, SavePresetFails(p) PROVE PluginTold'
  <2>1. active_preset' = active_preset
    BY <1>10, ActiveStep DEF SavePresetFails
  <2> QED BY <1>2, <1>10, <2>1 DEF SavePresetFails
<1>11. ASSUME NEW p \in User, RemovePreset(p) PROVE PluginTold'
  <2>1. CASE sync' = TRUE
    BY <1>1, <2>1
  <2>2. CASE past' = past \cup {"shifted", "untold"}
    BY <2>2 DEF PluginTold
  <2>3. CASE past' = past /\ active_preset' = active_preset /\ sync' = sync
    <3>1. vPresets' \subseteq vPresets /\ told' = told /\ dirty' = dirty
      BY <1>11 DEF RemovePreset
    <3> QED BY <1>2, <2>3, <3>1
  <2> QED BY <1>11, <2>1, <2>2, <2>3, ActiveRemoved
<1>12. CASE ScanPresets
  <2>1. active_preset' = IF active_preset \in vPresets' THEN active_preset ELSE NoPreset
    BY <1>0, <1>12, ActiveStep DEF ScanPresets
  <2>2. vPresets' \subseteq vPresets /\ UNCHANGED <<told, dirty, sync, past>>
    BY <1>12 DEF ScanPresets, Listed
  <2> QED BY <1>0, <2>1, <2>2 DEF PluginTold
<1>13. CASE MainIteration
  <2>1. told'.name = active_preset /\ told'.dirty = (dirty /\ active_preset # NoPreset)
    BY <1>13 DEF MainIteration
  <2>2. active_preset' = active_preset /\ dirty' = dirty
    BY <1>13, ActiveStep DEF MainIteration
  <2>3. active_preset # NoPreset => told'.dirty = dirty
    BY <1>0, <2>1
  <2> QED BY <2>1, <2>2, <2>3 DEF PluginTold
<1>14. CASE ResetSettings \/ SetPresetTab
  BY <1>1, <1>14 DEF ResetSettings, SetPresetTab
<1>15. CASE CopyPresetData
  <2>1. active_preset' = active_preset
    BY <1>15, ActiveStep DEF CopyPresetData
  <2> QED BY <1>2, <1>15, <2>1 DEF CopyPresetData
<1>16. CASE SwitchPresetData
  <2>1. CASE sync' = TRUE
    BY <1>1, <2>1
  <2>2. CASE /\ active_preset' = active_preset
             /\ "untold" \in past' <=> "untold" \in past
             /\ dirty' = (dirty \/ active_preset # NoPreset)
             /\ sync' = (sync \/ (active_preset # NoPreset /\ ~dirty))
    <3>1. UNCHANGED <<told, vPresets>>
      BY <1>16 DEF SwitchPresetData
    <3>2. CASE active_preset # NoPreset /\ ~dirty
      BY <1>1, <2>2, <3>2
    <3>3. CASE active_preset = NoPreset \/ dirty
      <4>1. sync' = sync /\ (active_preset = NoPreset \/ dirty' = dirty)
        BY <1>0, <2>2, <3>3
      <4> QED BY <1>2, <2>2, <3>1, <4>1
    <3> QED BY <3>2, <3>3
  <2> QED BY <1>16, <2>1, <2>2, ActiveSwitched
<1>17. CASE UNCHANGED vars
  <2>1. active_preset' = active_preset
    BY <1>17, ActiveStep DEF vars
  <2> QED BY <1>2, <1>17, <2>1 DEF vars
<1> QED
  BY <1>3, <1>4, <1>5, <1>6, <1>7, <1>8, <1>9, <1>10, <1>11, <1>12, <1>13, <1>14,
     <1>15, <1>16, <1>17 DEF Next, ImportSettings

(* When the user interface has nothing left to tell, the plugin has the    *)
(* preset and the mark the user sees, unless that preset vanished with its *)
(* file or remove_preset() of an earlier one has moved the index since.    *)
THEOREM PluginKnows == Spec => []PluginTold
<1>1. Init => Listed /\ PluginTold
  <2> SUFFICES ASSUME Init PROVE Listed /\ PluginTold
    OBVIOUS
  <2>1. vPresets \in SUBSET Preset /\ nActivePreset = INVALID_PRESET_INDEX
    BY DEF Init
  <2>2. active_preset = NoPreset
    BY <2>1, GetIndex DEF active_preset
  <2> QED BY <2>2 DEF Init, Listed, PluginTold
<1>2. QED
  BY <1>1, ToldStep, ListedStep, TypeInvariant, PTL DEF Spec

=============================================================================
