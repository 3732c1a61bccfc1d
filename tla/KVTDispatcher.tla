--------------------------- MODULE KVTDispatcher ----------------------------
(***************************************************************************)
(* core::KVTDispatcher (src/main/core/KVTDispatcher.cpp): the thread that  *)
(* keeps the KVT of the plugin (DSP) and the KVT of its user interface in  *)
(* step, with the direct UI of the LV2 wrapper at the other end.           *)
(*                                                                         *)
(* The storage is seen through what it promises (KVTMap: a value and the   *)
(* TX and RX marks per path), the buffers with room counted in packets.  A *)
(* packet names a parameter and its value.  The dispatcher's thread holds  *)
(* the KVT mutex whenever it is not "away"; nClients, nTxRequest and pRx   *)
(* are used without the mutex, so each access is a step of its own.        *)
(*                                                                         *)
(* Both ends take the mutex to use pTx, so it is the queue it promises to  *)
(* be (OscQueue).  The UI submits to pRx while the dispatcher fetches from *)
(* it or clears it.  submit() stores an nSize it computed from a value     *)
(* loaded before, so nSize may count records that are not there, and a     *)
(* fetch() beyond the last record finds what the memory of the ring held.  *)
(***************************************************************************)
EXTENDS Integers, Sequences

CONSTANTS
  Key,       \* the parameters
  Value, NULL,
  Hidden,    \* parameters with KVT_PRIVATE
  Large,     \* parameters too large for a packet
  Room,      \* how many packets pTx and pRx hold
  MaxDsp, MaxUi, MaxConnects   \* bounds: changes on each side, connections

ASSUME DispatcherAssumption ==
  /\ Hidden \subseteq Key /\ Large \subseteq Key /\ NULL \notin Value
  /\ Room \in Nat \ {0} /\ MaxDsp \in Nat /\ MaxUi \in Nat /\ MaxConnects \in Nat

NONE == [key |-> NULL, size |-> 0]

VARIABLES
  store, tx,       \* the storage of the plugin: values and TX marks
  pTx, pRx,        \* the packets on the way to the UI and to the plugin
  nSize,           \* the records pRx counts
  sending,         \* the submit() to pRx in progress: its parameter and the
                   \* count it will store, or NONE
  torn,            \* head and tail of pRx no longer enclose whole records
  sent,            \* the parameters the memory of pRx may tell of
  nClients, nTxRequest,
  at,              \* where the dispatcher's thread is in iterate()
  ui,              \* "off", "connecting" or "on"
  uiStore, uiRx,   \* the storage of the UI: values and RX marks
  clash,           \* history: parameters both sides changed at a time, or lost
  count            \* how often each bounded action was taken

dspVars == <<store, tx>>
clientVars == <<nClients, nTxRequest, ui>>
uiVars == <<uiStore, uiRx, sending, sent>>
rxVars == <<pRx, nSize, torn>>
vars == <<dspVars, pTx, rxVars, at, clientVars, uiVars, clash, count>>

Packet == [key : Key, value : Value]
Keys(q) == {q[i].key : i \in DOMAIN q}

IsLast(q, k, i) ==
  /\ i \in DOMAIN q /\ q[i].key = k
  /\ \A j \in DOMAIN q : q[j].key = k => j <= i

(* The value a reader ends up with that applies the packets of q in order. *)
Latest(q, k, old) ==
  IF k \in Keys(q) THEN q[CHOOSE i \in DOMAIN q : IsLast(q, k, i)].value ELSE old

Init ==
  /\ store = [k \in Key |-> NULL] /\ tx = {}
  /\ pTx = <<>> /\ pRx = <<>> /\ nSize = 0
  /\ sending = NONE /\ torn = FALSE /\ sent = {}
  /\ nClients = 0 /\ nTxRequest = 0
  /\ at = "away"
  /\ ui = "off" /\ uiStore = [k \in Key |-> NULL] /\ uiRx = {}
  /\ clash = {}
  /\ count = [dsp |-> 0, ui |-> 0, connects |-> 0]

(* A value is on its way to the UI, or to the plugin. *)
GoingDown(k) == k \in tx \cup Keys(pTx) \/ nTxRequest > 0 \/ at = "touched"
GoingUp(k) == k \in uiRx \cup Keys(pRx)

-----------------------------------------------------------------------------
(* The dispatcher's thread: one round of iterate().                        *)

Lock ==
  /\ at = "away" /\ at' = "count"
  /\ UNCHANGED <<dspVars, pTx, rxVars, nTxRequest, clash>>

(* "if (atomic_load(&nClients) > 0)" *)
Count ==
  /\ at = "count" /\ at' = IF nClients > 0 THEN "request" ELSE "clear"
  /\ UNCHANGED <<dspVars, pTx, rxVars, nTxRequest, clash>>

(* Slip: the counter is taken back whether it was raised or not. *)
RequestAlways ==
  /\ at = "request"
  /\ tx' = tx \cup {k \in Key \ Hidden : store[k] # NULL}
  /\ at' = "touched"
  /\ UNCHANGED <<store, pTx, rxVars, nTxRequest, clash>>

(* nTxRequest is read and touch_all(KVT_TX) marks what is not private. *)
Request ==
  /\ at = "request"
  /\ IF nTxRequest > 0
     THEN /\ tx' = tx \cup {k \in Key \ Hidden : store[k] # NULL}
          /\ at' = "touched"
     ELSE at' = "receive" /\ UNCHANGED tx
  /\ UNCHANGED <<store, pTx, rxVars, nTxRequest, clash>>

Requested ==
  /\ at = "touched" /\ at' = "receive"
  /\ nTxRequest' = nTxRequest - 1
  /\ UNCHANGED <<dspVars, pTx, rxVars, clash>>

(* receive_changes(): parse_message() puts the value.  The KVT_RX mark it  *)
(* puts with it is for the plugin; nothing here reads it.                  *)
Receive ==
  /\ at = "receive"
  /\ IF nSize = 0
     THEN at' = "transmit" /\ UNCHANGED <<store, rxVars>>
     ELSE /\ pRx # <<>>
          /\ store' = [store EXCEPT ![Head(pRx).key] = Head(pRx).value]
          /\ pRx' = Tail(pRx)
          /\ nSize' = nSize - 1
          /\ UNCHANGED <<at, torn>>
  /\ UNCHANGED <<tx, pTx, nTxRequest, clash>>

(* nSize counts a record that is not there, and what lies at nHead is      *)
(* taken for it: a record of an earlier lap of the ring, perhaps half      *)
(* overwritten; one that does not parse or is CORRUPTED, which ends the    *)
(* loop; one that is too large for the packet and skip() takes or not, and *)
(* in the latter case fetch() finds it again for ever.                     *)
ReceiveStale ==
  /\ at = "receive" /\ nSize > 0 /\ pRx = <<>>
  /\ torn' = TRUE
  /\ \/ /\ \E k \in sent, v \in Value : store' = [store EXCEPT ![k] = v]
        /\ nSize' = nSize - 1
        /\ UNCHANGED at
     \/ /\ \/ at' = "receive" /\ nSize' = nSize - 1
           \/ at' = "transmit" /\ nSize' \in {nSize, nSize - 1}
           \/ at' = "stuck" /\ nSize' = nSize
        /\ UNCHANGED store
  /\ UNCHANGED <<tx, pTx, pRx, nTxRequest, clash>>

(* Slip: a value that found no room in the buffer is committed as well. *)
TransmitAnyway(k) ==
  /\ at = "transmit"
  /\ k \in tx \ Hidden
  /\ pTx' = IF k \notin Large /\ Len(pTx) < Room
            THEN Append(pTx, [key |-> k, value |-> store[k]]) ELSE pTx
  /\ tx' = tx \ {k}
  /\ UNCHANGED <<store, rxVars, at, nTxRequest, clash>>

(* transmit_changes(): one pending parameter.  One that is too large is    *)
(* committed unsent, one that finds no room ends the loop and stays.       *)
Transmit(k) ==
  /\ at = "transmit"
  /\ k \in tx \ Hidden
  /\ IF k \in Large THEN tx' = tx \ {k} /\ UNCHANGED <<pTx, at>>
     ELSE IF Len(pTx) < Room
     THEN /\ pTx' = Append(pTx, [key |-> k, value |-> store[k]])
          /\ tx' = tx \ {k}
          /\ UNCHANGED at
     ELSE at' = "gc" /\ UNCHANGED <<pTx, tx>>
  /\ UNCHANGED <<store, rxVars, nTxRequest, clash>>

TransmitDone ==
  /\ at = "transmit" /\ at' = "gc"
  /\ tx \subseteq Hidden
  /\ UNCHANGED <<dspVars, pTx, rxVars, nTxRequest, clash>>

(* Nobody was connected when Count looked.  clear() of pRx sets nSize, *)
Clear ==
  /\ at = "clear"
  /\ pTx' = <<>> /\ pRx' = <<>> /\ nSize' = 0
  /\ torn' = (sending # NONE)
  /\ at' = "clearing"
  /\ clash' = clash \cup Keys(pRx)
  /\ UNCHANGED <<dspVars, nTxRequest>>

(* then nHead and nTail. *)
ClearEnd ==
  /\ at = "clearing" /\ at' = "gc"
  /\ UNCHANGED <<dspVars, pTx, rxVars, nTxRequest, clash>>

(* gc() and the unlock; values and marks stay what they are (KVTStorage). *)
Unlock ==
  /\ at = "gc" /\ at' = "away"
  /\ UNCHANGED <<dspVars, pTx, rxVars, nTxRequest, clash>>

Dispatcher ==
  /\ Lock \/ Count \/ Request \/ Requested \/ Receive \/ ReceiveStale
       \/ (\E k \in Key : Transmit(k)) \/ TransmitDone \/ Clear \/ ClearEnd \/ Unlock
  /\ UNCHANGED <<ui, nClients, uiVars, count>>

-----------------------------------------------------------------------------
(* The plugin, under the KVT mutex: it puts a value for the UI. *)
DspChange(k, v) ==
  /\ at = "away"
  /\ count.dsp < MaxDsp
  /\ store' = [store EXCEPT ![k] = v]
  /\ tx' = tx \cup {k}
  /\ clash' = IF GoingUp(k) THEN clash \cup {k} ELSE clash
  /\ count' = [count EXCEPT !.dsp = @ + 1]
  /\ UNCHANGED <<pTx, rxVars, at, clientVars, uiVars>>

-----------------------------------------------------------------------------
(* The user interface: one thread, busy while a submit() is in progress.   *)

(* connect_client() is two atomic steps.  A new UI starts with no values.  *)
Connect ==
  /\ ui = "off"
  /\ count.connects < MaxConnects
  /\ nClients' = nClients + 1
  /\ ui' = "connecting"
  /\ count' = [count EXCEPT !.connects = @ + 1]
  /\ UNCHANGED <<dspVars, pTx, rxVars, at, nTxRequest, uiVars, clash>>

ConnectRequest ==
  /\ ui = "connecting"
  /\ nTxRequest' = nTxRequest + 1
  /\ ui' = "on"
  /\ clash' = Keys(pRx)
  /\ UNCHANGED <<dspVars, pTx, rxVars, at, nClients, uiVars, count>>

(* Slip: the last client to leave takes the requests with it.  A request   *)
(* the dispatcher is serving is then counted off twice.                    *)
DisconnectReset ==
  /\ ui = "on" /\ sending = NONE
  /\ nClients' = nClients - 1
  /\ nTxRequest' = IF nClients = 1 THEN 0 ELSE nTxRequest
  /\ ui' = "off"
  /\ uiStore' = [k \in Key |-> NULL] /\ uiRx' = {}
  /\ UNCHANGED <<dspVars, pTx, rxVars, at, sending, sent, clash, count>>

(* disconnect_client(): atomic_add() returns the value before, so nobody   *)
(* takes the requests back.                                                *)
Disconnect ==
  /\ ui = "on" /\ sending = NONE
  /\ nClients' = nClients - 1
  /\ nTxRequest' = IF nClients = 0 THEN 0 ELSE nTxRequest
  /\ ui' = "off"
  /\ uiStore' = [k \in Key |-> NULL] /\ uiRx' = {}
  /\ UNCHANGED <<dspVars, pTx, rxVars, at, sending, sent, clash, count>>

(* receive_kvt_state(): with the mutex of the plugin's KVT, all packets. *)
UiReceive ==
  /\ ui = "on" /\ sending = NONE /\ at = "away"
  /\ pTx # <<>>
  /\ uiStore' = [k \in Key |-> Latest(pTx, k, uiStore[k])]
  /\ pTx' = <<>>
  /\ UNCHANGED <<dspVars, rxVars, at, clientVars, uiRx, sending, sent, clash, count>>

UiChange(k, v) ==
  /\ ui = "on" /\ sending = NONE
  /\ count.ui < MaxUi
  /\ uiStore' = [uiStore EXCEPT ![k] = v]
  /\ uiRx' = uiRx \cup {k}
  /\ clash' = IF GoingDown(k) THEN clash \cup {k} ELSE clash
  /\ count' = [count EXCEPT !.ui = @ + 1]
  /\ UNCHANGED <<dspVars, pTx, rxVars, at, clientVars, sending, sent>>

(* send_kvt_state(), without the mutex of the plugin's KVT: submit() loads *)
(* nSize and, when there is room, writes the record.  The mark is          *)
(* committed whether the packet was built and found room or not.  A record *)
(* written while clear() resets the positions may end up anywhere.         *)
UiSubmit(k) ==
  /\ ui = "on" /\ sending = NONE
  /\ k \in uiRx
  /\ IF k \notin Large /\ nSize < Room
     THEN /\ sending' = [key |-> k, size |-> nSize + 1]
          /\ sent' = sent \cup {k}
          /\ torn' = (torn \/ at = "clearing")
          /\ UNCHANGED <<uiRx, clash>>
     ELSE /\ uiRx' = uiRx \ {k}
          /\ clash' = clash \cup {k}
          /\ UNCHANGED <<sending, sent, torn>>
  /\ UNCHANGED <<dspVars, pTx, pRx, nSize, at, clientVars, uiStore, count>>

(* The end of submit(): nSize is stored, whatever was fetched or cleared   *)
(* since it was loaded.                                                    *)
UiStore ==
  /\ sending # NONE
  /\ nSize' = sending.size
  /\ pRx' = IF torn THEN pRx
            ELSE Append(pRx, [key |-> sending.key, value |-> uiStore[sending.key]])
  /\ uiRx' = uiRx \ {sending.key}
  /\ sending' = NONE
  /\ UNCHANGED <<dspVars, pTx, torn, sent, at, clientVars, uiStore, clash, count>>

(* receive_changes() turns round without an end. *)
Spin == at = "stuck" /\ UNCHANGED vars

Next ==
  \/ Dispatcher
  \/ \E k \in Key, v \in Value : DspChange(k, v) \/ UiChange(k, v)
  \/ \E k \in Key : UiSubmit(k)
  \/ Connect \/ ConnectRequest \/ Disconnect \/ UiReceive \/ UiStore \/ Spin

Spec == Init /\ [][Next]_vars

(* The thread runs until it is cancelled.  It sleeps after each round that *)
(* received nothing, so the UI, which polls, finds the mutex free again    *)
(* and again.  The same poll sends what the UI has to send.                *)
FairSpec == Spec /\ WF_vars(Dispatcher) /\ SF_vars(UiReceive)
                 /\ WF_vars(ConnectRequest)
                 /\ WF_vars(UiStore \/ \E k \in Key : UiSubmit(k))
-----------------------------------------------------------------------------
TypeOK ==
  /\ store \in [Key -> Value \cup {NULL}] /\ tx \subseteq Key
  /\ pTx \in Seq(Packet) /\ Len(pTx) <= Room
  /\ pRx \in Seq(Packet) /\ nSize \in 0..Room /\ Len(pRx) <= nSize
  /\ sending = NONE \/ sending \in [key : Key, size : 1..Room]
  /\ torn \in BOOLEAN /\ sent \subseteq Key
  /\ nClients = (IF ui = "off" THEN 0 ELSE 1)
  /\ nTxRequest \in 0..MaxConnects
  /\ at \in {"away", "count", "request", "touched", "receive", "transmit",
             "clear", "clearing", "gc", "stuck"}
  /\ ui \in {"off", "connecting", "on"}
  /\ uiStore \in [Key -> Value \cup {NULL}] /\ uiRx \subseteq Key
  /\ clash \subseteq Key
  /\ count \in [dsp : 0..MaxDsp, ui : 0..MaxUi, connects : 0..MaxConnects]

Visible == Key \ (Hidden \cup Large)

(* What a stale record may tell of: for these the code promises nothing. *)
Unsure == IF torn THEN sent ELSE {}

(* The two storages agree on a parameter unless a value is on its way,     *)
(* both sides changed it at a time, the UI's change was lost, or the       *)
(* buffer is torn and may tell of it: whatever the dispatcher does between *)
(* the UI's atomic steps, it loses no value, and a torn buffer spoils only *)
(* parameters that passed through it, until clear() makes it whole again.  *)
Agreement ==
  ui = "on" =>
    \A k \in Visible \ (clash \cup Unsure) :
      \/ GoingDown(k) \/ GoingUp(k)
      \/ uiStore[k] = store[k]

(* A UI that stays connected sees the plugin's values in the end, however  *)
(* often UIs came and went before it, unless the dispatcher is lost in the *)
(* buffer for ever.                                                        *)
UiCatchesUp ==
  <>[](ui = "on" /\ at # "stuck") =>
    <>[](\A k \in Visible \ (clash \cup Unsure) : uiStore[k] = store[k])
=============================================================================
