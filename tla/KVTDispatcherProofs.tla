------------------------ MODULE KVTDispatcherProofs -------------------------
(***************************************************************************)
(* Proofs about KVTDispatcher for every set of parameters, every size of   *)
(* the buffers and every number of connections: the types are kept, and    *)
(* the two storages agree on what is not on its way.                       *)
(***************************************************************************)
EXTENDS KVTDispatcher, SequenceTheorems, TLAPS

Newest(q, k, v) == \E i \in DOMAIN q : IsLast(q, k, i) /\ q[i].value = v

(* Connections are counted, and a request is open while it is served. *)
Requests ==
  /\ nTxRequest <= count.connects
  /\ ui = "connecting" => nTxRequest < count.connects
  /\ at = "touched" => nTxRequest > 0
  /\ at = "clear" /\ ui = "on" => nTxRequest > 0

(* A UI that is not connected has nothing. *)
Fresh == ui # "on" => uiStore = [k \in Key |-> NULL] /\ uiRx = {}

(* What is sent has a value, and what is sent to the UI a last packet. *)
Sent ==
  /\ \A k \in tx \cup Keys(pTx) : store[k] # NULL
  /\ \A k \in Keys(pTx) : \E i \in DOMAIN pTx : IsLast(pTx, k, i)
  /\ \A k \in uiRx : uiStore[k] # NULL

(* While a request is served everything visible is marked. *)
Touched == at = "touched" => \A k \in Visible : store[k] # NULL => k \in tx

(* A submit() in progress finds its place, or the buffer is torn; a torn   *)
(* buffer has no whole record.                                             *)
Buffer ==
  /\ torn => pRx = <<>>
  /\ sending # NONE =>
       /\ ui = "on" /\ Len(pRx) < sending.size
       /\ sending.key \in uiRx \cap sent /\ sending.key \notin Large
  /\ at = "clearing" => pRx = <<>> /\ (sending # NONE => torn)

(* What the code still vouches for. *)
Settled == Visible \ (clash \cup Unsure)

(* A UI that came after the dispatcher found nobody connected starts from  *)
(* nothing, whatever the buffer held before it is cleared.                 *)
NewUi ==
  at = "clear" /\ ui = "on" =>
    \A k \in Visible \ clash : uiStore[k] = NULL /\ k \notin uiRx

(* Of a parameter that is settled, values go one way at a time, *)
OneWay == \A k \in Settled : ~(GoingDown(k) /\ GoingUp(k))

(* the last packet to the UI is the plugin's value, *)
DownIsNewest ==
  nTxRequest = 0 =>
    \A k \in Settled : k \in Keys(pTx) /\ k \notin tx => Newest(pTx, k, store[k])

(* the last packet to the plugin is the UI's, *)
UpIsNewest ==
  \A k \in Settled : k \in Keys(pRx) /\ k \notin uiRx => Newest(pRx, k, uiStore[k])

(* and a value the plugin never had is one the UI sends. *)
NoneYet == \A k \in Settled : store[k] = NULL /\ ~GoingUp(k) => uiStore[k] = NULL

Sides == ui = "on" => OneWay /\ DownIsNewest /\ UpIsNewest /\ NoneYet

IInv == /\ TypeOK /\ Requests /\ Fresh /\ Sent /\ Touched /\ Buffer /\ NewUi
        /\ Sides /\ Agreement

-----------------------------------------------------------------------------
(* The keys of a longer and of a shorter sequence of packets. *)
LEMMA KeysOfAppend ==
  ASSUME NEW q \in Seq(Packet), NEW m \in Packet
  PROVE  Keys(Append(q, m)) = Keys(q) \cup {m.key}
<1> DEFINE r == Append(q, m)
<1>1. /\ Len(r) = Len(q) + 1 /\ r[Len(q) + 1] = m
      /\ \A i \in 1..Len(q) : r[i] = q[i]
      /\ DOMAIN r = 1..(Len(q) + 1) /\ DOMAIN q = 1..Len(q) /\ Len(q) \in Nat
  OBVIOUS
<1> HIDE DEF r
<1>2. Keys(r) \subseteq Keys(q) \cup {m.key}
  <2> SUFFICES ASSUME NEW i \in DOMAIN r PROVE r[i].key \in Keys(q) \cup {m.key}
    BY DEF Keys
  <2>1. CASE i = Len(q) + 1  BY <2>1, <1>1
  <2>2. CASE i \in DOMAIN q  BY <2>2, <1>1 DEF Keys
  <2> QED BY <2>1, <2>2, <1>1
<1>3. Keys(q) \subseteq Keys(r)
  <2> SUFFICES ASSUME NEW i \in DOMAIN q PROVE q[i].key \in Keys(r)
    BY DEF Keys
  <2>1. i \in DOMAIN r /\ r[i] = q[i]  BY <1>1
  <2> QED BY <2>1 DEF Keys
<1>4. m.key \in Keys(r)
  <2>1. Len(q) + 1 \in DOMAIN r  BY <1>1
  <2> QED BY <2>1, <1>1 DEF Keys
<1> QED BY <1>2, <1>3, <1>4 DEF r

LEMMA KeysOfTail ==
  ASSUME NEW q \in Seq(Packet), q # <<>>
  PROVE  Keys(q) = {Head(q).key} \cup Keys(Tail(q))
<1> DEFINE r == Tail(q)
<1>1. /\ Len(q) \in Nat \ {0} /\ DOMAIN q = 1..Len(q) /\ Head(q) = q[1]
      /\ DOMAIN r = 1..(Len(q) - 1) /\ \A i \in 1..(Len(q) - 1) : r[i] = q[i + 1]
  OBVIOUS
<1> HIDE DEF r
<1>2. Keys(q) \subseteq {Head(q).key} \cup Keys(r)
  <2> SUFFICES ASSUME NEW i \in DOMAIN q PROVE q[i].key \in {Head(q).key} \cup Keys(r)
    BY DEF Keys
  <2>1. CASE i = 1  BY <2>1, <1>1
  <2>2. CASE i # 1
    <3>1. i - 1 \in DOMAIN r /\ r[i - 1] = q[i]  BY <2>2, <1>1
    <3> QED BY <3>1 DEF Keys
  <2> QED BY <2>1, <2>2
<1>3. Keys(r) \subseteq Keys(q)
  <2> SUFFICES ASSUME NEW i \in DOMAIN r PROVE r[i].key \in Keys(q)
    BY DEF Keys
  <2>1. i + 1 \in DOMAIN q /\ r[i] = q[i + 1]  BY <1>1
  <2> QED BY <2>1 DEF Keys
<1>4. Head(q).key \in Keys(q)
  <2>1. 1 \in DOMAIN q  BY <1>1
  <2> QED BY <2>1, <1>1 DEF Keys
<1> QED BY <1>2, <1>3, <1>4 DEF r

LEMMA KeysType ==
  /\ Keys(<<>>) = {}
  /\ \A q \in Seq(Packet) : Keys(q) \subseteq Key /\ \A i \in DOMAIN q : q[i] \in Packet
<1>1. Keys(<<>>) = {}
  BY DEF Keys
<1>2. ASSUME NEW q \in Seq(Packet), NEW i \in DOMAIN q
      PROVE  q[i] \in Packet /\ q[i].key \in Key
  <2>1. q[i] \in Packet  OBVIOUS
  <2> QED BY <2>1 DEF Packet
<1> QED BY <1>1, <1>2 DEF Keys

(* The last packet of a key after one was appended, *)
LEMMA LastOfAppend ==
  ASSUME NEW q \in Seq(Packet), NEW m \in Packet, NEW k
  PROVE  /\ k = m.key => IsLast(Append(q, m), k, Len(q) + 1)
         /\ \A i \in DOMAIN q : k # m.key /\ IsLast(q, k, i)
               => IsLast(Append(q, m), k, i) /\ Append(q, m)[i] = q[i]
         /\ Append(q, m)[Len(q) + 1] = m
         /\ DOMAIN Append(q, m) = 1..(Len(q) + 1)
<1> DEFINE r == Append(q, m)
<1>1. /\ r[Len(q) + 1] = m /\ \A i \in 1..Len(q) : r[i] = q[i]
      /\ DOMAIN r = 1..(Len(q) + 1) /\ DOMAIN q = 1..Len(q) /\ Len(q) \in Nat
  OBVIOUS
<1> HIDE DEF r
<1>2. k = m.key => IsLast(r, k, Len(q) + 1)
  BY <1>1 DEF IsLast
<1>3. ASSUME NEW i \in DOMAIN q, k # m.key, IsLast(q, k, i)
      PROVE  IsLast(r, k, i) /\ r[i] = q[i]
  <2>1. i \in DOMAIN r /\ r[i] = q[i] /\ r[i].key = k  BY <1>1, <1>3 DEF IsLast
  <2>2. ASSUME NEW j \in DOMAIN r, r[j].key = k PROVE j <= i
    <3>1. j # Len(q) + 1  BY <1>1, <1>3, <2>2
    <3>2. j \in DOMAIN q /\ q[j].key = k  BY <3>1, <1>1, <2>2
    <3> QED BY <3>2, <1>3 DEF IsLast
  <2> QED BY <2>1, <2>2 DEF IsLast
<1> QED BY <1>1, <1>2, <1>3 DEF r

LEMMA NewestOfAppend ==
  ASSUME NEW q \in Seq(Packet), NEW m \in Packet
  PROVE  /\ Newest(Append(q, m), m.key, m.value)
         /\ \A k, v : k # m.key /\ Newest(q, k, v) => Newest(Append(q, m), k, v)
<1>1. Len(q) + 1 \in 1..(Len(q) + 1) /\ DOMAIN q \subseteq 1..(Len(q) + 1)
  OBVIOUS
<1>2. Newest(Append(q, m), m.key, m.value)
  BY <1>1, LastOfAppend DEF Newest
<1>3. ASSUME NEW k, NEW v, k # m.key, Newest(q, k, v) PROVE Newest(Append(q, m), k, v)
  BY <1>1, <1>3, LastOfAppend DEF Newest
<1> QED BY <1>2, <1>3

(* and after the first packet was taken. *)
LEMMA NewestOfTail ==
  ASSUME NEW q \in Seq(Packet), q # <<>>, NEW k, NEW v, Newest(q, k, v)
  PROVE  IF k \in Keys(Tail(q)) THEN Newest(Tail(q), k, v)
         ELSE Head(q).key = k /\ Head(q).value = v
<1> DEFINE r == Tail(q)
<1>1. /\ Len(q) \in Nat \ {0} /\ DOMAIN q = 1..Len(q) /\ Head(q) = q[1]
      /\ DOMAIN r = 1..(Len(q) - 1) /\ \A i \in 1..(Len(q) - 1) : r[i] = q[i + 1]
  OBVIOUS
<1> HIDE DEF r
<1>2. PICK n \in DOMAIN q : IsLast(q, k, n) /\ q[n].value = v
  BY DEF Newest
<1>3. CASE k \in Keys(r)
  <2>1. PICK j \in DOMAIN r : r[j].key = k  BY <1>3 DEF Keys
  <2>2. j + 1 \in DOMAIN q /\ q[j + 1].key = k  BY <2>1, <1>1
  <2>3. j + 1 <= n  BY <2>2, <1>2 DEF IsLast
  <2>4. n - 1 \in DOMAIN r /\ r[n - 1] = q[n]  BY <2>1, <2>3, <1>1
  <2>5. ASSUME NEW i \in DOMAIN r, r[i].key = k PROVE i <= n - 1
    <3>1. i + 1 \in DOMAIN q /\ q[i + 1].key = k  BY <2>5, <1>1
    <3>2. i + 1 <= n  BY <3>1, <1>2 DEF IsLast
    <3> QED BY <3>2, <1>1
  <2>6. IsLast(r, k, n - 1) /\ r[n - 1].value = v  BY <2>4, <2>5, <1>2 DEF IsLast
  <2> QED BY <2>4, <2>6, <1>3 DEF Newest, r
<1>4. CASE k \notin Keys(r)
  <2>1. n = 1
    <3> SUFFICES ASSUME n # 1 PROVE FALSE  OBVIOUS
    <3>1. n - 1 \in DOMAIN r /\ r[n - 1] = q[n]  BY <1>1
    <3> QED BY <3>1, <1>2, <1>4 DEF IsLast, Keys
  <2> QED BY <2>1, <1>1, <1>2, <1>4 DEF IsLast, r
<1> QED BY <1>3, <1>4 DEF r

(* The packets applied in order leave the value of the last one. *)
LEMMA LatestIsNewest ==
  ASSUME NEW q \in Seq(Packet), NEW k, NEW old
  PROVE  /\ k \notin Keys(q) => Latest(q, k, old) = old
         /\ \A v : Newest(q, k, v) => Latest(q, k, old) = v
         /\ (\E i \in DOMAIN q : IsLast(q, k, i)) =>
               (k \in Keys(q) => \E i \in DOMAIN q : q[i].key = k /\ Latest(q, k, old) = q[i].value)
<1>1. DOMAIN q = 1..Len(q) /\ Len(q) \in Nat
  OBVIOUS
<1>2. ASSUME NEW n \in DOMAIN q, IsLast(q, k, n)
      PROVE  k \in Keys(q) /\ Latest(q, k, old) = q[n].value
  <2>1. k \in Keys(q)  BY <1>2 DEF IsLast, Keys
  <2> DEFINE c == CHOOSE i \in DOMAIN q : IsLast(q, k, i)
  <2>2. c \in DOMAIN q /\ IsLast(q, k, c)  BY <1>2
  <2>3. c <= n /\ n <= c  BY <2>2, <1>2 DEF IsLast
  <2>4. c = n  BY <2>2, <2>3, <1>1
  <2> QED BY <2>1, <2>4 DEF Latest
<1>3. k \notin Keys(q) => Latest(q, k, old) = old
  BY DEF Latest
<1>4. ASSUME NEW v, Newest(q, k, v) PROVE Latest(q, k, old) = v
  BY <1>2, <1>4 DEF Newest
<1>5. ASSUME NEW n \in DOMAIN q, IsLast(q, k, n)
      PROVE  \E i \in DOMAIN q : q[i].key = k /\ Latest(q, k, old) = q[i].value
  BY <1>2, <1>5 DEF IsLast
<1> QED BY <1>3, <1>4, <1>5

-----------------------------------------------------------------------------
Kept == UNCHANGED <<ui, nClients, uiVars, count>>

(* Every step preserves the invariant. *)
LEMMA Step ==
  ASSUME IInv, [Next]_vars
  PROVE  IInv'
<1> USE DispatcherAssumption
<1>1. ASSUME Lock, Kept
      PROVE  IInv'
  <2>1. TypeOK'
    BY <1>1 DEF IInv, TypeOK, Requests, Sent, Buffer, Lock, Kept, dspVars, clientVars,
               uiVars, rxVars
  <2>2. Requests'
    BY <1>1 DEF IInv, TypeOK, Requests, Lock, Kept, dspVars, clientVars, uiVars, rxVars
  <2>3. Fresh'
    BY <1>1 DEF IInv, Fresh, Buffer, Lock, Kept, dspVars, clientVars, uiVars, rxVars
  <2>4. Sent'
    BY <1>1 DEF IInv, TypeOK, Sent, Lock, Kept, dspVars, clientVars, uiVars, rxVars
  <2>5. Touched'
    BY <1>1 DEF IInv, Touched, TypeOK, Visible, Lock, Kept, dspVars, clientVars, uiVars,
               rxVars
  <2>6. Buffer'
    BY <1>1 DEF IInv, TypeOK, Buffer, Lock, Kept, dspVars, clientVars, uiVars, rxVars
  <2>7. NewUi'
    BY <1>1 DEF IInv, TypeOK, NewUi, Fresh, Requests, GoingDown, Visible, Lock, Kept,
               dspVars, clientVars, uiVars, rxVars
  <2>8. Sides'
    BY <1>1 DEF IInv, Sides, Settled, Unsure, OneWay, DownIsNewest, UpIsNewest, NoneYet,
               GoingDown, GoingUp, Requests, Fresh, TypeOK, Sent, Touched, Visible,
               Lock, Kept, dspVars, clientVars, uiVars, rxVars
  <2>9. Agreement'
    BY <1>1 DEF IInv, Agreement, Sides, Settled, Unsure, OneWay, DownIsNewest,
               UpIsNewest, NoneYet, GoingDown, GoingUp, Requests, Fresh, TypeOK, Sent,
               Touched, Visible, Lock, Kept, dspVars, clientVars, uiVars, rxVars
  <2> QED  BY <2>1, <2>2, <2>3, <2>4, <2>5, <2>6, <2>7, <2>8, <2>9 DEF IInv
<1>2. ASSUME Count, Kept
      PROVE  IInv'
  <2>1. TypeOK'
    BY <1>2 DEF IInv, TypeOK, Requests, Sent, Buffer, Count, Kept, dspVars, clientVars,
               uiVars, rxVars
  <2>2. Requests'
    BY <1>2 DEF IInv, TypeOK, Requests, Count, Kept, dspVars, clientVars, uiVars, rxVars
  <2>3. Fresh'
    BY <1>2 DEF IInv, Fresh, Buffer, Count, Kept, dspVars, clientVars, uiVars, rxVars
  <2>4. Sent'
    BY <1>2 DEF IInv, TypeOK, Sent, Count, Kept, dspVars, clientVars, uiVars, rxVars
  <2>5. Touched'
    BY <1>2
       DEF IInv, Touched, TypeOK, Visible, Count, Kept, dspVars, clientVars, uiVars,
               rxVars
  <2>6. Buffer'
    BY <1>2 DEF IInv, TypeOK, Buffer, Count, Kept, dspVars, clientVars, uiVars, rxVars
  <2>7. NewUi'
    BY <1>2 DEF IInv, TypeOK, NewUi, Fresh, Requests, GoingDown, Visible, Count, Kept,
               dspVars, clientVars, uiVars, rxVars
  <2>8. Sides'
    BY <1>2 DEF IInv, Sides, Settled, Unsure, OneWay, DownIsNewest, UpIsNewest, NoneYet,
               GoingDown, GoingUp, Requests, Fresh, TypeOK, Sent, Touched, Visible,
               Count, Kept, dspVars, clientVars, uiVars, rxVars
  <2>9. Agreement'
    BY <1>2 DEF IInv, Agreement, Sides, Settled, Unsure, OneWay, DownIsNewest,
               UpIsNewest, NoneYet, GoingDown, GoingUp, Requests, Fresh, TypeOK, Sent,
               Touched, Visible, Count, Kept, dspVars, clientVars, uiVars, rxVars
  <2> QED  BY <2>1, <2>2, <2>3, <2>4, <2>5, <2>6, <2>7, <2>8, <2>9 DEF IInv
<1>3. ASSUME Request, Kept
      PROVE  IInv'
  <2>1. TypeOK'
    BY <1>3
       DEF IInv, TypeOK, Requests, Sent, Buffer, Request, Kept, dspVars, clientVars,
               uiVars, rxVars
  <2>2. Requests'
    BY <1>3 DEF IInv, TypeOK, Requests, Request, Kept, dspVars, clientVars, uiVars,
               rxVars
  <2>3. Fresh'
    BY <1>3 DEF IInv, Fresh, Buffer, Request, Kept, dspVars, clientVars, uiVars, rxVars
  <2>4. Sent'
    BY <1>3 DEF IInv, TypeOK, Sent, Request, Kept, dspVars, clientVars, uiVars, rxVars
  <2>5. Touched'
    BY <1>3 DEF IInv, Touched, TypeOK, Visible, Request, Kept, dspVars, clientVars,
               uiVars, rxVars
  <2>6. Buffer'
    BY <1>3 DEF IInv, TypeOK, Buffer, Request, Kept, dspVars, clientVars, uiVars, rxVars
  <2>7. NewUi'
    BY <1>3 DEF IInv, TypeOK, NewUi, Fresh, Requests, GoingDown, Visible, Request, Kept,
               dspVars, clientVars, uiVars, rxVars
  <2>8. Sides'
    BY <1>3 DEF IInv, Sides, Settled, Unsure, OneWay, DownIsNewest, UpIsNewest, NoneYet,
               GoingDown, GoingUp, Requests, Fresh, TypeOK, Sent, Touched, Visible,
               Request, Kept, dspVars, clientVars, uiVars, rxVars
  <2>9. Agreement'
    BY <1>3 DEF IInv, Agreement, Sides, Settled, Unsure, OneWay, DownIsNewest,
               UpIsNewest, NoneYet, GoingDown, GoingUp, Requests, Fresh, TypeOK, Sent,
               Touched, Visible, Request, Kept, dspVars, clientVars, uiVars, rxVars
  <2> QED  BY <2>1, <2>2, <2>3, <2>4, <2>5, <2>6, <2>7, <2>8, <2>9 DEF IInv
<1>4. ASSUME Requested, Kept
      PROVE  IInv'
  <2>1. TypeOK'
    BY <1>4 DEF IInv, TypeOK, Requests, Sent, Buffer, Requested, Kept, dspVars,
               clientVars, uiVars, rxVars
  <2>2. Requests'
    BY <1>4 DEF IInv, TypeOK, Requests, Requested, Kept, dspVars, clientVars, uiVars,
               rxVars
  <2>3. Fresh'
    BY <1>4
       DEF IInv, Fresh, Buffer, Requested, Kept, dspVars, clientVars, uiVars, rxVars
  <2>4. Sent'
    BY <1>4 DEF IInv, TypeOK, Sent, Requested, Kept, dspVars, clientVars, uiVars, rxVars
  <2>5. Touched'
    BY <1>4 DEF IInv, Touched, TypeOK, Visible, Requested, Kept, dspVars, clientVars,
               uiVars, rxVars
  <2>6. Buffer'
    BY <1>4 DEF IInv, TypeOK, Buffer, Requested, Kept, dspVars, clientVars, uiVars,
               rxVars
  <2>7. NewUi'
    BY <1>4 DEF IInv, TypeOK, NewUi, Fresh, Requests, GoingDown, Visible, Requested,
               Kept, dspVars, clientVars, uiVars, rxVars
  <2>8. Sides'
    BY <1>4 DEF IInv, Sides, Settled, Unsure, OneWay, DownIsNewest, UpIsNewest, NoneYet,
               GoingDown, GoingUp, Requests, Fresh, TypeOK, Sent, Touched, Visible,
               Requested, Kept, dspVars, clientVars, uiVars, rxVars
  <2>9. Agreement'
    BY <1>4 DEF IInv, Agreement, Sides, Settled, Unsure, OneWay, DownIsNewest,
               UpIsNewest, NoneYet, GoingDown, GoingUp, Requests, Fresh, TypeOK, Sent,
               Touched, Visible, Requested, Kept, dspVars, clientVars, uiVars, rxVars
  <2> QED  BY <2>1, <2>2, <2>3, <2>4, <2>5, <2>6, <2>7, <2>8, <2>9 DEF IInv
<1>5. ASSUME Receive, Kept
      PROVE  IInv'
  <2>1. CASE nSize = 0
    <3>1. /\ at = "receive" /\ at' = "transmit"
          /\ UNCHANGED <<dspVars, pTx, rxVars, nTxRequest, clash, ui, nClients, uiVars,
                         count>>
      BY <1>5, <2>1 DEF Receive, Kept, dspVars
    <3>2. TypeOK' /\ Requests' /\ Fresh' /\ Sent' /\ Touched' /\ Buffer' /\ NewUi'
      BY <3>1 DEF IInv, TypeOK, Requests, Fresh, Sent, Touched, Buffer, NewUi,
             dspVars, uiVars, rxVars
    <3>3. Sides' /\ Agreement'
      BY <3>1
         DEF IInv, Agreement, Sides, Settled, Unsure, OneWay, DownIsNewest, UpIsNewest,
             NoneYet, GoingDown, GoingUp, dspVars, uiVars, rxVars
    <3> QED BY <3>2, <3>3 DEF IInv
  <2>2. CASE nSize # 0
    <3> DEFINE h == Head(pRx)
    <3>0. pRx # <<>> /\ pRx \in Seq(Packet) /\ nSize \in 0..Room /\ Len(pRx) <= nSize
      BY <1>5, <2>2 DEF Receive, IInv, TypeOK
    <3>1. /\ pRx \in Seq(Packet) /\ h \in Packet /\ h.key \in Key /\ h.value \in Value
          /\ h.value # NULL
          /\ Tail(pRx) \in Seq(Packet) /\ Len(Tail(pRx)) = Len(pRx) - 1 /\ Len(pRx) \in Nat
          /\ Keys(pRx) = {h.key} \cup Keys(Tail(pRx))
      <4>2. h \in Packet /\ Tail(pRx) \in Seq(Packet) /\ Len(Tail(pRx)) = Len(pRx) - 1
            /\ Len(pRx) \in Nat
        BY <3>0
      <4>3. h.key \in Key /\ h.value \in Value /\ h.value # NULL  BY <4>2 DEF Packet
      <4> QED BY <3>0, <4>2, <4>3, KeysOfTail
    <3>2. /\ store' = [store EXCEPT ![h.key] = h.value]
          /\ pRx' = Tail(pRx) /\ at = "receive" /\ nSize' = nSize - 1
          /\ UNCHANGED <<at, tx, pTx, nTxRequest, clash, ui, nClients, uiStore, uiRx,
                         sending, sent, torn, count>>
      BY <1>5, <2>2 DEF Receive, Kept, uiVars
    <3> HIDE DEF h
    <3>3. \A k \in Key : store'[k] = IF k = h.key THEN h.value ELSE store[k]
      BY <3>1, <3>2 DEF IInv, TypeOK
    <3>4. TypeOK'
      BY <3>0, <3>1, <3>2 DEF IInv, TypeOK
    <3>5. Requests' /\ Fresh' /\ Touched' /\ NewUi'
      BY <3>2 DEF IInv, Requests, Fresh, Touched, NewUi
    <3>6. Sent'
      <4>1. tx \cup Keys(pTx) \subseteq Key  BY KeysType DEF IInv, TypeOK
      <4> QED BY <3>1, <3>2, <3>3, <4>1 DEF IInv, Sent
    <3>7. Buffer' /\ ~torn
      BY <3>0, <3>1, <3>2 DEF IInv, TypeOK, Buffer
    <3>10. Settled' = Settled
      BY <3>2 DEF Settled, Unsure
    <3>8. ASSUME ui' = "on", NEW k \in Settled
          PROVE  /\ ~(GoingDown(k) /\ GoingUp(k))'
                 /\ nTxRequest = 0 /\ k \in Keys(pTx) /\ k \notin tx => Newest(pTx, k, store'[k])
                 /\ k \in Keys(pRx') /\ k \notin uiRx => Newest(pRx', k, uiStore[k])
                 /\ store'[k] = NULL /\ ~GoingUp(k)' => uiStore[k] = NULL
                 /\ GoingDown(k)' \/ GoingUp(k)' \/ uiStore[k] = store'[k]
      <4>0. k \in Key /\ ui = "on"  BY <3>2, <3>8 DEF Visible, Settled
      <4>1. GoingDown(k)' = GoingDown(k)  BY <3>2 DEF GoingDown
      <4>2. GoingUp(k)' => GoingUp(k)  BY <3>1, <3>2 DEF GoingUp
      <4>3. k # h.key => GoingUp(k)' = GoingUp(k) /\ store'[k] = store[k]
        BY <3>1, <3>2, <3>3, <4>0 DEF GoingUp
      <4>4. k = h.key => GoingUp(k) /\ ~GoingDown(k) /\ store'[k] = h.value
        BY <3>1, <3>3, <4>0 DEF IInv, GoingUp, Sides, OneWay
      <4>5. k \in Keys(pRx') /\ k \notin uiRx => Newest(pRx', k, uiStore[k])
        BY <3>0, <3>1, <3>2, <4>0, NewestOfTail DEF IInv, Sides, UpIsNewest
      <4>6. k = h.key /\ ~GoingUp(k)' => uiStore[k] = h.value
        <5> SUFFICES ASSUME k = h.key, k \notin Keys(Tail(pRx)), k \notin uiRx
                     PROVE  uiStore[k] = h.value
          BY <3>2 DEF GoingUp
        <5>1. Newest(pRx, k, uiStore[k])  BY <3>1, <4>0 DEF IInv, Sides, UpIsNewest
        <5> QED BY <3>0, <3>1, <5>1, NewestOfTail DEF h
      <4>7. nTxRequest = 0 /\ k \in Keys(pTx) /\ k \notin tx => Newest(pTx, k, store'[k])
        BY <4>0, <4>3, <4>4 DEF IInv, Sides, DownIsNewest, GoingDown
      <4>8. store'[k] = NULL /\ ~GoingUp(k)' => uiStore[k] = NULL
        BY <3>1, <4>0, <4>3, <4>4 DEF IInv, Sides, NoneYet
      <4>9. GoingDown(k)' \/ GoingUp(k)' \/ uiStore[k] = store'[k]
        BY <4>0, <4>1, <4>3, <4>4, <4>6 DEF IInv, Agreement, Settled
      <4>10. ~(GoingDown(k) /\ GoingUp(k))  BY <4>0 DEF IInv, Sides, OneWay
      <4> QED BY <4>1, <4>2, <4>5, <4>7, <4>8, <4>9, <4>10
    <3>9. Sides' /\ Agreement'
      <4>1. \A k \in Visible \ (clash \cup Unsure)' : k \in Settled
        BY <3>10 DEF Settled, Visible
      <4> QED BY <3>2, <3>8, <3>10, <4>1
         DEF Sides, OneWay, DownIsNewest, UpIsNewest, NoneYet, Agreement, Visible
    <3> QED BY <3>4, <3>5, <3>6, <3>7, <3>9 DEF IInv
  <2> QED BY <2>1, <2>2
<1>6. ASSUME ReceiveStale, Kept
      PROVE  IInv'
  <2>1. /\ at = "receive" /\ nSize > 0 /\ pRx = <<>> /\ torn' = TRUE
        /\ at' \in {"receive", "transmit", "stuck"} /\ nSize' \in {nSize, nSize - 1}
        /\ store' = store \/ \E k \in sent, v \in Value : store' = [store EXCEPT ![k] = v]
        /\ UNCHANGED <<tx, pTx, pRx, nTxRequest, clash, ui, nClients, uiStore, uiRx,
                       sending, sent, count>>
    BY <1>6 DEF ReceiveStale, Kept, uiVars
  <2>2. /\ sent \subseteq Key /\ Unsure' = sent /\ Unsure \subseteq sent
        /\ store' \in [Key -> Value \cup {NULL}] /\ Len(pRx) = 0
        /\ \A k \in Key : k \notin sent => store'[k] = store[k]
        /\ \A k \in Key : store[k] # NULL => store'[k] # NULL
    BY <2>1 DEF IInv, TypeOK, Unsure
  <2>3. TypeOK'
    BY <2>1, <2>2 DEF IInv, TypeOK
  <2>4. Requests' /\ Fresh' /\ Touched' /\ Buffer' /\ NewUi'
    BY <2>1 DEF IInv, Requests, Fresh, Touched, Buffer, NewUi
  <2>5. Sent'
    <3>1. tx \cup Keys(pTx) \subseteq Key  BY KeysType DEF IInv, TypeOK
    <3> QED BY <2>1, <2>2, <3>1 DEF IInv, Sent
  <2>6. \A k : GoingDown(k)' = GoingDown(k) /\ GoingUp(k)' = GoingUp(k)
    BY <2>1 DEF GoingDown, GoingUp
  <2>7. \A k \in Visible \ (clash \cup Unsure)' :
           k \in Visible \ (clash \cup Unsure) /\ store'[k] = store[k]
    BY <2>1, <2>2 DEF Visible
  <2>8. Sides'
    BY <2>1, <2>6, <2>7
       DEF IInv, Sides, Settled, OneWay, DownIsNewest, UpIsNewest, NoneYet, Visible
  <2>9. Agreement'
    BY <2>1, <2>6, <2>7 DEF IInv, Agreement, Visible
  <2> QED BY <2>3, <2>4, <2>5, <2>8, <2>9 DEF IInv
<1>7. ASSUME NEW k \in Key, Transmit(k), Kept
      PROVE  IInv'
  <2> DEFINE m == [key |-> k, value |-> store[k]]
  <2>1. /\ k \in tx /\ store[k] \in Value /\ m \in Packet /\ m.key = k /\ m.value = store[k]
        /\ pTx \in Seq(Packet) /\ at = "transmit"
        /\ UNCHANGED <<store, pRx, nSize, torn, nTxRequest, clash, ui, nClients, uiStore,
                       uiRx, sending, sent, count>>
    BY <1>7 DEF IInv, TypeOK, Sent, Transmit, Kept, uiVars, rxVars, Packet
  <2>2. CASE tx' = tx /\ pTx' = pTx /\ at' = "gc"
    <3>1. TypeOK' /\ Requests' /\ Fresh' /\ Sent' /\ Touched' /\ Buffer' /\ NewUi'
      BY <2>1, <2>2 DEF IInv, TypeOK, Requests, Fresh, Sent, Touched, Buffer, NewUi
    <3>2. Sides' /\ Agreement'
      BY <2>1, <2>2
         DEF IInv, Agreement, Sides, Settled, Unsure, OneWay, DownIsNewest,
             UpIsNewest, NoneYet,
             GoingDown, GoingUp
    <3> QED BY <3>1, <3>2 DEF IInv
  <2>3. CASE k \in Large /\ tx' = tx \ {k} /\ pTx' = pTx /\ at' = at
    <3>1. TypeOK' /\ Requests' /\ Fresh' /\ Sent' /\ Touched' /\ Buffer' /\ NewUi'
      BY <2>1, <2>3 DEF IInv, TypeOK, Requests, Fresh, Sent, Touched, Buffer, NewUi
    <3>2. Sides' /\ Agreement'
      BY <2>1, <2>3
         DEF IInv, Agreement, Sides, Settled, Unsure, OneWay, DownIsNewest,
             UpIsNewest, NoneYet,
             GoingDown, GoingUp, Visible
    <3> QED BY <3>1, <3>2 DEF IInv
  <2>4. CASE Len(pTx) < Room /\ tx' = tx \ {k} /\ pTx' = Append(pTx, m) /\ at' = at
    <3> HIDE DEF m
    <3>1. /\ pTx' \in Seq(Packet) /\ Len(pTx') <= Room /\ Keys(pTx') = Keys(pTx) \cup {k}
      BY <2>1, <2>4, KeysOfAppend DEF IInv, TypeOK
    <3>2. TypeOK'
      BY <2>1, <2>4, <3>1 DEF IInv, TypeOK
    <3>3. Requests' /\ Fresh' /\ Touched' /\ Buffer' /\ NewUi'
      BY <2>1, <2>4 DEF IInv, Requests, Fresh, Touched, Buffer, NewUi
    <3>4. \A c \in Keys(pTx') : \E i \in DOMAIN pTx' : IsLast(pTx', c, i)
      <4> SUFFICES ASSUME NEW c \in Keys(pTx') PROVE \E i \in DOMAIN pTx' : IsLast(pTx', c, i)
        OBVIOUS
      <4>1. DOMAIN pTx' = 1..(Len(pTx) + 1) /\ DOMAIN pTx = 1..Len(pTx) /\ Len(pTx) \in Nat
        BY <2>1, <2>4
      <4>2. CASE c = k
        BY <2>1, <2>4, <4>1, <4>2, LastOfAppend
      <4>3. CASE c # k
        <5>1. PICK i \in DOMAIN pTx : IsLast(pTx, c, i)  BY <3>1, <4>3 DEF IInv, Sent
        <5>2. i \in DOMAIN pTx' /\ IsLast(pTx', c, i)
          BY <2>1, <2>4, <4>1, <4>3, <5>1, LastOfAppend
        <5> QED BY <5>2
      <4> QED BY <4>2, <4>3
    <3>5. Sent'
      BY <2>1, <2>4, <3>1, <3>4 DEF IInv, Sent
    <3>6. \A c : GoingDown(c)' = GoingDown(c) /\ GoingUp(c)' = GoingUp(c)
      BY <2>1, <2>4, <3>1 DEF GoingDown, GoingUp
    <3>7. ASSUME ui = "on", nTxRequest = 0, NEW c \in Settled, c \in Keys(pTx'), c \notin tx'
          PROVE  Newest(pTx', c, store[c])
      <4>1. CASE c = k
        BY <2>1, <2>4, <4>1, NewestOfAppend
      <4>2. CASE c # k
        <5>1. Newest(pTx, c, store[c])
          BY <2>4, <3>1, <3>7, <4>2 DEF IInv, Sides, DownIsNewest
        <5> QED BY <2>1, <2>4, <4>2, <5>1, NewestOfAppend
      <4> QED BY <4>1, <4>2
    <3>8. Sides' /\ Agreement'
      BY <2>1, <3>6, <3>7
         DEF IInv, Sides, Settled, Unsure, OneWay, DownIsNewest, UpIsNewest, NoneYet,
             Agreement, Visible
    <3> QED BY <3>2, <3>3, <3>5, <3>8 DEF IInv
  <2> QED BY <1>7, <2>1, <2>2, <2>3, <2>4 DEF Transmit
<1>8. ASSUME TransmitDone, Kept
      PROVE  IInv'
  <2>1. TypeOK'
    BY <1>8 DEF IInv, TypeOK, Requests, Sent, Buffer, TransmitDone, Kept, dspVars,
               clientVars, uiVars, rxVars
  <2>2. Requests'
    BY <1>8 DEF IInv, TypeOK, Requests, TransmitDone, Kept, dspVars, clientVars, uiVars,
               rxVars
  <2>3. Fresh'
    BY <1>8 DEF IInv, Fresh, Buffer, TransmitDone, Kept, dspVars, clientVars, uiVars,
               rxVars
  <2>4. Sent'
    BY <1>8 DEF IInv, TypeOK, Sent, TransmitDone, Kept, dspVars, clientVars, uiVars,
               rxVars
  <2>5. Touched'
    BY <1>8 DEF IInv, Touched, TypeOK, Visible, TransmitDone, Kept, dspVars, clientVars,
               uiVars, rxVars
  <2>6. Buffer'
    BY <1>8 DEF IInv, TypeOK, Buffer, TransmitDone, Kept, dspVars, clientVars, uiVars,
               rxVars
  <2>7. NewUi'
    BY <1>8 DEF IInv, TypeOK, NewUi, Fresh, Requests, GoingDown, Visible, TransmitDone,
               Kept, dspVars, clientVars, uiVars, rxVars
  <2>8. Sides'
    BY <1>8 DEF IInv, Sides, Settled, Unsure, OneWay, DownIsNewest, UpIsNewest, NoneYet,
               GoingDown, GoingUp, Requests, Fresh, TypeOK, Sent, Touched, Visible,
               TransmitDone, Kept, dspVars, clientVars, uiVars, rxVars
  <2>9. Agreement'
    BY <1>8 DEF IInv, Agreement, Sides, Settled, Unsure, OneWay, DownIsNewest,
               UpIsNewest, NoneYet, GoingDown, GoingUp, Requests, Fresh, TypeOK, Sent,
               Touched, Visible, TransmitDone, Kept, dspVars, clientVars, uiVars, rxVars
  <2> QED  BY <2>1, <2>2, <2>3, <2>4, <2>5, <2>6, <2>7, <2>8, <2>9 DEF IInv
<1>9. ASSUME Clear, Kept
      PROVE  IInv'
  <2>1. /\ at = "clear" /\ at' = "clearing" /\ pTx' = <<>> /\ pRx' = <<>> /\ nSize' = 0
        /\ torn' = (sending # NONE)
        /\ clash' = clash \cup Keys(pRx)
        /\ UNCHANGED <<store, tx, nTxRequest, ui, nClients, uiStore, uiRx, sending, sent,
                       count>>
    BY <1>9 DEF Clear, Kept, dspVars, uiVars
  <2>2. /\ Keys(pTx') = {} /\ Keys(pRx') = {} /\ Keys(pRx) \subseteq Key
        /\ <<>> \in Seq(Packet) /\ Len(<<>>) = 0 /\ Room \in Nat /\ 0 \in 0..Room
        /\ torn' \in BOOLEAN
    BY <2>1, KeysType DEF IInv, TypeOK
  <2>3. TypeOK'
    BY <2>1, <2>2 DEF IInv, TypeOK
  <2>4. Requests' /\ Fresh' /\ Sent' /\ Touched' /\ NewUi'
    BY <2>1, <2>2 DEF IInv, Requests, Fresh, Sent, Touched, NewUi
  <2>6. Buffer'
    <3>1. sending # NONE => 0 < sending.size  BY DEF IInv, TypeOK
    <3> QED BY <2>1, <2>2, <3>1 DEF IInv, Buffer
  <2>5. Sides' /\ Agreement'
    <3> SUFFICES ASSUME ui = "on" PROVE Sides' /\ Agreement'
      BY <2>1 DEF Sides, Agreement
    <3>1. nTxRequest > 0 /\ nTxRequest # 0  BY <2>1 DEF IInv, Requests, TypeOK
    <3>2. \A k : GoingDown(k)'  BY <2>1, <3>1 DEF GoingDown
    <3>3. \A k \in Visible \ clash' : uiStore[k] = NULL /\ ~GoingUp(k)'
      BY <2>1, <2>2 DEF IInv, NewUi, GoingUp
    <3> QED BY <2>1, <2>2, <3>1, <3>2, <3>3
            DEF Sides, Settled, OneWay, DownIsNewest, UpIsNewest, NoneYet,
                Agreement, Visible
  <2> QED BY <2>3, <2>4, <2>5, <2>6 DEF IInv
<1>10. ASSUME ClearEnd, Kept
      PROVE  IInv'
  <2>1. TypeOK'
    BY <1>10 DEF IInv, TypeOK, Requests, Sent, Buffer, ClearEnd, Kept, dspVars,
               clientVars, uiVars, rxVars
  <2>2. Requests'
    BY <1>10 DEF IInv, TypeOK, Requests, ClearEnd, Kept, dspVars, clientVars, uiVars,
               rxVars
  <2>3. Fresh'
    BY <1>10
       DEF IInv, Fresh, Buffer, ClearEnd, Kept, dspVars, clientVars, uiVars, rxVars
  <2>4. Sent'
    BY <1>10 DEF IInv, TypeOK, Sent, ClearEnd, Kept, dspVars, clientVars, uiVars, rxVars
  <2>5. Touched'
    BY <1>10 DEF IInv, Touched, TypeOK, Visible, ClearEnd, Kept, dspVars, clientVars,
               uiVars, rxVars
  <2>6. Buffer'
    BY <1>10
       DEF IInv, TypeOK, Buffer, ClearEnd, Kept, dspVars, clientVars, uiVars, rxVars
  <2>7. NewUi'
    BY <1>10
       DEF IInv, TypeOK, NewUi, Fresh, Requests, GoingDown, Visible, ClearEnd, Kept,
               dspVars, clientVars, uiVars, rxVars
  <2>8. Sides'
    BY <1>10
       DEF IInv, Sides, Settled, Unsure, OneWay, DownIsNewest, UpIsNewest, NoneYet,
               GoingDown, GoingUp, Requests, Fresh, TypeOK, Sent, Touched, Visible,
               ClearEnd, Kept, dspVars, clientVars, uiVars, rxVars
  <2>9. Agreement'
    BY <1>10 DEF IInv, Agreement, Sides, Settled, Unsure, OneWay, DownIsNewest,
               UpIsNewest, NoneYet, GoingDown, GoingUp, Requests, Fresh, TypeOK, Sent,
               Touched, Visible, ClearEnd, Kept, dspVars, clientVars, uiVars, rxVars
  <2> QED  BY <2>1, <2>2, <2>3, <2>4, <2>5, <2>6, <2>7, <2>8, <2>9 DEF IInv
<1>11. ASSUME Unlock, Kept
      PROVE  IInv'
  <2>1. TypeOK'
    BY <1>11
       DEF IInv, TypeOK, Requests, Sent, Buffer, Unlock, Kept, dspVars, clientVars,
               uiVars, rxVars
  <2>2. Requests'
    BY <1>11
       DEF IInv, TypeOK, Requests, Unlock, Kept, dspVars, clientVars, uiVars, rxVars
  <2>3. Fresh'
    BY <1>11 DEF IInv, Fresh, Buffer, Unlock, Kept, dspVars, clientVars, uiVars, rxVars
  <2>4. Sent'
    BY <1>11 DEF IInv, TypeOK, Sent, Unlock, Kept, dspVars, clientVars, uiVars, rxVars
  <2>5. Touched'
    BY <1>11 DEF IInv, Touched, TypeOK, Visible, Unlock, Kept, dspVars, clientVars,
               uiVars, rxVars
  <2>6. Buffer'
    BY <1>11 DEF IInv, TypeOK, Buffer, Unlock, Kept, dspVars, clientVars, uiVars, rxVars
  <2>7. NewUi'
    BY <1>11 DEF IInv, TypeOK, NewUi, Fresh, Requests, GoingDown, Visible, Unlock, Kept,
               dspVars, clientVars, uiVars, rxVars
  <2>8. Sides'
    BY <1>11
       DEF IInv, Sides, Settled, Unsure, OneWay, DownIsNewest, UpIsNewest, NoneYet,
               GoingDown, GoingUp, Requests, Fresh, TypeOK, Sent, Touched, Visible,
               Unlock, Kept, dspVars, clientVars, uiVars, rxVars
  <2>9. Agreement'
    BY <1>11 DEF IInv, Agreement, Sides, Settled, Unsure, OneWay, DownIsNewest,
               UpIsNewest, NoneYet, GoingDown, GoingUp, Requests, Fresh, TypeOK, Sent,
               Touched, Visible, Unlock, Kept, dspVars, clientVars, uiVars, rxVars
  <2> QED  BY <2>1, <2>2, <2>3, <2>4, <2>5, <2>6, <2>7, <2>8, <2>9 DEF IInv
<1>12. ASSUME NEW k \in Key, NEW v \in Value, DspChange(k, v)
      PROVE  IInv'
  <2>1. TypeOK'
    <3>1. /\ store' \in [Key -> Value \cup {NULL}] /\ tx' \subseteq Key
          /\ clash' \subseteq Key
      BY <1>12 DEF IInv, TypeOK, DspChange
    <3>2. count' \in [dsp : 0..MaxDsp, ui : 0..MaxUi, connects : 0..MaxConnects]
      <4>1. count.dsp \in 0..MaxDsp /\ count.dsp < MaxDsp
            /\ count' = [count EXCEPT !.dsp = @ + 1]
            /\ count \in [dsp : 0..MaxDsp, ui : 0..MaxUi, connects : 0..MaxConnects]
        BY <1>12 DEF IInv, TypeOK, DspChange
      <4>2. count.dsp + 1 \in 0..MaxDsp  BY <4>1
      <4> QED BY <4>1, <4>2
    <3>3. UNCHANGED <<pTx, pRx, nSize, sending, torn, sent, nClients, nTxRequest, at, ui,
                   uiStore, uiRx>>
      BY <1>12 DEF DspChange, clientVars, uiVars, rxVars
    <3> QED BY <3>1, <3>2, <3>3 DEF IInv, TypeOK
  <2>2. Requests'
    BY <1>12 DEF IInv, TypeOK, Requests, DspChange, dspVars, clientVars, uiVars, rxVars
  <2>3. Fresh'
    BY <1>12 DEF IInv, Fresh, Buffer, DspChange, dspVars, clientVars, uiVars, rxVars
  <2>4. Sent'
    BY <1>12 DEF IInv, TypeOK, Sent, DspChange, dspVars, clientVars, uiVars, rxVars
  <2>5. Touched'
    BY <1>12 DEF IInv, Touched, TypeOK, Visible, DspChange, dspVars, clientVars, uiVars,
               rxVars
  <2>6. Buffer'
    BY <1>12 DEF IInv, TypeOK, Buffer, DspChange, dspVars, clientVars, uiVars, rxVars
  <2>7. NewUi'
    BY <1>12 DEF IInv, TypeOK, NewUi, Fresh, Requests, GoingDown, Visible, DspChange,
               dspVars, clientVars, uiVars, rxVars
  <2>8. Sides'
    BY <1>12
       DEF IInv, Sides, Settled, Unsure, OneWay, DownIsNewest, UpIsNewest, NoneYet,
               GoingDown, GoingUp, Requests, Fresh, TypeOK, Sent, Touched, Visible,
               DspChange, dspVars, clientVars, uiVars, rxVars
  <2>9. Agreement'
    BY <1>12 DEF IInv, Agreement, Sides, Settled, Unsure, OneWay, DownIsNewest,
               UpIsNewest, NoneYet, GoingDown, GoingUp, Requests, Fresh, TypeOK, Sent,
               Touched, Visible, DspChange, dspVars, clientVars, uiVars, rxVars
  <2> QED  BY <2>1, <2>2, <2>3, <2>4, <2>5, <2>6, <2>7, <2>8, <2>9 DEF IInv
<1>13. ASSUME Connect
      PROVE  IInv'
  <2>1. TypeOK'
    <3>1. /\ count.connects \in 0..MaxConnects /\ count.connects < MaxConnects
          /\ count' = [count EXCEPT !.connects = @ + 1]
          /\ count \in [dsp : 0..MaxDsp, ui : 0..MaxUi, connects : 0..MaxConnects]
      BY <1>13 DEF IInv, TypeOK, Connect
    <3>2. count.connects + 1 \in 0..MaxConnects  BY <3>1
    <3>3. count' \in [dsp : 0..MaxDsp, ui : 0..MaxUi, connects : 0..MaxConnects]
      BY <3>1, <3>2
    <3>4. /\ ui = "off" /\ ui' = "connecting" /\ nClients' = nClients + 1
          /\ UNCHANGED <<store, tx, pTx, pRx, nSize, sending, torn, sent, nTxRequest, at,
                         uiStore, uiRx, clash>>
      BY <1>13 DEF Connect, dspVars, uiVars, rxVars
    <3> QED BY <3>3, <3>4 DEF IInv, TypeOK
  <2>2. Requests'
    BY <1>13 DEF IInv, TypeOK, Requests, Connect, dspVars, clientVars, uiVars, rxVars
  <2>3. Fresh'
    BY <1>13 DEF IInv, Fresh, Buffer, Connect, dspVars, clientVars, uiVars, rxVars
  <2>4. Sent'
    BY <1>13 DEF IInv, TypeOK, Sent, Connect, dspVars, clientVars, uiVars, rxVars
  <2>5. Touched'
    BY <1>13 DEF IInv, Touched, TypeOK, Visible, Connect, dspVars, clientVars, uiVars,
               rxVars
  <2>6. Buffer'
    BY <1>13 DEF IInv, TypeOK, Buffer, Connect, dspVars, clientVars, uiVars, rxVars
  <2>7. NewUi'
    BY <1>13 DEF IInv, TypeOK, NewUi, Fresh, Requests, GoingDown, Visible, Connect,
               dspVars, clientVars, uiVars, rxVars
  <2>8. Sides'
    BY <1>13
       DEF IInv, Sides, Settled, Unsure, OneWay, DownIsNewest, UpIsNewest, NoneYet,
               GoingDown, GoingUp, Requests, Fresh, TypeOK, Sent, Touched, Visible,
               Connect, dspVars, clientVars, uiVars, rxVars
  <2>9. Agreement'
    BY <1>13 DEF IInv, Agreement, Sides, Settled, Unsure, OneWay, DownIsNewest,
               UpIsNewest, NoneYet, GoingDown, GoingUp, Requests, Fresh, TypeOK, Sent,
               Touched, Visible, Connect, dspVars, clientVars, uiVars, rxVars
  <2> QED  BY <2>1, <2>2, <2>3, <2>4, <2>5, <2>6, <2>7, <2>8, <2>9 DEF IInv
<1>14. ASSUME ConnectRequest
      PROVE  IInv'
  <2>1. TypeOK'
    <3>1. Keys(pRx) \subseteq Key  BY KeysType DEF IInv, TypeOK
    <3> QED BY <1>14, <3>1
            DEF IInv, TypeOK, Requests, ConnectRequest, dspVars, uiVars, rxVars
  <2>2. Requests'
    BY <1>14 DEF IInv, TypeOK, Requests, ConnectRequest, dspVars, clientVars, uiVars,
               rxVars
  <2>3. Fresh'
    BY <1>14
       DEF IInv, Fresh, Buffer, ConnectRequest, dspVars, clientVars, uiVars, rxVars
  <2>4. Sent'
    BY <1>14 DEF IInv, TypeOK, Sent, ConnectRequest, dspVars, clientVars, uiVars, rxVars
  <2>5. Touched'
    BY <1>14 DEF IInv, Touched, TypeOK, Visible, ConnectRequest, dspVars, clientVars,
               uiVars, rxVars
  <2>6. Buffer'
    BY <1>14
       DEF IInv, TypeOK, Buffer, ConnectRequest, dspVars, clientVars, uiVars, rxVars
  <2>7. NewUi'
    BY <1>14
       DEF IInv, TypeOK, NewUi, Fresh, Requests, GoingDown, Visible, ConnectRequest,
               dspVars, clientVars, uiVars, rxVars
  <2>8. Sides'
    BY <1>14
       DEF IInv, Sides, Settled, Unsure, OneWay, DownIsNewest, UpIsNewest, NoneYet,
               GoingDown, GoingUp, Requests, Fresh, TypeOK, Sent, Touched, Visible,
               ConnectRequest, dspVars, clientVars, uiVars, rxVars
  <2>9. Agreement'
    BY <1>14 DEF IInv, Agreement, Sides, Settled, Unsure, OneWay, DownIsNewest,
               UpIsNewest, NoneYet, GoingDown, GoingUp, Requests, Fresh, TypeOK, Sent,
               Touched, Visible, ConnectRequest, dspVars, clientVars, uiVars, rxVars
  <2> QED  BY <2>1, <2>2, <2>3, <2>4, <2>5, <2>6, <2>7, <2>8, <2>9 DEF IInv
<1>15. ASSUME Disconnect
      PROVE  IInv'
  <2>1. TypeOK'
    BY <1>15 DEF IInv, TypeOK, Requests, Sent, Buffer, Disconnect, dspVars, clientVars,
               uiVars, rxVars
  <2>2. Requests'
    BY <1>15 DEF IInv, TypeOK, Requests, Disconnect, dspVars, clientVars, uiVars, rxVars
  <2>3. Fresh'
    BY <1>15 DEF IInv, Fresh, Buffer, Disconnect, dspVars, clientVars, uiVars, rxVars
  <2>4. Sent'
    BY <1>15 DEF IInv, TypeOK, Sent, Disconnect, dspVars, clientVars, uiVars, rxVars
  <2>5. Touched'
    BY <1>15
       DEF IInv, Touched, TypeOK, Visible, Disconnect, dspVars, clientVars, uiVars,
               rxVars
  <2>6. Buffer'
    BY <1>15 DEF IInv, TypeOK, Buffer, Disconnect, dspVars, clientVars, uiVars, rxVars
  <2>7. NewUi'
    BY <1>15 DEF IInv, TypeOK, NewUi, Fresh, Requests, GoingDown, Visible, Disconnect,
               dspVars, clientVars, uiVars, rxVars
  <2>8. Sides'
    BY <1>15
       DEF IInv, Sides, Settled, Unsure, OneWay, DownIsNewest, UpIsNewest, NoneYet,
               GoingDown, GoingUp, Requests, Fresh, TypeOK, Sent, Touched, Visible,
               Disconnect, dspVars, clientVars, uiVars, rxVars
  <2>9. Agreement'
    BY <1>15 DEF IInv, Agreement, Sides, Settled, Unsure, OneWay, DownIsNewest,
               UpIsNewest, NoneYet, GoingDown, GoingUp, Requests, Fresh, TypeOK, Sent,
               Touched, Visible, Disconnect, dspVars, clientVars, uiVars, rxVars
  <2> QED  BY <2>1, <2>2, <2>3, <2>4, <2>5, <2>6, <2>7, <2>8, <2>9 DEF IInv
<1>16. ASSUME UiReceive
      PROVE  IInv'
  <2>1. /\ ui = "on" /\ at = "away" /\ pTx' = <<>>
        /\ uiStore' = [k \in Key |-> Latest(pTx, k, uiStore[k])]
        /\ UNCHANGED <<store, tx, pRx, nSize, torn, at, nTxRequest, ui, nClients, uiRx,
                       sending, sent, clash, count>>
    BY <1>16 DEF UiReceive, dspVars, clientVars, rxVars
  <2>2. /\ Keys(pTx') = {} /\ Keys(pTx) \subseteq Key /\ pTx \in Seq(Packet)
        /\ <<>> \in Seq(Packet) /\ Len(<<>>) = 0 /\ Room \in Nat
    BY <2>1, KeysType DEF IInv, TypeOK
  <2>3. TypeOK'
    <3>1. ASSUME NEW k \in Key PROVE Latest(pTx, k, uiStore[k]) \in Value \cup {NULL}
      <4>1. uiStore[k] \in Value \cup {NULL}  BY DEF IInv, TypeOK
      <4>2. CASE k \notin Keys(pTx)  BY <2>2, <4>1, <4>2, LatestIsNewest
      <4>3. CASE k \in Keys(pTx)
        <5>1. \E i \in DOMAIN pTx : IsLast(pTx, k, i)  BY <4>3 DEF IInv, Sent
        <5>2. PICK i \in DOMAIN pTx : Latest(pTx, k, uiStore[k]) = pTx[i].value
          BY <2>2, <4>3, <5>1, LatestIsNewest
        <5>3. pTx[i] \in Packet  BY <2>2, KeysType
        <5> QED BY <5>2, <5>3 DEF Packet
      <4> QED BY <4>2, <4>3
    <3>2. uiStore' \in [Key -> Value \cup {NULL}]  BY <2>1, <3>1
    <3> QED BY <2>1, <2>2, <3>2 DEF IInv, TypeOK
  <2>4. Requests' /\ Fresh' /\ Touched' /\ Buffer' /\ NewUi'
    BY <2>1, <2>2 DEF IInv, Requests, Fresh, Touched, Buffer, NewUi
  <2>7. ASSUME NEW k \in uiRx PROVE uiStore'[k] # NULL
    <3>1. k \in Key /\ uiStore'[k] = Latest(pTx, k, uiStore[k])  BY <2>1
       DEF IInv, TypeOK
    <3>2. CASE k \notin Keys(pTx)
      BY <2>2, <3>1, <3>2, LatestIsNewest DEF IInv, Sent
    <3>3. CASE k \in Keys(pTx)
      <4>1. \E i \in DOMAIN pTx : IsLast(pTx, k, i)  BY <3>3 DEF IInv, Sent
      <4>2. PICK i \in DOMAIN pTx : Latest(pTx, k, uiStore[k]) = pTx[i].value
        BY <2>2, <3>3, <4>1, LatestIsNewest
      <4>3. pTx[i] \in Packet  BY <2>2, KeysType
      <4> QED BY <3>1, <4>2, <4>3 DEF Packet
    <3> QED BY <3>2, <3>3
  <2>8. Sent'
    BY <2>1, <2>2, <2>7 DEF IInv, Sent
  <2>5. ASSUME NEW k \in Settled
        PROVE  /\ ~(GoingDown(k)' /\ GoingUp(k)')
               /\ k \in Keys(pRx) /\ k \notin uiRx => Newest(pRx, k, uiStore'[k])
               /\ store[k] = NULL /\ ~GoingUp(k)' => uiStore'[k] = NULL
               /\ GoingDown(k)' \/ GoingUp(k)' \/ uiStore'[k] = store[k]
    <3>1. k \in Key /\ uiStore'[k] = Latest(pTx, k, uiStore[k])  BY <2>1
       DEF Visible, Settled
    <3>2. GoingUp(k)' = GoingUp(k) /\ (GoingDown(k)' => GoingDown(k))
      BY <2>1, <2>2 DEF GoingUp, GoingDown
    <3>3. ~(GoingDown(k) /\ GoingUp(k))  BY <2>1 DEF IInv, Sides, OneWay
    <3>4. CASE k \notin Keys(pTx)
      <4>1. uiStore'[k] = uiStore[k]  BY <2>2, <3>1, <3>4, LatestIsNewest
      <4>2. GoingDown(k)' = GoingDown(k)  BY <2>1, <2>2, <3>4 DEF GoingDown
      <4> QED BY <2>1, <3>2, <3>3, <4>1, <4>2
         DEF IInv, Sides, UpIsNewest, NoneYet, Agreement, Settled
    <3>5. CASE k \in Keys(pTx)
      <4>1. GoingDown(k) /\ ~GoingUp(k) /\ k \notin Keys(pRx) /\ store[k] # NULL
        BY <3>3, <3>5 DEF IInv, GoingDown, GoingUp, Sent
      <4>2. ~GoingDown(k)' => Newest(pTx, k, store[k])
        BY <2>1, <3>5 DEF IInv, TypeOK, Sides, DownIsNewest, GoingDown
      <4>3. ~GoingDown(k)' => uiStore'[k] = store[k]
        BY <2>2, <3>1, <4>2, LatestIsNewest
      <4> QED BY <3>2, <4>1, <4>3
    <3> QED BY <3>4, <3>5
  <2>6. Sides' /\ Agreement'
    BY <2>1, <2>2, <2>5
       DEF Sides, Settled, Unsure, OneWay, DownIsNewest, UpIsNewest, NoneYet, Agreement,
           Visible
  <2> QED BY <2>3, <2>4, <2>6, <2>8 DEF IInv
<1>17. ASSUME NEW k \in Key, NEW v \in Value, UiChange(k, v)
      PROVE  IInv'
  <2>1. TypeOK'
    <3>1. /\ uiStore' \in [Key -> Value \cup {NULL}] /\ uiRx' \subseteq Key
          /\ clash' \subseteq Key
      BY <1>17 DEF IInv, TypeOK, UiChange
    <3>2. count' \in [dsp : 0..MaxDsp, ui : 0..MaxUi, connects : 0..MaxConnects]
      <4>1. count.ui \in 0..MaxUi /\ count.ui < MaxUi
            /\ count' = [count EXCEPT !.ui = @ + 1]
            /\ count \in [dsp : 0..MaxDsp, ui : 0..MaxUi, connects : 0..MaxConnects]
        BY <1>17 DEF IInv, TypeOK, UiChange
      <4>2. count.ui + 1 \in 0..MaxUi  BY <4>1
      <4> QED BY <4>1, <4>2
    <3>3. UNCHANGED <<store, tx, pTx, pRx, nSize, sending, torn, sent, nClients,
                   nTxRequest, at, ui>>
      BY <1>17 DEF UiChange, dspVars, clientVars, rxVars
    <3> QED BY <3>1, <3>2, <3>3 DEF IInv, TypeOK
  <2>2. Requests'
    BY <1>17 DEF IInv, TypeOK, Requests, UiChange, dspVars, clientVars, uiVars, rxVars
  <2>3. Fresh'
    BY <1>17 DEF IInv, Fresh, Buffer, UiChange, dspVars, clientVars, uiVars, rxVars
  <2>4. Sent'
    BY <1>17 DEF IInv, TypeOK, Sent, UiChange, dspVars, clientVars, uiVars, rxVars
  <2>5. Touched'
    BY <1>17 DEF IInv, Touched, TypeOK, Visible, UiChange, dspVars, clientVars, uiVars,
               rxVars
  <2>6. Buffer'
    BY <1>17 DEF IInv, TypeOK, Buffer, UiChange, dspVars, clientVars, uiVars, rxVars
  <2>7. NewUi'
    BY <1>17 DEF IInv, TypeOK, NewUi, Fresh, Requests, GoingDown, Visible, UiChange,
               dspVars, clientVars, uiVars, rxVars
  <2>8. Sides'
    BY <1>17
       DEF IInv, Sides, Settled, Unsure, OneWay, DownIsNewest, UpIsNewest, NoneYet,
               GoingDown, GoingUp, Requests, Fresh, TypeOK, Sent, Touched, Visible,
               UiChange, dspVars, clientVars, uiVars, rxVars
  <2>9. Agreement'
    BY <1>17 DEF IInv, Agreement, Sides, Settled, Unsure, OneWay, DownIsNewest,
               UpIsNewest, NoneYet, GoingDown, GoingUp, Requests, Fresh, TypeOK, Sent,
               Touched, Visible, UiChange, dspVars, clientVars, uiVars, rxVars
  <2> QED  BY <2>1, <2>2, <2>3, <2>4, <2>5, <2>6, <2>7, <2>8, <2>9 DEF IInv
<1>18. ASSUME NEW k \in Key, UiSubmit(k)
      PROVE  IInv'
  <2>1. /\ ui = "on" /\ sending = NONE /\ k \in uiRx /\ nSize \in 0..Room /\ Len(pRx) <= nSize
        /\ Len(pRx) \in Nat /\ Room \in Nat
        /\ UNCHANGED <<store, tx, pTx, pRx, nSize, at, nTxRequest, ui, nClients, uiStore,
                       count>>
    BY <1>18 DEF IInv, TypeOK, UiSubmit, dspVars, clientVars
  <2>2. CASE /\ clash' = clash \cup {k} /\ uiRx' = uiRx \ {k}
             /\ UNCHANGED <<sending, sent, torn>>
    <3>1. TypeOK' /\ Requests' /\ Fresh' /\ Sent' /\ Touched' /\ Buffer' /\ NewUi'
      BY <2>1, <2>2 DEF IInv, TypeOK, Requests, Fresh, Sent, Touched, Buffer, NewUi
    <3>2. Sides' /\ Agreement'
      BY <2>1, <2>2
         DEF IInv, Agreement, Sides, Settled, Unsure, OneWay, DownIsNewest, UpIsNewest,
             NoneYet, GoingDown, GoingUp
    <3> QED BY <3>1, <3>2 DEF IInv
  <2>3. CASE /\ k \notin Large /\ nSize < Room
             /\ sending' = [key |-> k, size |-> nSize + 1] /\ sent' = sent \cup {k}
             /\ torn' = (torn \/ at = "clearing") /\ UNCHANGED <<uiRx, clash>>
    <3>1. sending' \in [key : Key, size : 1..Room] /\ sending'.key = k
          /\ sending'.size = nSize + 1 /\ torn' \in BOOLEAN
      BY <2>1, <2>3 DEF IInv, TypeOK
    <3>2. TypeOK'
      BY <2>1, <2>3, <3>1 DEF IInv, TypeOK
    <3>3. Requests' /\ Fresh' /\ Sent' /\ Touched' /\ NewUi'
      BY <2>1, <2>3 DEF IInv, Requests, Fresh, Sent, Touched, NewUi
    <3>4. Buffer'
      <4>1. torn' => pRx' = <<>>  BY <2>1, <2>3 DEF IInv, TypeOK, Buffer
      <4>2. at' = "clearing" => pRx' = <<>> /\ torn'  BY <2>1, <2>3 DEF IInv, Buffer
      <4>3. Len(pRx') < sending'.size /\ sending'.key \in uiRx' \cap sent'
            /\ sending'.key \notin Large
        BY <2>1, <2>3, <3>1
      <4> QED BY <2>1, <4>1, <4>2, <4>3 DEF Buffer
    <3>5. Unsure \subseteq Unsure'
      BY <2>3 DEF Unsure
    <3>6. \A c \in Visible \ (clash \cup Unsure)' : c \in Visible \ (clash \cup Unsure)
      BY <2>3, <3>5 DEF Visible
    <3>7. \A c : GoingDown(c)' = GoingDown(c) /\ GoingUp(c)' = GoingUp(c)
      BY <2>1, <2>3 DEF GoingDown, GoingUp
    <3>8. Sides'
      BY <2>1, <2>3, <3>6, <3>7
         DEF IInv, Sides, Settled, OneWay, DownIsNewest, UpIsNewest, NoneYet, Visible
    <3>9. Agreement'
      BY <2>1, <3>6, <3>7 DEF IInv, Agreement, Visible
    <3> QED BY <3>2, <3>3, <3>4, <3>8, <3>9 DEF IInv
  <2> QED BY <1>18, <2>1, <2>2, <2>3 DEF UiSubmit
<1>19. ASSUME UiStore
      PROVE  IInv'
  <2>0. PICK k \in Key : k = sending.key
    BY <1>19 DEF IInv, TypeOK, UiStore
  <2> DEFINE m == [key |-> k, value |-> uiStore[k]]
  <2>1. /\ ui = "on" /\ sending' = NONE /\ nSize' = sending.size /\ sending.size \in 1..Room
        /\ k \in uiRx \cap sent /\ k \notin Large /\ uiRx' = uiRx \ {k}
        /\ pRx \in Seq(Packet) /\ Len(pRx) < sending.size /\ Len(pRx) \in Nat
        /\ pRx' = IF torn THEN pRx ELSE Append(pRx, m)
        /\ torn => pRx = <<>>
        /\ at = "clearing" => torn
        /\ UNCHANGED <<store, tx, pTx, torn, sent, at, nTxRequest, ui, nClients, uiStore,
                       clash, count>>
    BY <1>19, <2>0 DEF IInv, TypeOK, Buffer, UiStore, dspVars, clientVars
  <2>2. Unsure' = Unsure
    BY <2>1 DEF Unsure
  <2>3. CASE torn
    <3>1. TypeOK' /\ Requests' /\ Fresh' /\ Sent' /\ Touched'
      BY <2>1, <2>3 DEF IInv, TypeOK, Requests, Fresh, Sent, Touched
    <3>2. Buffer' /\ NewUi'
      BY <2>1, <2>3 DEF IInv, Buffer, NewUi
    <3>3. k \in Unsure
      BY <2>1, <2>3 DEF Unsure
    <3>4. \A c \in Settled : GoingDown(c)' = GoingDown(c) /\ GoingUp(c)' = GoingUp(c)
                             /\ (c \in uiRx' <=> c \in uiRx)
      BY <2>1, <2>3, <3>3 DEF GoingDown, GoingUp, Settled
    <3>5. Sides' /\ Agreement'
      BY <2>1, <2>2, <2>3, <3>4
         DEF IInv, Sides, Settled, OneWay, DownIsNewest, UpIsNewest, NoneYet,
             Agreement, Visible
    <3> QED BY <3>1, <3>2, <3>5 DEF IInv
  <2>4. CASE ~torn
    <3>0. m \in Packet /\ m.key = k /\ m.value = uiStore[k]
      BY <2>1 DEF IInv, TypeOK, Sent, Packet
    <3> HIDE DEF m
    <3>1. /\ pRx' = Append(pRx, m) /\ pRx' \in Seq(Packet) /\ Len(pRx') <= nSize'
          /\ Keys(pRx') = Keys(pRx) \cup {k} /\ nSize' \in 0..Room
      BY <2>1, <2>4, <3>0, KeysOfAppend
    <3>2. TypeOK'
      BY <2>1, <3>1 DEF IInv, TypeOK
    <3>3. Requests' /\ Fresh' /\ Sent' /\ Touched' /\ NewUi'
      BY <2>1 DEF IInv, Requests, Fresh, Sent, Touched, NewUi
    <3>4. Buffer'
      BY <2>1, <2>4 DEF IInv, Buffer
    <3>5. \A c : GoingDown(c)' = GoingDown(c) /\ GoingUp(c)' = GoingUp(c)
      BY <2>1, <3>1 DEF GoingDown, GoingUp
    <3>6. ASSUME NEW c \in Settled, c \in Keys(pRx'), c \notin uiRx'
          PROVE  Newest(pRx', c, uiStore[c])
      <4>1. CASE c = k
        BY <2>1, <3>0, <3>1, <4>1, NewestOfAppend
      <4>2. CASE c # k
        <5>1. Newest(pRx, c, uiStore[c])
          BY <2>1, <3>1, <3>6, <4>2 DEF IInv, Sides, UpIsNewest
        <5> QED BY <2>1, <3>0, <3>1, <4>2, <5>1, NewestOfAppend
      <4> QED BY <4>1, <4>2
    <3>7. Sides' /\ Agreement'
      BY <2>1, <2>2, <3>5, <3>6
         DEF IInv, Sides, Settled, OneWay, DownIsNewest, UpIsNewest, NoneYet,
             Agreement, Visible
    <3> QED BY <3>2, <3>3, <3>4, <3>7 DEF IInv
  <2> QED BY <2>3, <2>4
<1>20. ASSUME UNCHANGED vars
      PROVE  IInv'
  <2>1. TypeOK'
    BY <1>20
       DEF IInv, TypeOK, Requests, Sent, Buffer, vars, dspVars, clientVars, uiVars,
               rxVars
  <2>2. Requests'
    BY <1>20 DEF IInv, TypeOK, Requests, vars, dspVars, clientVars, uiVars, rxVars
  <2>3. Fresh'
    BY <1>20 DEF IInv, Fresh, Buffer, vars, dspVars, clientVars, uiVars, rxVars
  <2>4. Sent'
    BY <1>20 DEF IInv, TypeOK, Sent, vars, dspVars, clientVars, uiVars, rxVars
  <2>5. Touched'
    BY <1>20
       DEF IInv, Touched, TypeOK, Visible, vars, dspVars, clientVars, uiVars, rxVars
  <2>6. Buffer'
    BY <1>20 DEF IInv, TypeOK, Buffer, vars, dspVars, clientVars, uiVars, rxVars
  <2>7. NewUi'
    BY <1>20
       DEF IInv, TypeOK, NewUi, Fresh, Requests, GoingDown, Visible, vars, dspVars,
               clientVars, uiVars, rxVars
  <2>8. Sides'
    BY <1>20
       DEF IInv, Sides, Settled, Unsure, OneWay, DownIsNewest, UpIsNewest, NoneYet,
               GoingDown, GoingUp, Requests, Fresh, TypeOK, Sent, Touched, Visible,
               vars, dspVars, clientVars, uiVars, rxVars
  <2>9. Agreement'
    BY <1>20 DEF IInv, Agreement, Sides, Settled, Unsure, OneWay, DownIsNewest,
               UpIsNewest, NoneYet, GoingDown, GoingUp, Requests, Fresh, TypeOK, Sent,
               Touched, Visible, vars, dspVars, clientVars, uiVars, rxVars
  <2> QED  BY <2>1, <2>2, <2>3, <2>4, <2>5, <2>6, <2>7, <2>8, <2>9 DEF IInv
<1> QED
  BY <1>1, <1>2, <1>3, <1>4, <1>5, <1>6, <1>7, <1>8, <1>9, <1>10, <1>11, <1>12,
     <1>13, <1>14, <1>15, <1>16, <1>17, <1>18, <1>19, <1>20
     DEF Next, Dispatcher, Kept, Spin

LEMMA Initially == Init => IInv
<1> SUFFICES ASSUME Init PROVE IInv
  OBVIOUS
<1>1. Keys(<<>>) = {} /\ <<>> \in Seq(Packet) /\ Len(<<>>) = 0
  BY KeysType
<1>2. TypeOK
  <2>1. 0 \in 0..Room /\ 0 \in 0..MaxConnects /\ 0 <= Room
        /\ count \in [dsp : 0..MaxDsp, ui : 0..MaxUi, connects : 0..MaxConnects]
    BY DispatcherAssumption DEF Init
  <2>2. /\ store \in [Key -> Value \cup {NULL}] /\ tx \subseteq Key
        /\ uiStore \in [Key -> Value \cup {NULL}] /\ uiRx \subseteq Key
        /\ clash \subseteq Key /\ sent \subseteq Key /\ torn \in BOOLEAN
    BY DEF Init
  <2>3. /\ pTx \in Seq(Packet) /\ Len(pTx) <= Room
        /\ pRx \in Seq(Packet) /\ nSize \in 0..Room /\ Len(pRx) <= nSize
    BY <1>1, <2>1 DEF Init
  <2>4. /\ sending = NONE /\ nClients = 0 /\ nTxRequest = 0 /\ at = "away" /\ ui = "off"
    BY DEF Init
  <2> QED BY <2>1, <2>2, <2>3, <2>4 DEF TypeOK
<1>4. Requests /\ Fresh /\ Sent /\ Touched /\ Buffer /\ NewUi
  BY <1>1, DispatcherAssumption
     DEF Init, Requests, Fresh, Sent, Touched, Buffer, NewUi
<1>3. Sides /\ Agreement
  BY DEF Init, Sides, Agreement
<1> QED BY <1>2, <1>3, <1>4 DEF IInv

LEMMA Invariance == Spec => []IInv
  BY Initially, Step, PTL DEF Spec

(* Types are kept: the buffers never hold more than they have room for,    *)
(* clients are counted exactly and requests are never taken back twice.    *)
THEOREM TypeCorrect == Spec => []TypeOK
  <1>1. IInv => TypeOK  BY DEF IInv
  <1> QED BY <1>1, Invariance, PTL

(* The two storages agree on a visible parameter unless a value is on its  *)
(* way, both sides changed it at a time, or the buffer to the plugin is    *)
(* torn and may tell of it, though the UI submits while the dispatcher     *)
(* fetches or clears, and connects and disconnects at any moment.          *)
THEOREM SidesAgree == Spec => []Agreement
  <1>1. IInv => Agreement  BY DEF IInv
  <1> QED BY <1>1, Invariance, PTL
=============================================================================
