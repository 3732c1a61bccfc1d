--------------------------- MODULE OscBufferProofs ---------------------------
(***************************************************************************)
(* Proofs about OscBuffer, for rings and packets of every size: the        *)
(* records lie in the ring as LaidOut says, wherever they wrap, and the    *)
(* ring is a queue (OscQueue) when the calls of its two sides alternate.   *)
(***************************************************************************)
EXTENDS OscBuffer, SequenceTheorems, WellFoundedInduction, TLAPS

(* Every set of natural numbers has a least element: an induction that     *)
(* needs no operator as a parameter.                                       *)
LEMMA Least ==
  ASSUME NEW S, S \subseteq Nat, S # {}
  PROVE  \E n \in S : \A m \in S : n <= m
<1>1. PICK n \in S : \A m \in S : ~ (<<m, n>> \in OpToRel(<, Nat))
  BY WFMin, NatLessThanWellFounded, Zenon
<1>2. \A m \in S : ~(m < n)
  BY <1>1, Zenon DEF OpToRel
<1> QED BY <1>2

(* A set that holds the first number and the successor of each it holds,  *)
(* up to the last, holds them all.                                         *)
LEMMA Reaches ==
  ASSUME NEW first \in Nat, NEW last \in Nat, NEW S, first \in S,
         \A k \in first..(last - 1) : k \in S => k + 1 \in S
  PROVE  \A k \in first..last : k \in S
<1> DEFINE Missing == {k \in first..last : k \notin S}
<1> SUFFICES ASSUME Missing # {} PROVE FALSE
  OBVIOUS
<1>1. PICK n \in Missing : \A m \in Missing : n <= m
  <2>1. Missing \subseteq Nat
    OBVIOUS
  <2> QED BY <2>1, Least
<1>2. n # first /\ n - 1 \in first..(last - 1) /\ n - 1 \notin Missing
  BY <1>1
<1>3. n - 1 \in S /\ (n - 1) + 1 = n
  BY <1>2
<1> QED BY <1>1, <1>2, <1>3

-----------------------------------------------------------------------------
(* Positions.  A position p is that of the word x of a tape on which the   *)
(* ring repeats itself.                                                    *)
At(p, x) ==
  /\ p \in 0..Capacity
  /\ p = x \/ p = x - Capacity \/ p = x - 2 * Capacity

LEMMA CapacityPositive == Capacity \in Nat /\ Capacity > 0
BY BufferAssumption

LEMMA BehindAt ==
  ASSUME NEW p, NEW x \in Nat, NEW l \in Nat, At(p, x), l + 1 <= Capacity,
         x + l + 1 <= 2 * Capacity
  PROVE  At(Wrap(Wrap(p + 1) + l), x + l + 1)
BY CapacityPositive DEF At, Wrap

LEMMA DataIsAt ==
  ASSUME NEW p, NEW x \in Nat, NEW i \in Nat \ {0}, At(p, x), i < Capacity,
         x + i < 2 * Capacity
  PROVE  /\ At(DataAt(Wrap(p + 1) + i - 1), x + i)
         /\ DataAt(Wrap(p + 1) + i - 1) \in 0..Capacity
BY CapacityPositive DEF At, Wrap, DataAt

LEMMA FromNewHead ==
  ASSUME NEW head \in Nat, NEW step \in Nat, NEW o \in Nat, step < o, o <= Capacity,
         NEW h, At(h, head + step), NEW p, At(p, head + o)
  PROVE  At(p, h + (o - step))
BY CapacityPositive DEF At

(* A record of l words written behind size words that hold, o words from *)
(* their head, one of k words.                                            *)
LEMMA WithinTape ==
  ASSUME NEW head \in Nat, NEW size \in Nat, NEW o \in Nat, NEW k \in Nat, NEW l \in Nat,
         head <= Capacity, o + k + 1 <= size, size + l + 1 <= Capacity
  PROVE  /\ head + o \in Nat /\ head + size \in Nat
         /\ head + o + k < head + size /\ head + size + l < head + o + Capacity
         /\ l + 1 <= Capacity /\ head + size + l + 1 <= 2 * Capacity
BY CapacityPositive

LEMMA Elsewhere ==
  ASSUME NEW p, NEW x \in Nat, At(p, x), NEW q, NEW y \in Nat, At(q, y),
         x # y, y - x < Capacity, x - y < Capacity
  PROVE  p # q
BY CapacityPositive DEF At

-----------------------------------------------------------------------------
(* The records.  pos gives the positions of the packets of q and of what   *)
(* follows them, off how many words the packets up to one take.            *)
Packet == {p \in Packets : p # <<>>}

Chain(q, head, size, pos, off) ==
  /\ pos \in [1..(Len(q) + 1) -> Int] /\ off \in [0..Len(q) -> Nat]
  /\ pos[1] = head /\ off[0] = 0 /\ off[Len(q)] = size
  /\ \A k \in 1..Len(q) :
       pos[k + 1] = Behind(pos[k], q[k]) /\ off[k] = off[k - 1] + Len(q[k]) + 1
  /\ \A i, j \in 0..Len(q) : i < j => off[i] < off[j]
  /\ \A k \in 0..Len(q) : At(pos[k + 1], head + off[k])

Record(w, p, packet) ==
  /\ w[p] = Len(packet)
  /\ \A i \in 1..Len(packet) : w[DataAt(Wrap(p + 1) + i - 1)] = packet[i]

Whole(w, q, pos) == \A k \in 1..Len(q) : Record(w, pos[k], q[k])

(* What SubmitWrite makes of the ring. *)
Written(w, tail, packet) ==
  LET start == Wrap(tail + 1) IN
  [x \in 0..Capacity |->
     IF \E i \in 1..Len(packet) : x = DataAt(start + i - 1)
     THEN packet[CHOOSE i \in 1..Len(packet) : x = DataAt(start + i - 1)]
     ELSE IF x = tail THEN Len(packet) ELSE w[x]]

LEMMA PacketLength == \A p \in Packet : p \in Seq(Int) /\ Len(p) \in Nat \ {0}
BY BufferAssumption DEF Packet

LEMMA WrittenTypes ==
  ASSUME NEW w \in [0..Capacity -> Int], NEW tail, NEW packet \in Packet
  PROVE  Written(w, tail, packet) \in [0..Capacity -> Int]
<1> DEFINE addr(i) == DataAt(Wrap(tail + 1) + i - 1)
           new(x) == IF \E i \in 1..Len(packet) : x = addr(i)
                     THEN packet[CHOOSE i \in 1..Len(packet) : x = addr(i)]
                     ELSE IF x = tail THEN Len(packet) ELSE w[x]
<1>1. Len(packet) \in Nat /\ \A i \in 1..Len(packet) : packet[i] \in Int
  BY PacketLength, ElementOfSeq
<1> HIDE DEF addr
<1>2. \A x \in 0..Capacity : new(x) \in Int
  BY <1>1
<1>3. Written(w, tail, packet) = [x \in 0..Capacity |-> new(x)]
  BY DEF Written, addr
<1> HIDE DEF new
<1> QED BY <1>2, <1>3

(* A packet is written whole, *)
LEMMA WrittenWhole ==
  ASSUME NEW w, NEW tail, NEW y \in Nat, At(tail, y), NEW packet \in Packet,
         Len(packet) + 1 <= Capacity, y + Len(packet) + 1 <= 2 * Capacity
  PROVE  Record(Written(w, tail, packet), tail, packet)
<1> DEFINE addr(i) == DataAt(Wrap(tail + 1) + i - 1)
           new == Written(w, tail, packet)
<1>1. Len(packet) \in Nat \ {0}
  BY PacketLength
<1>2. \A i \in 1..Len(packet) : At(addr(i), y + i) /\ addr(i) \in 0..Capacity
  BY <1>1, DataIsAt, CapacityPositive
<1>3. \A i, j \in 1..Len(packet) : i # j => addr(i) # addr(j)
  <2> SUFFICES ASSUME NEW i \in 1..Len(packet), NEW j \in 1..Len(packet), i # j
               PROVE  addr(i) # addr(j)
    OBVIOUS
  <2>1. At(addr(i), y + i) /\ At(addr(j), y + j)
    BY <1>2
  <2> HIDE DEF addr
  <2> QED BY <1>1, <2>1, Elsewhere, CapacityPositive
<1>4. \A i \in 1..Len(packet) : addr(i) # tail
  <2> SUFFICES ASSUME NEW i \in 1..Len(packet) PROVE addr(i) # tail
    OBVIOUS
  <2>1. At(addr(i), y + i)
    BY <1>2
  <2> HIDE DEF addr
  <2> QED BY <1>1, <2>1, Elsewhere, CapacityPositive
<1>5. tail \in 0..Capacity
  BY DEF At
<1>6. new = [x \in 0..Capacity |->
               IF \E i \in 1..Len(packet) : x = addr(i)
               THEN packet[CHOOSE i \in 1..Len(packet) : x = addr(i)]
               ELSE IF x = tail THEN Len(packet) ELSE w[x]]
  BY DEF Written
<1> HIDE DEF addr, new
<1>7. new[tail] = Len(packet)
  BY <1>4, <1>5, <1>6
<1>8. ASSUME NEW i \in 1..Len(packet) PROVE new[addr(i)] = packet[i]
  <2>1. i = CHOOSE j \in 1..Len(packet) : addr(i) = addr(j)
    BY <1>3
  <2>2. addr(i) \in 0..Capacity /\ \E j \in 1..Len(packet) : addr(i) = addr(j)
    BY <1>2
  <2>3. new[addr(i)] = packet[CHOOSE j \in 1..Len(packet) : addr(i) = addr(j)]
    BY <1>6, <2>2
  <2> QED BY <2>1, <2>3
<1> QED BY <1>7, <1>8 DEF Record, addr, new

(* and touches no record that there is. *)
LEMMA OthersKept ==
  ASSUME NEW w, NEW tail, NEW y \in Nat, At(tail, y), NEW packet \in Packet,
         Len(packet) + 1 <= Capacity, y + Len(packet) + 1 <= 2 * Capacity,
         NEW p, NEW x \in Nat, At(p, x), NEW other \in Packet, Record(w, p, other),
         x + Len(other) < y, y + Len(packet) < x + Capacity
  PROVE  Record(Written(w, tail, packet), p, other)
<1> DEFINE addr(i) == DataAt(Wrap(tail + 1) + i - 1)
           new == Written(w, tail, packet)
<1>1. Len(packet) \in Nat \ {0} /\ Len(other) \in Nat \ {0}
  BY PacketLength
<1>2. \A i \in 1..Len(packet) : At(addr(i), y + i)
  BY <1>1, DataIsAt, CapacityPositive
<1> HIDE DEF addr
<1>3. ASSUME NEW z, NEW d \in 0..Len(other), At(z, x + d)
      PROVE  new[z] = w[z]
  <2>1. z \in 0..Capacity
    BY <1>3 DEF At
  <2>2. z # tail
    BY <1>1, <1>3, Elsewhere, CapacityPositive
  <2>3. ASSUME NEW i \in 1..Len(packet) PROVE z # addr(i)
    BY <1>1, <1>2, <1>3, Elsewhere, CapacityPositive
  <2> QED BY <2>1, <2>2, <2>3 DEF Written, addr
<1>4. new[p] = w[p]
  BY <1>1, <1>3
<1>5. ASSUME NEW i \in 1..Len(other)
      PROVE  new[DataAt(Wrap(p + 1) + i - 1)] = w[DataAt(Wrap(p + 1) + i - 1)]
  <2>1. At(DataAt(Wrap(p + 1) + i - 1), x + i)
    BY <1>1, DataIsAt, CapacityPositive
  <2> QED BY <1>3, <2>1
<1> QED BY <1>4, <1>5 DEF Record

-----------------------------------------------------------------------------
(* A packet is added behind the others, *)
LEMMA Added ==
  ASSUME NEW q \in Seq(Packet), NEW head \in 0..Capacity, NEW size \in Nat,
         NEW pos, NEW off, Chain(q, head, size, pos, off),
         NEW w, Whole(w, q, pos), NEW packet \in Packet,
         size + Len(packet) + 1 <= Capacity, NEW m, m = Len(q), NEW tail, tail = pos[m + 1]
  PROVE  \E pos2, off2 :
           /\ Chain(Append(q, packet), head, size + Len(packet) + 1, pos2, off2)
           /\ Whole(Written(w, tail, packet), Append(q, packet), pos2)
           /\ pos2[m + 2] = Behind(tail, packet)
<1> DEFINE new == Append(q, packet)
           l == Len(packet)
           next == Behind(tail, packet)
           pos2 == [k \in 1..(m + 2) |-> IF k = m + 2 THEN next ELSE pos[k]]
           off2 == [k \in 0..(m + 1) |-> IF k = m + 1 THEN size + l + 1 ELSE off[k]]
<1>1. m \in Nat /\ l \in Nat \ {0} /\ Capacity \in Nat /\ head \in Nat /\ size + l + 1 <= Capacity
  BY LenProperties, PacketLength, CapacityPositive
<1>2. /\ Len(new) = m + 1 /\ new[m + 1] = packet
      /\ \A k \in 1..m : new[k] = q[k] /\ q[k] \in Packet
  BY AppendProperties, ElementOfSeq
<1>pos. /\ pos \in [1..(m + 1) -> Int] /\ off \in [0..m -> Nat]
        /\ pos[1] = head /\ off[0] = 0 /\ off[m] = size
  BY <1>1 DEF Chain
<1>next. \A k \in 1..m :
           pos[k + 1] = Behind(pos[k], q[k]) /\ off[k] = off[k - 1] + Len(q[k]) + 1
  BY <1>1 DEF Chain
<1>order. \A i, j \in 0..m : i < j => off[i] < off[j]
  BY <1>1 DEF Chain
<1>at. \A k \in 0..m : At(pos[k + 1], head + off[k])
  BY <1>1 DEF Chain
<1> HIDE DEF l
<1>4. At(tail, head + size)
  <2>1. m \in 0..m /\ tail = pos[m + 1] /\ off[m] = size
    BY <1>1, <1>pos
  <2> QED BY <1>at, <2>1
<1>5. At(next, head + size + l + 1)
  <2> DEFINE x == head + size
  <2>1. x \in Nat /\ l \in Nat /\ l + 1 <= Capacity /\ x + l + 1 <= 2 * Capacity
    BY <1>1
  <2>2. At(tail, x)
    BY <1>4
  <2> HIDE DEF x
  <2>3. At(Wrap(Wrap(tail + 1) + l), x + l + 1)
    BY <2>1, <2>2, BehindAt
  <2> QED BY <2>3 DEF Behind, l, x
<1>6. next \in Int
  BY <1>5, <1>1 DEF At
<1> HIDE DEF next
<1>7. /\ pos2 \in [1..(m + 2) -> Int] /\ pos2[1] = head /\ pos2[m + 2] = next
      /\ \A k \in 1..(m + 1) : pos2[k] = pos[k]
  BY <1>1, <1>pos, <1>6
<1>8. /\ off2 \in [0..(m + 1) -> Nat] /\ off2[0] = 0 /\ off2[m + 1] = size + l + 1
      /\ \A k \in 0..m : off2[k] = off[k] /\ off[k] \in Nat /\ off[k] <= size
  <2>1. \A k \in 0..m : off[k] \in Nat /\ off[k] <= size
    <3> SUFFICES ASSUME NEW k \in 0..m PROVE off[k] \in Nat /\ off[k] <= size
      OBVIOUS
    <3>1. k = m \/ k < m
      BY <1>1
    <3>2. m \in 0..m /\ off[k] \in Nat
      BY <1>1, <1>pos
    <3> QED BY <1>pos, <1>order, <3>1, <3>2
  <2>2. size + l + 1 \in Nat
    BY <1>1
  <2>3. \A k \in 0..m : k \in 0..(m + 1) /\ k # m + 1
    BY <1>1
  <2>4. 0 \in 0..m /\ m + 1 \in 0..(m + 1) /\ \A k \in 0..(m + 1) : k # m + 1 => k \in 0..m
    BY <1>1
  <2> QED BY <1>pos, <2>1, <2>2, <2>3, <2>4
<1> HIDE DEF pos2, off2
<1>9. Chain(new, head, size + l + 1, pos2, off2)
  <2>1. ASSUME NEW k \in 1..(m + 1)
        PROVE  pos2[k + 1] = Behind(pos2[k], new[k]) /\ off2[k] = off2[k - 1] + Len(new[k]) + 1
    <3>1. CASE k = m + 1
      <4>1. k + 1 = m + 2 /\ k - 1 = m /\ m \in 0..m /\ k \in 1..(m + 1)
        BY <1>1, <3>1
      <4> QED BY <1>1, <1>2, <1>pos, <1>7, <1>8, <3>1, <4>1 DEF next, l
    <3>2. CASE k # m + 1
      <4>1. k \in 1..m /\ k + 1 \in 1..(m + 1) /\ k - 1 \in 0..m /\ k \in 0..m
        BY <1>1, <3>2
      <4> QED BY <1>2, <1>next, <1>7, <1>8, <4>1
    <3> QED BY <3>1, <3>2
  <2>2. ASSUME NEW i \in 0..(m + 1), NEW j \in 0..(m + 1), i < j
        PROVE  off2[i] < off2[j]
    <3>1. i \in 0..m
      BY <1>1, <2>2
    <3>2. CASE j = m + 1
      <4>1. /\ off2[i] \in Nat /\ off2[i] <= size /\ off2[j] = size + l + 1
            /\ size \in Nat /\ l \in Nat
        BY <1>1, <1>8, <3>1, <3>2
      <4> HIDE DEF off2
      <4> QED BY <4>1
    <3>3. CASE j # m + 1
      <4>1. j \in 0..m
        BY <1>1, <3>3
      <4> QED BY <1>order, <1>8, <2>2, <3>1, <4>1
    <3> QED BY <3>2, <3>3
  <2>3. ASSUME NEW k \in 0..(m + 1) PROVE At(pos2[k + 1], head + off2[k])
    <3>1. CASE k = m + 1
      <4>1. head + (size + l + 1) = head + size + l + 1 /\ k + 1 = m + 2
        BY <1>1, <3>1
      <4> QED BY <1>5, <1>7, <1>8, <3>1, <4>1
    <3>2. CASE k # m + 1
      <4>1. k \in 0..m /\ k + 1 \in 1..(m + 1)
        BY <1>1, <3>2
      <4> QED BY <1>at, <1>7, <1>8, <4>1
    <3> QED BY <3>1, <3>2
  <2>4. (m + 1) + 1 = m + 2
    BY <1>1
  <2> HIDE DEF new
  <2> QED BY <1>2, <1>7, <1>8, <2>1, <2>2, <2>3, <2>4 DEF Chain
<1>10. Whole(Written(w, tail, packet), new, pos2)
  <2> SUFFICES ASSUME NEW k \in 1..(m + 1)
               PROVE  Record(Written(w, tail, packet), pos2[k], new[k])
    BY <1>2 DEF Whole
  <2>1. CASE k = m + 1
    <3>1. /\ head + size \in Nat /\ Len(packet) + 1 <= Capacity
          /\ (head + size) + Len(packet) + 1 <= 2 * Capacity
      BY <1>1 DEF l
    <3>2. Record(Written(w, tail, packet), tail, packet)
      BY <1>4, <3>1, WrittenWhole
    <3> QED BY <1>2, <1>7, <2>1, <3>2
  <2>2. CASE k # m + 1
    <3>1. k \in 1..m /\ k - 1 \in 0..m /\ k \in 0..m /\ (k - 1) + 1 = k
      BY <1>1, <2>2
    <3> DEFINE x == head + off[k - 1]
               y == head + size
               lk == Len(q[k])
    <3>2. /\ q[k] \in Packet /\ lk \in Nat /\ off[k - 1] \in Nat
          /\ off[k - 1] + lk + 1 <= size
      <4>1. off[k] = off[k - 1] + lk + 1 /\ off[k] <= size
        BY <1>next, <1>8, <3>1
      <4> QED BY <1>2, <1>8, <3>1, <4>1, PacketLength
    <3>3. At(pos[k], x) /\ At(tail, y) /\ Record(w, pos[k], q[k])
      <4>1. At(pos[(k - 1) + 1], head + off[k - 1])
        BY <1>at, <3>1
      <4> QED BY <1>4, <3>1, <4>1 DEF Whole
    <3>4. /\ x \in Nat /\ y \in Nat /\ x + lk < y /\ y + l < x + Capacity
          /\ l + 1 <= Capacity /\ y + l + 1 <= 2 * Capacity
      <4>1. /\ head \in Nat /\ size \in Nat /\ l \in Nat
            /\ head <= Capacity /\ size + l + 1 <= Capacity
        BY <1>1, CapacityPositive DEF l
      <4> HIDE DEF l, lk
      <4> QED BY <3>2, <4>1, WithinTape
    <3> HIDE DEF x, y
    <3>5. Record(Written(w, tail, packet), pos[k], q[k])
      BY <3>2, <3>3, <3>4, OthersKept DEF l
    <3> QED BY <1>2, <1>7, <3>1, <3>5
  <2> QED BY <2>1, <2>2
<1> QED BY <1>7, <1>9, <1>10 DEF next, l

(* and the first of them is taken. *)
LEMMA Removed ==
  ASSUME NEW q \in Seq(Packet), q # <<>>, NEW head \in 0..Capacity, NEW size \in Nat,
         size <= Capacity, NEW pos, NEW off, Chain(q, head, size, pos, off),
         NEW w, Whole(w, q, pos), NEW m, m = Len(q)
  PROVE  LET pos2 == [k \in 1..m |-> pos[k + 1]]
             off2 == [k \in 0..(m - 1) |-> off[k + 1] - off[1]]
         IN  /\ Chain(Tail(q), Behind(head, q[1]), size - (Len(q[1]) + 1), pos2, off2)
             /\ Whole(w, Tail(q), pos2)
             /\ Behind(head, q[1]) \in 0..Capacity
             /\ size - (Len(q[1]) + 1) \in Nat
<1> DEFINE pos2 == [k \in 1..m |-> pos[k + 1]]
           off2 == [k \in 0..(m - 1) |-> off[k + 1] - off[1]]
           head2 == pos[2]
           step == off[1]
<1>1. m \in Nat \ {0} /\ Capacity \in Nat /\ head \in Nat
  BY LenProperties, EmptySeq, CapacityPositive
<1>2. /\ Len(Tail(q)) = m - 1 /\ \A k \in 1..(m - 1) : Tail(q)[k] = q[k + 1]
      /\ \A k \in 1..m : q[k] \in Packet /\ Len(q[k]) \in Nat \ {0}
  BY HeadTailProperties, ElementOfSeq, PacketLength
<1>pos. /\ pos \in [1..(m + 1) -> Int] /\ off \in [0..m -> Nat]
        /\ pos[1] = head /\ off[0] = 0 /\ off[m] = size
  BY <1>1 DEF Chain
<1>next. \A k \in 1..m :
           pos[k + 1] = Behind(pos[k], q[k]) /\ off[k] = off[k - 1] + Len(q[k]) + 1
  BY <1>1 DEF Chain
<1>order. \A i, j \in 0..m : i < j => off[i] < off[j]
  BY <1>1 DEF Chain
<1>at. \A k \in 0..m : At(pos[k + 1], head + off[k])
  BY <1>1 DEF Chain
<1>4. /\ head2 = Behind(head, q[1]) /\ step = Len(q[1]) + 1
      /\ At(head2, head + step) /\ step \in Nat
  <2>1. 1 \in 1..m /\ 1 \in 0..m /\ 1 + 1 = 2 /\ 1 - 1 = 0
    BY <1>1
  <2>2. step = 0 + Len(q[1]) + 1 /\ Len(q[1]) \in Nat
    BY <1>2, <1>next, <1>pos, <2>1
  <2>3. head2 = Behind(head, q[1])
    BY <1>next, <1>pos, <2>1
  <2>4. At(head2, head + step)
    BY <1>at, <2>1
  <2> QED BY <2>2, <2>3, <2>4
<1> HIDE DEF step
<1>5. \A k \in 1..m : /\ off[k] \in Nat /\ step <= off[k] /\ off[k] <= size
                      /\ k > 1 => off[k] > step
  <2> SUFFICES ASSUME NEW k \in 1..m
               PROVE  /\ off[k] \in Nat /\ step <= off[k] /\ off[k] <= size
                      /\ k > 1 => off[k] > step
    OBVIOUS
  <2>1. k \in 0..m /\ m \in 0..m /\ 1 \in 0..m /\ (k = m \/ k < m) /\ (k = 1 \/ k > 1)
    BY <1>1
  <2>2. off[k] \in Nat /\ (k < m => off[k] < off[m]) /\ (k > 1 => off[1] < off[k])
    BY <1>pos, <1>order, <2>1
  <2> QED BY <1>pos, <2>1, <2>2 DEF step
<1>6. /\ pos2 \in [1..m -> Int] /\ pos2[1] = head2
      /\ \A k \in 1..m : pos2[k] = pos[k + 1]
  BY <1>1, <1>pos
<1>7. \A k \in 0..(m - 1) : /\ k + 1 \in 1..m /\ off2[k] = off[k + 1] - step
                            /\ off2[k] \in Nat /\ off[k + 1] \in Nat
  <2> SUFFICES ASSUME NEW k \in 0..(m - 1)
               PROVE  /\ k + 1 \in 1..m /\ off2[k] = off[k + 1] - step
                      /\ off2[k] \in Nat /\ off[k + 1] \in Nat
    OBVIOUS
  <2>1. k + 1 \in 1..m
    BY <1>1
  <2>2. off2[k] = off[k + 1] - step
    BY DEF step
  <2>3. off[k + 1] \in Nat /\ off[k + 1] - step \in Nat
    BY <1>4, <1>5, <2>1
  <2> QED BY <2>1, <2>2, <2>3
<1>8. off2 \in [0..(m - 1) -> Nat] /\ off2[0] = 0 /\ off2[m - 1] = size - step
  <2>1. off2 \in [0..(m - 1) -> Nat]
    BY <1>7
  <2>2. 0 \in 0..(m - 1) /\ m - 1 \in 0..(m - 1) /\ 0 + 1 = 1 /\ (m - 1) + 1 = m
    BY <1>1
  <2>3. off2[0] = step - step /\ off2[m - 1] = off[m] - step
    BY <1>7, <2>2 DEF step
  <2> QED BY <1>pos, <1>4, <2>1, <2>3
<1>9. size - (Len(q[1]) + 1) = size - step /\ size - step \in Nat
  BY <1>1, <1>pos, <1>4, <1>5
<1> HIDE DEF pos2, off2, head2
<1>10. ASSUME NEW k \in 1..(m - 1)
      PROVE  /\ pos2[k + 1] = Behind(pos2[k], Tail(q)[k])
             /\ off2[k] = off2[k - 1] + Len(Tail(q)[k]) + 1
  <2>1. /\ k + 1 \in 1..m /\ k - 1 \in 0..(m - 1) /\ k \in 1..m
        /\ k \in 0..(m - 1)
        /\ (k - 1) + 1 = k /\ (k + 1) - 1 = k
    BY <1>1
  <2>2. off[k + 1] = off[k] + Len(q[k + 1]) + 1 /\ Len(q[k + 1]) \in Nat
    BY <1>2, <1>next, <2>1
  <2>3. /\ off2[k] = off[k + 1] - step /\ off2[k - 1] = off[k] - step
        /\ off[k] \in Nat
    BY <1>5, <1>7, <2>1
  <2>4. Tail(q)[k] = q[k + 1]
    BY <1>2
  <2>5. off2[k] = off2[k - 1] + Len(q[k + 1]) + 1
    BY <1>4, <2>2, <2>3
  <2> QED BY <1>next, <1>6, <2>1, <2>4, <2>5
<1>11. ASSUME NEW i \in 0..(m - 1), NEW j \in 0..(m - 1), i < j
      PROVE  off2[i] < off2[j]
  <2>1. off[i + 1] < off[j + 1]
    BY <1>1, <1>order, <1>pos, <1>11
  <2> QED BY <1>4, <1>7, <2>1
<1>12. ASSUME NEW k \in 0..(m - 1) PROVE At(pos2[k + 1], head2 + off2[k])
  <2>1. k + 1 \in 1..m /\ k + 1 \in 0..m /\ (k + 1) + 1 = k + 2 /\ (k > 0 => k + 1 > 1)
    BY <1>1
  <2> DEFINE p == pos2[k + 1]
             o == off[k + 1]
             d == off2[k]
  <2>2. /\ At(p, head + o) /\ o \in Nat /\ o <= size /\ d = o - step /\ d \in Nat
        /\ k > 0 => d > 0
    <3>1. p = pos[k + 2] /\ At(pos[k + 2], head + o)
      BY <1>at, <1>6, <2>1
    <3>2. o \in Nat /\ o <= size /\ (k > 0 => o > step)
      BY <1>5, <2>1
    <3>3. d = o - step /\ d \in Nat
      BY <1>7
    <3> HIDE DEF p, o, d
    <3> QED BY <1>4, <3>1, <3>2, <3>3
  <2>3. CASE k = 0
    <3>1. p = head2 /\ d = 0
      BY <1>6, <1>8, <2>3
    <3> QED BY <1>4, <3>1 DEF At
  <2>4. CASE k # 0
    <3>1. d > 0
      BY <2>2, <2>4
    <3> HIDE DEF p, o, d
    <3>2. At(p, head2 + (o - step))
      <4>1. o \in Nat /\ step < o /\ o <= Capacity /\ At(p, head + o)
        BY <1>1, <1>4, <2>2, <3>1
      <4> QED BY <1>1, <1>4, <4>1, FromNewHead
    <3>3. At(p, head2 + d)
      BY <2>2, <3>2
    <3> QED BY <3>3 DEF p, d
  <2> QED BY <2>3, <2>4
<1>13. Chain(Tail(q), head2, size - step, pos2, off2)
  <2>1. (m - 1) + 1 = m
    BY <1>1
  <2> QED BY <1>2, <1>6, <1>8, <1>10, <1>11, <1>12, <2>1 DEF Chain
<1>14. Whole(w, Tail(q), pos2)
  <2> SUFFICES ASSUME NEW k \in 1..(m - 1)
               PROVE  Record(w, pos2[k], Tail(q)[k])
    BY <1>2 DEF Whole
  <2>1. k + 1 \in 1..m /\ k \in 1..m
    BY <1>1
  <2> QED BY <1>2, <1>6, <2>1 DEF Whole
<1>15. head2 \in 0..Capacity
  BY <1>4 DEF At
<1> QED BY <1>4, <1>9, <1>13, <1>14, <1>15 DEF pos2, off2, step, head2

-----------------------------------------------------------------------------
(* The inductive invariant.  A packet that is written counts as one that   *)
(* is in the ring, although nSize is yet to tell the reader.               *)
Queued == IF submitter.at = "store" THEN Append(held, submitter.packet) ELSE held
Counted == IF submitter.at = "store" THEN submitter.newsize ELSE nSize

OscTypes ==
  /\ words \in [0..Capacity -> Int]
  /\ nSize \in 0..Capacity /\ nHead \in 0..Capacity
  /\ held \in Seq(Packet)
  /\ submitted \in Statuses /\ fetched.status \in Statuses

SubmitCall ==
  \/ submitter = NoCall
  \/ /\ fetcher = NoCall
     /\ \E p \in Packet, at \in {"write", "store"} :
          /\ submitter = [at |-> at, packet |-> p, newsize |-> nSize + Len(p) + 1]
          /\ nSize + Len(p) + 1 <= Capacity

FetchCall ==
  \/ fetcher = NoCall
  \/ \E limit \in Limits :
       \/ fetcher = [at |-> "read", limit |-> limit, bufsz |-> nSize] /\ nSize >= 1
       \/ /\ held # <<>> /\ fetcher = [at |-> "add", data |-> held[1]]
          /\ Len(held[1]) <= limit

Layout(q, size) ==
  \E pos, off : /\ Chain(q, nHead, size, pos, off) /\ Whole(words, q, pos)
                /\ nTail = pos[Len(q) + 1]

OscInv == OscTypes /\ SubmitCall /\ FetchCall /\ Layout(Queued, Counted)

(* What the head of the ring tells when nobody submits. *)
LEMMA Oldest ==
  ASSUME OscInv, submitter = NoCall
  PROVE  /\ held = <<>> <=> nSize = 0
         /\ held # <<>> =>
              /\ held[1] \in Packet /\ words[nHead] = Len(held[1])
              /\ [i \in 1..words[nHead] |-> words[DataAt(Wrap(nHead + 1) + i - 1)]] = held[1]
              /\ Len(held[1]) + 1 <= nSize
<1> DEFINE m == Len(held)
<1>1. held \in Seq(Packet) /\ m \in Nat /\ (m = 0 <=> held = <<>>)
  BY EmptySeq, LenProperties DEF OscInv, OscTypes
<1>2. PICK pos, off : Chain(held, nHead, nSize, pos, off) /\ Whole(words, held, pos)
  BY DEF OscInv, Layout, Queued, Counted, NoCall
<1> HIDE DEF m
<1>3. /\ off \in [0..m -> Nat] /\ off[0] = 0 /\ off[m] = nSize /\ pos[1] = nHead
      /\ \A i, j \in 0..m : i < j => off[i] < off[j]
      /\ \A k \in 1..m : off[k] = off[k - 1] + Len(held[k]) + 1
  BY <1>2 DEF Chain, m
<1>4. CASE m = 0
  BY <1>1, <1>3, <1>4
<1>5. CASE m # 0
  <2>1. 1 \in 1..m /\ 1 \in 0..m /\ 0 \in 0..m /\ m \in 0..m /\ 0 < m /\ (m = 1 \/ 1 < m)
    BY <1>1, <1>5
  <2>2. held[1] \in Packet /\ held[1] \in Seq(Int) /\ Len(held[1]) \in Nat \ {0}
    BY <1>1, <2>1, ElementOfSeq, PacketLength DEF m
  <2>3. off[1] = Len(held[1]) + 1
    <3>1. off[1] = off[1 - 1] + Len(held[1]) + 1 /\ 1 - 1 = 0
      BY <1>3, <2>1
    <3> QED BY <1>3, <2>2, <3>1
  <2>4. off[1] <= nSize /\ 0 < nSize
    <3>1. off[1] = nSize \/ off[1] < off[m]
      BY <1>3, <2>1
    <3>2. off[1] \in Nat /\ off[m] \in Nat
      BY <1>3, <2>1
    <3> QED BY <1>3, <2>2, <2>3, <3>1, <3>2
  <2>5. Record(words, nHead, held[1])
    BY <1>2, <1>3, <2>1 DEF Whole, m
  <2>6. [i \in 1..words[nHead] |-> words[DataAt(Wrap(nHead + 1) + i - 1)]] = held[1]
    <3>1. held[1] = [i \in 1..Len(held[1]) |-> held[1][i]]
      BY <2>2, LenProperties
    <3> QED BY <2>5, <3>1 DEF Record
  <2> QED BY <1>1, <1>5, <2>2, <2>3, <2>4, <2>5, <2>6 DEF Record
<1> QED BY <1>4, <1>5

LEMMA OscInit == ASSUME Init PROVE OscInv
<1>1. OscTypes /\ SubmitCall /\ FetchCall
  <2>1. words \in [0..Capacity -> Int]
    BY BufferAssumption DEF Init
  <2>2. held \in Seq(Packet)
    BY EmptySeq DEF Init
  <2>3. nSize \in 0..Capacity /\ nHead \in 0..Capacity
    BY CapacityPositive DEF Init
  <2> QED BY <2>1, <2>2, <2>3 DEF Init, OscTypes, SubmitCall, FetchCall, Statuses
<1>2. Queued = <<>> /\ Counted = 0 /\ nHead = 0 /\ nTail = 0 /\ Len(<<>>) = 0
  BY DEF Init, Queued, Counted, NoCall
<1>3. Layout(<<>>, 0)
  <2> DEFINE pos == [k \in 1..1 |-> 0]
             off == [k \in 0..0 |-> 0]
  <2>1. At(0, 0)
    BY CapacityPositive DEF At
  <2>2. Chain(<<>>, 0, 0, pos, off)
    BY <2>1 DEF Chain
  <2>3. Whole(words, <<>>, pos)
    BY DEF Whole
  <2> QED BY <1>2, <2>2, <2>3 DEF Layout
<1> QED BY <1>1, <1>2, <1>3 DEF OscInv

LEMMA CheckStep ==
  ASSUME OscInv, fetcher = NoCall, NEW p \in Packets, SubmitCheck(p)
  PROVE  OscInv'
<1>1. submitter = NoCall /\ UNCHANGED <<words, nSize, nHead, nTail, fetcher, fetched, history>>
  BY DEF SubmitCheck
<1>2. OscTypes'
  BY <1>1 DEF OscInv, OscTypes, SubmitCheck, history, Statuses
<1>3. SubmitCall' /\ submitter'.at # "store"
  <2>1. CASE p = <<>> \/ nSize + Len(p) + 1 > Capacity
    BY <1>1, <2>1 DEF SubmitCheck, SubmitCall, NoCall
  <2>2. CASE ~(p = <<>> \/ nSize + Len(p) + 1 > Capacity)
    <3>1. /\ submitter' = [at |-> "write", packet |-> p, newsize |-> nSize + Len(p) + 1]
          /\ p \in Packet
      BY <2>2 DEF SubmitCheck, Packet
    <3>2. nSize + Len(p) + 1 <= Capacity
      BY <2>2, <3>1, PacketLength, CapacityPositive DEF OscInv, OscTypes
    <3> QED BY <1>1, <3>1, <3>2 DEF SubmitCall
  <2> QED BY <2>1, <2>2
<1>4. FetchCall'
  BY <1>1 DEF FetchCall
<1>5. Queued' = Queued /\ Counted' = Counted
  BY <1>1, <1>3 DEF Queued, Counted, NoCall, history
<1>6. Layout(Queued, Counted)'
  BY <1>1, <1>5 DEF OscInv, Layout
<1> QED BY <1>2, <1>3, <1>4, <1>6 DEF OscInv

LEMMA WriteStep ==
  ASSUME OscInv, SubmitWrite
  PROVE  OscInv'
<1>1. UNCHANGED <<nSize, nHead, fetcher, submitted, fetched, history>> /\ submitter.at = "write"
  BY DEF SubmitWrite
<1>2. PICK p \in Packet :
        /\ submitter = [at |-> "write", packet |-> p, newsize |-> nSize + Len(p) + 1]
        /\ nSize + Len(p) + 1 <= Capacity /\ fetcher = NoCall
  BY <1>1 DEF OscInv, SubmitCall, NoCall
<1>3. words' = Written(words, nTail, p) /\ nTail' = Behind(nTail, p)
  BY <1>2 DEF SubmitWrite, Written, Behind
<1>4. submitter' = [at |-> "store", packet |-> p, newsize |-> nSize + Len(p) + 1]
  BY <1>2 DEF SubmitWrite
<1>5. OscTypes'
  <2>1. words' \in [0..Capacity -> Int]
    <3>1. words \in [0..Capacity -> Int]
      BY DEF OscInv, OscTypes
    <3> QED BY <1>3, <3>1, WrittenTypes
  <2> QED BY <1>1, <2>1 DEF OscInv, OscTypes, history
<1>6. SubmitCall' /\ FetchCall'
  BY <1>1, <1>2, <1>4 DEF SubmitCall, FetchCall
<1>7. held \in Seq(Packet) /\ nHead \in 0..Capacity /\ nSize \in Nat /\ Len(held) \in Nat
  BY LenProperties, CapacityPositive DEF OscInv, OscTypes
<1>8. PICK pos, off : /\ Chain(held, nHead, nSize, pos, off) /\ Whole(words, held, pos)
                      /\ nTail = pos[Len(held) + 1]
  BY <1>2 DEF OscInv, Layout, Queued, Counted
<1> DEFINE m == Len(held)
<1>9. PICK pos2, off2 :
        /\ Chain(Append(held, p), nHead, nSize + Len(p) + 1, pos2, off2)
        /\ Whole(Written(words, nTail, p), Append(held, p), pos2)
        /\ pos2[m + 2] = Behind(nTail, p)
  BY <1>2, <1>7, <1>8, Added
<1>10. nTail' = pos2[Len(Append(held, p)) + 1]
  <2>1. Len(Append(held, p)) + 1 = m + 2
    BY <1>7, AppendProperties
  <2> QED BY <1>3, <1>9, <2>1
<1>11. Queued' = Append(held, p) /\ Counted' = nSize + Len(p) + 1 /\ nHead' = nHead
  BY <1>1, <1>4 DEF Queued, Counted, history
<1>12. Layout(Queued, Counted)'
  <2>1. /\ Chain(Queued', nHead', Counted', pos2, off2) /\ Whole(words', Queued', pos2)
        /\ nTail' = pos2[Len(Queued') + 1]
    BY <1>3, <1>9, <1>10, <1>11
  <2> QED BY <2>1 DEF Layout
<1> QED BY <1>5, <1>6, <1>12 DEF OscInv

LEMMA StoreStep ==
  ASSUME OscInv, SubmitStore
  PROVE  OscInv'
<1>1. /\ UNCHANGED <<words, nHead, nTail, fetcher, fetched, due>> /\ submitter' = NoCall
      /\ submitter.at = "store" /\ submitted' = "OK" /\ nSize' = submitter.newsize
      /\ held' = Append(held, submitter.packet)
  BY DEF SubmitStore
<1>2. PICK p \in Packet :
        /\ submitter = [at |-> "store", packet |-> p, newsize |-> nSize + Len(p) + 1]
        /\ nSize + Len(p) + 1 <= Capacity /\ fetcher = NoCall
  BY <1>1 DEF OscInv, SubmitCall, NoCall
<1>3. OscTypes'
  <2>1. nSize' \in 0..Capacity
    BY <1>1, <1>2, PacketLength, CapacityPositive DEF OscInv, OscTypes
  <2>2. held' \in Seq(Packet)
    BY <1>1, <1>2, AppendProperties DEF OscInv, OscTypes
  <2> QED BY <1>1, <2>1, <2>2 DEF OscInv, OscTypes, Statuses
<1>4. SubmitCall' /\ FetchCall'
  BY <1>1, <1>2 DEF SubmitCall, FetchCall
<1>5. Queued' = Queued /\ Counted' = Counted
  BY <1>1 DEF Queued, Counted, NoCall
<1>6. Layout(Queued, Counted)'
  BY <1>1, <1>5 DEF OscInv, Layout
<1> QED BY <1>3, <1>4, <1>6 DEF OscInv

LEMMA LoadStep ==
  ASSUME OscInv, submitter = NoCall, NEW limit \in Limits, FetchLoad(limit)
  PROVE  OscInv'
<1>1. UNCHANGED <<words, nSize, nHead, nTail, submitter, submitted, history>>
  BY DEF FetchLoad
<1>2. OscTypes'
  BY <1>1 DEF OscInv, OscTypes, FetchLoad, history, Statuses
<1>3. SubmitCall'
  BY <1>1 DEF SubmitCall
<1>4. FetchCall'
  BY <1>1, CapacityPositive DEF FetchLoad, FetchCall, OscInv, OscTypes
<1>5. Layout(Queued, Counted)'
  BY <1>1 DEF OscInv, Layout, Queued, Counted, history
<1> QED BY <1>2, <1>3, <1>4, <1>5 DEF OscInv

LEMMA ReadStep ==
  ASSUME OscInv, submitter = NoCall, FetchRead
  PROVE  OscInv'
<1>1. UNCHANGED <<words, nSize, nHead, nTail, submitter, submitted, history>> /\ fetcher.at = "read"
  BY DEF FetchRead
<1>2. OscTypes'
  BY <1>1 DEF OscInv, OscTypes, FetchRead, history, Statuses
<1>3. SubmitCall'
  BY <1>1 DEF SubmitCall
<1>4. FetchCall'
  <2>1. PICK limit \in Limits :
          fetcher = [at |-> "read", limit |-> limit, bufsz |-> nSize] /\ nSize >= 1
    BY <1>1 DEF OscInv, FetchCall, NoCall
  <2>2. held # <<>> /\ held' = held
    BY <1>1, <2>1, Oldest DEF history
  <2>3. /\ words[nHead] = Len(held[1]) /\ Len(held[1]) \in Nat /\ limit \in Nat
        /\ [i \in 1..words[nHead] |-> words[DataAt(Wrap(nHead + 1) + i - 1)]] = held[1]
    BY <2>2, Oldest, PacketLength, BufferAssumption
  <2>4. \/ fetcher' = NoCall
        \/ fetcher' = [at |-> "add", data |-> held[1]] /\ ~(words[nHead] > limit)
    BY <2>1, <2>3 DEF FetchRead
  <2> QED BY <2>2, <2>3, <2>4 DEF FetchCall
<1>5. Layout(Queued, Counted)'
  BY <1>1 DEF OscInv, Layout, Queued, Counted, history
<1> QED BY <1>2, <1>3, <1>4, <1>5 DEF OscInv

LEMMA AddStep ==
  ASSUME OscInv, submitter = NoCall, FetchAdd
  PROVE  OscInv'
<1>1. UNCHANGED <<words, nTail, submitter, submitted>> /\ fetcher.at = "add" /\ fetcher' = NoCall
  BY DEF FetchAdd
<1>2. held # <<>> /\ fetcher = [at |-> "add", data |-> held[1]]
  BY <1>1 DEF OscInv, FetchCall, NoCall
<1>3. /\ nHead' = Behind(nHead, held[1]) /\ nSize' = nSize - (Len(held[1]) + 1)
      /\ held' = Tail(held) /\ fetched'.status = "OK"
  BY <1>2 DEF FetchAdd, Behind, Taken
<1>4. /\ held \in Seq(Packet) /\ nHead \in 0..Capacity /\ nSize \in Nat /\ nSize <= Capacity
      /\ Len(held) \in Nat \ {0} /\ Len(held[1]) \in Nat
  BY <1>2, LenProperties, EmptySeq, ElementOfSeq, PacketLength, CapacityPositive, Oldest
     DEF OscInv, OscTypes
<1>5. PICK pos, off : /\ Chain(held, nHead, nSize, pos, off) /\ Whole(words, held, pos)
                      /\ nTail = pos[Len(held) + 1]
  BY DEF OscInv, Layout, Queued, Counted, NoCall
<1> DEFINE m == Len(held)
           pos2 == [k \in 1..m |-> pos[k + 1]]
           off2 == [k \in 0..(m - 1) |-> off[k + 1] - off[1]]
<1>6. /\ Chain(Tail(held), Behind(nHead, held[1]), nSize - (Len(held[1]) + 1), pos2, off2)
      /\ Whole(words, Tail(held), pos2)
      /\ Behind(nHead, held[1]) \in 0..Capacity
      /\ nSize - (Len(held[1]) + 1) \in Nat
  BY <1>2, <1>4, <1>5, Removed
<1>7. OscTypes'
  <2>1. nSize' \in 0..Capacity /\ nHead' \in 0..Capacity
    BY <1>3, <1>4, <1>6, CapacityPositive
  <2>2. held' \in Seq(Packet)
    BY <1>2, <1>3, <1>4, HeadTailProperties
  <2> QED BY <1>1, <1>3, <2>1, <2>2 DEF OscInv, OscTypes, Statuses
<1>8. SubmitCall' /\ FetchCall'
  BY <1>1 DEF SubmitCall, FetchCall
<1>9. nTail' = pos2[Len(Tail(held)) + 1]
  <2>1. Len(Tail(held)) + 1 = m /\ m \in 1..m
    BY <1>2, <1>4, HeadTailProperties
  <2> QED BY <1>1, <1>5, <2>1
<1>10. Queued' = Tail(held) /\ Counted' = nSize - (Len(held[1]) + 1)
  BY <1>1, <1>3 DEF Queued, Counted, NoCall
<1> HIDE DEF pos2, off2
<1>11. Layout(Queued, Counted)'
  BY <1>1, <1>3, <1>6, <1>9, <1>10 DEF Layout
<1> QED BY <1>7, <1>8, <1>11 DEF OscInv

LEMMA ClearStep ==
  ASSUME OscInv, Clear
  PROVE  OscInv'
<1>1. /\ nSize' = 0 /\ nHead' = 0 /\ nTail' = 0 /\ held' = <<>>
      /\ submitter = NoCall /\ fetcher = NoCall
      /\ UNCHANGED <<words, submitter, fetcher, submitted, fetched, due>>
  BY DEF Clear, Quiet
<1>2. OscTypes'
  BY <1>1, CapacityPositive, EmptySeq DEF OscInv, OscTypes
<1>3. SubmitCall' /\ FetchCall'
  BY <1>1 DEF SubmitCall, FetchCall
<1>4. Queued' = <<>> /\ Counted' = 0 /\ Len(<<>>) = 0
  BY <1>1 DEF Queued, Counted, NoCall
<1>5. Layout(Queued, Counted)'
  <2> DEFINE pos == [k \in 1..1 |-> 0]
             off == [k \in 0..0 |-> 0]
  <2>1. At(0, 0)
    BY CapacityPositive DEF At
  <2>2. Chain(<<>>, 0, 0, pos, off)
    BY <2>1 DEF Chain
  <2>3. Whole(words', <<>>, pos) /\ pos[1] = 0
    BY DEF Whole
  <2> HIDE DEF pos, off
  <2> QED BY <1>1, <1>4, <2>2, <2>3 DEF Layout
<1> QED BY <1>2, <1>3, <1>5 DEF OscInv

LEMMA OscStep == ASSUME OscInv, [Alternating]_vars PROVE OscInv'
<1>1. CASE UNCHANGED vars
  BY <1>1 DEF vars, history, OscInv, OscTypes, SubmitCall, FetchCall, Layout, Queued,
      Counted
<1>2. CASE fetcher = NoCall /\ Submit
  BY <1>2, CheckStep, WriteStep, StoreStep DEF Submit
<1>3. CASE submitter = NoCall /\ Fetch
  BY <1>3, LoadStep, ReadStep, AddStep DEF Fetch
<1> QED BY <1>1, <1>2, <1>3, ClearStep DEF Alternating

LEMMA OscInvariance == Spec => []OscInv
<1>1. Init => OscInv
  BY OscInit
<1>2. OscInv /\ [Alternating]_vars => OscInv'
  BY OscStep
<1> QED BY <1>1, <1>2, PTL DEF Spec

-----------------------------------------------------------------------------
(* The records are where the positions of LaidOut say, which are computed  *)
(* from the head on.                                                       *)
LEMMA StartIs ==
  ASSUME NEW m \in Nat, m = Len(held), NEW pos,
         pos = [k \in 1..(m + 1) |-> pos[k]], pos[1] = nHead,
         \A k \in 1..m : pos[k + 1] = Behind(pos[k], held[k])
  PROVE  \A k \in 1..(m + 1) : Start[k] = pos[k]
<1> DEFINE Is(g) == g = [k \in 1..(Len(held) + 1) |->
                           IF k = 1 THEN nHead ELSE Behind(g[k - 1], held[k - 1])]
<1>1. Is(pos)
  <2> SUFFICES ASSUME NEW k \in 1..(m + 1), k # 1
               PROVE  pos[k] = Behind(pos[k - 1], held[k - 1])
    OBVIOUS
  <2>1. k - 1 \in 1..m /\ (k - 1) + 1 = k
    OBVIOUS
  <2> QED BY <2>1
<1>2. Start = CHOOSE g : Is(g)
  BY DEF Start
<1>3. Is(Start)
  BY <1>1, <1>2
<1>4. /\ Start[1] = nHead
      /\ \A k \in 1..m : Start[k + 1] = Behind(Start[k], held[k])
  <2>1. /\ 1 \in 1..(m + 1)
        /\ \A k \in 1..m : k + 1 \in 1..(m + 1) /\ k + 1 # 1 /\ (k + 1) - 1 = k
    OBVIOUS
  <2>2. Start = [k \in 1..(m + 1) |->
                   IF k = 1 THEN nHead ELSE Behind(Start[k - 1], held[k - 1])]
    BY <1>3
  <2> HIDE DEF Is
  <2> QED BY <2>1, <2>2
<1> HIDE DEF Is
<1>5. PICK same : same = {k \in 1..(m + 1) : Start[k] = pos[k]}
  OBVIOUS
<1>6. 1 \in Nat /\ m + 1 \in Nat /\ 1 \in same
  BY <1>4, <1>5
<1>7. \A k \in 1..((m + 1) - 1) : k \in same => k + 1 \in same
  <2>1. \A k \in 1..((m + 1) - 1) : k \in 1..m /\ k + 1 \in 1..(m + 1)
    OBVIOUS
  <2> QED BY <1>4, <1>5, <2>1
<1>8. \A k \in 1..(m + 1) : k \in same
  BY <1>6, <1>7, Reaches
<1> QED BY <1>5, <1>8

(* So are the words that the packets of the queue take. *)
LEMMA UsedIs ==
  ASSUME NEW m \in Nat, m = Len(held), NEW off,
         off = [k \in 0..m |-> off[k]], off[0] = 0,
         \A k \in 1..m : off[k] = off[k - 1] + Len(held[k]) + 1
  PROVE  Queue!Used = off[m]
<1> DEFINE Is(g) == g = [k \in 0..Len(held) |->
                           IF k = 0 THEN 0 ELSE g[k - 1] + Len(held[k]) + 1]
           used == CHOOSE g : Is(g)
<1>1. Is(off)
  <2> SUFFICES ASSUME NEW k \in 0..m, k # 0
               PROVE  off[k] = off[k - 1] + Len(held[k]) + 1
    OBVIOUS
  <2>1. k \in 1..m
    OBVIOUS
  <2> QED BY <2>1
<1>2. Queue!Used = used[Len(held)]
  BY DEF Queue!Used
<1>3. Is(used)
  BY <1>1
<1>4. used[0] = 0 /\ \A k \in 1..m : used[k] = used[k - 1] + Len(held[k]) + 1
  <2>1. 0 \in 0..m /\ \A k \in 1..m : k \in 0..m /\ k # 0
    OBVIOUS
  <2>2. used = [k \in 0..m |-> IF k = 0 THEN 0 ELSE used[k - 1] + Len(held[k]) + 1]
    BY <1>3
  <2> HIDE DEF Is, used
  <2> QED BY <2>1, <2>2
<1> HIDE DEF Is, used
<1>5. PICK same : same = {k \in 0..m : used[k] = off[k]}
  OBVIOUS
<1>6. 0 \in Nat /\ 0 \in same
  BY <1>4, <1>5
<1>7. \A k \in 0..(m - 1) : k \in same => k + 1 \in same
  <2>1. \A k \in 0..(m - 1) : k + 1 \in 1..m /\ (k + 1) - 1 = k /\ k + 1 \in 0..m
    OBVIOUS
  <2> SUFFICES ASSUME NEW k \in 0..(m - 1), k \in same PROVE k + 1 \in same
    OBVIOUS
  <2>2. used[k] = off[k]
    BY <1>5
  <2>3. used[k + 1] = used[k] + Len(held[k + 1]) + 1
    BY <1>4, <2>1
  <2>4. off[k + 1] = off[k] + Len(held[k + 1]) + 1
    BY <2>1
  <2>5. used[k + 1] = off[k + 1]
    BY <2>2, <2>3, <2>4
  <2> QED BY <1>5, <2>1, <2>5
<1>8. \A k \in 0..m : k \in same
  BY <1>6, <1>7, Reaches
<1> QED BY <1>2, <1>5, <1>8

LEMMA OscTyped == ASSUME OscInv PROVE TypeOK
<1>1. PICK pos, off : /\ Chain(Queued, nHead, Counted, pos, off)
                      /\ nTail = pos[Len(Queued) + 1]
  BY DEF OscInv, Layout
<1>2. nTail \in 0..Capacity
  <2>1. Len(Queued) \in Nat
    <3>1. Queued \in Seq(Packet)
      BY AppendProperties DEF OscInv, OscTypes, SubmitCall, NoCall, Queued
    <3> QED BY <3>1, LenProperties
  <2>2. At(pos[Len(Queued) + 1], nHead + off[Len(Queued)])
    BY <1>1, <2>1 DEF Chain
  <2> QED BY <1>1, <2>2 DEF At
<1>3. submitter = NoCall \/ /\ submitter.at \in {"write", "store"}
                            /\ submitter.packet \in Packets
                            /\ submitter.newsize \in 0..Capacity
  BY PacketLength, CapacityPositive DEF OscInv, OscTypes, SubmitCall, Packet
<1>4. fetcher = NoCall \/ /\ fetcher.at \in {"read", "add"}
                          /\ fetcher.at = "read" => fetcher.bufsz \in 0..Capacity
  BY DEF OscInv, OscTypes, FetchCall
<1> QED BY <1>2, <1>3, <1>4 DEF OscInv, OscTypes, TypeOK, Word

(* The variables keep their types (submit(), fetch(), clear()), for every  *)
(* capacity and all packets.                                               *)
THEOREM RingTypes == Spec => []TypeOK
<1>1. OscInv => TypeOK
  BY OscTyped
<1> QED BY <1>1, OscInvariance, PTL

-----------------------------------------------------------------------------
LEMMA Division ==
  ASSUME NEW n \in Nat \ {0}, NEW i \in Int
  PROVE  /\ i % n \in 0..(n - 1) /\ i \div n \in Int
         /\ i = n * (i \div n) + (i % n)
OBVIOUS

LEMMA SmallProduct ==
  ASSUME NEW n \in Nat \ {0}, NEW q \in Int, n * q < n, n * q > 0 - n
  PROVE  q = 0
OBVIOUS

LEMMA Product ==
  ASSUME NEW n \in Int, NEW x \in Int, NEW y \in Int
  PROVE  n * (x - y) = n * x - n * y
OBVIOUS

LEMMA Period ==
  ASSUME NEW n \in Nat \ {0}, NEW i \in Int, NEW e \in Int, e = i - n
  PROVE  i % n = e % n
<1>1. /\ i % n \in 0..(n - 1) /\ e % n \in 0..(n - 1)
      /\ \E x \in Int : i = n * x + (i % n)
      /\ \E y \in Int : e = n * y + (e % n)
  BY Division
<1> PICK x \in Int : i = n * x + (i % n)
  BY <1>1
<1> PICK y \in Int : e = n * y + (e % n)
  BY <1>1
<1> DEFINE q == x - y
<1>2. n * q = n * x - n * y
  BY Product
<1>3. q \in Int /\ n * q > 0 /\ n * q < 2 * n
  BY <1>1, <1>2
<1> HIDE DEF q
<1>4. n * (q - 1) = n * q - n
  BY <1>3
<1>5. q - 1 = 0
  BY <1>3, <1>4, SmallProduct
<1>6. n * q = n
  BY <1>3, <1>5
<1> QED BY <1>1, <1>2, <1>6

(* Between calls the ring holds exactly the records of the packets that    *)
(* were accepted and not taken, oldest first, from the head to the tail    *)
(* (submit(), fetch(): both memcpy(), the wraps and nSize).                *)
THEOREM RecordsLaidOut == Spec => []LaidOut
<1>1. ASSUME OscInv, Quiet PROVE LaidOut
  <2> DEFINE m == Len(held)
  <2>1. held \in Seq(Packet) /\ m \in Nat
    BY <1>1, LenProperties DEF OscInv, OscTypes
  <2>2. PICK pos, off : /\ Chain(held, nHead, nSize, pos, off) /\ Whole(words, held, pos)
                        /\ nTail = pos[m + 1]
    BY <1>1 DEF OscInv, Layout, Queued, Counted, Quiet, NoCall
  <2>3. \A k \in 1..(m + 1) : Start[k] = pos[k]
    <3>1. /\ pos \in [1..(m + 1) -> Int] /\ pos[1] = nHead
          /\ \A k \in 1..m : pos[k + 1] = Behind(pos[k], held[k])
      BY <2>2 DEF Chain
    <3> QED BY <2>1, <3>1, StartIs
  <2>4. ASSUME NEW k \in 1..m
        PROVE  words[Start[k]] = Len(held[k]) /\ RecordAt(Start[k]) = held[k]
    <3>1. Start[k] = pos[k] /\ Record(words, pos[k], held[k])
      BY <2>1, <2>2, <2>3 DEF Whole
    <3>2. held[k] = [i \in 1..Len(held[k]) |-> held[k][i]]
      <4>1. held[k] \in Seq(Int)
        BY <2>1, ElementOfSeq, PacketLength
      <4> QED BY <4>1, LenProperties
    <3> QED BY <3>1, <3>2 DEF Record, RecordAt
  <2>5. Start[m + 1] = nTail
    BY <2>1, <2>2, <2>3
  <2>6. (nTail - nHead) % Capacity = nSize % Capacity
    <3>1. At(nTail, nHead + nSize)
      <4>1. At(pos[m + 1], nHead + off[m]) /\ off[m] = nSize
        BY <2>1, <2>2 DEF Chain
      <4> QED BY <2>2, <4>1
    <3>2. nHead \in Int /\ nSize \in Int /\ Capacity \in Nat \ {0}
      BY <1>1, CapacityPositive DEF OscInv, OscTypes
    <3> DEFINE once == nSize - Capacity
               twice == once - Capacity
    <3>3. nTail - nHead \in {nSize, once, twice} /\ once \in Int /\ twice \in Int
      BY <3>1, <3>2 DEF At
    <3>4. once = nSize - Capacity /\ twice = once - Capacity
      OBVIOUS
    <3> HIDE DEF once, twice
    <3>5. nSize % Capacity = once % Capacity /\ once % Capacity = twice % Capacity
      BY <3>2, <3>3, <3>4, Period
    <3> QED BY <3>3, <3>5
  <2>7. held = <<>> <=> nSize = 0
    BY <1>1, Oldest DEF Quiet
  <2> QED BY <2>4, <2>5, <2>6, <2>7 DEF LaidOut
<1>2. OscInv => LaidOut
  BY <1>1 DEF LaidOut
<1> QED BY <1>2, OscInvariance, PTL

-----------------------------------------------------------------------------
(* A step of the ring is one of the queue, or none. *)
LEMMA UsedCounted ==
  ASSUME OscInv, submitter.at # "store"
  PROVE  Queue!Used = nSize
<1>1. held \in Seq(Packet) /\ Len(held) \in Nat
  BY LenProperties DEF OscInv, OscTypes
<1>2. PICK pos, off : Chain(held, nHead, nSize, pos, off)
  BY DEF OscInv, Layout, Queued, Counted
<1>3. /\ off \in [0..Len(held) -> Nat] /\ off[0] = 0 /\ off[Len(held)] = nSize
      /\ \A k \in 1..Len(held) : off[k] = off[k - 1] + Len(held[k]) + 1
  BY <1>2 DEF Chain
<1> QED BY <1>1, <1>3, UsedIs

LEMMA QueueSubmits ==
  ASSUME OscInv, Submit
  PROVE  [Queue!QueueNext]_(Queue!queueVars)
<1> USE DEF Queue!queueVars
<1>0. held \in Seq(Packet) /\ nSize \in Nat /\ Capacity \in Nat
  BY CapacityPositive DEF OscInv, OscTypes
<1>1. ASSUME NEW p \in Packets, SubmitCheck(p)
      PROVE  [Queue!QueueNext]_(Queue!queueVars)
  <2>1. UNCHANGED <<held, fetched>> /\ submitter = NoCall
    BY <1>1 DEF SubmitCheck, history
  <2>2. Queue!Used = nSize /\ (held = <<>> <=> nSize = 0)
    BY <2>1, UsedCounted, Oldest DEF NoCall
  <2>3. CASE p # <<>> /\ nSize + Len(p) + 1 <= Capacity
    <3>1. Len(p) \in Nat
      BY <2>3, PacketLength DEF Packet
    <3> QED BY <1>0, <1>1, <2>1, <2>3, <3>1 DEF SubmitCheck
  <2>4. CASE ~(p # <<>> /\ nSize + Len(p) + 1 <= Capacity)
    <3>1. p = <<>> \/ (Len(p) \in Nat /\ nSize + Len(p) + 1 > Capacity)
      BY <1>0, <2>4, PacketLength DEF Packet
    <3>2. /\ submitted' = IF p = <<>> THEN "BAD_ARGUMENTS"
                          ELSE IF held = <<>> THEN "TOO_BIG" ELSE "OVERFLOW"
      BY <1>1, <2>2, <3>1 DEF SubmitCheck
    <3>3. Queue!QueueSubmit(p)
      BY <1>0, <2>1, <2>2, <3>1, <3>2 DEF Queue!QueueSubmit
    <3> QED BY <3>3 DEF Queue!QueueNext
  <2> QED BY <2>3, <2>4
<1>2. CASE SubmitWrite
  BY <1>2 DEF SubmitWrite, history
<1>3. CASE SubmitStore
  <2>1. submitter.at = "store" /\ submitted' = "OK" /\ held' = Append(held, submitter.packet)
        /\ UNCHANGED fetched
    BY <1>3 DEF SubmitStore
  <2>2. PICK p \in Packet :
          /\ submitter = [at |-> "store", packet |-> p, newsize |-> nSize + Len(p) + 1]
          /\ nSize + Len(p) + 1 <= Capacity
    BY <2>1 DEF OscInv, SubmitCall, NoCall
  <2>3. Queue!Used = nSize
    <3>1. held \in Seq(Packet) /\ Append(held, p) \in Seq(Packet) /\ Len(held) \in Nat
          /\ Len(p) \in Nat /\ Len(Append(held, p)) = Len(held) + 1
          /\ Append(held, p)[Len(held) + 1] = p
          /\ \A k \in 1..Len(held) : Append(held, p)[k] = held[k]
      BY <1>0, AppendProperties, LenProperties, PacketLength
    <3>2. PICK pos, off : Chain(Append(held, p), nHead, nSize + Len(p) + 1, pos, off)
      BY <2>1, <2>2 DEF OscInv, Layout, Queued, Counted
    <3> DEFINE m == Len(held)
               less == [k \in 0..m |-> off[k]]
    <3>3. /\ off \in [0..(m + 1) -> Nat] /\ off[0] = 0 /\ off[m + 1] = nSize + Len(p) + 1
          /\ \A k \in 1..(m + 1) : off[k] = off[k - 1] + Len(Append(held, p)[k]) + 1
      BY <3>1, <3>2 DEF Chain
    <3> HIDE DEF m
    <3>4. m \in Nat /\ m = Len(held) /\ Append(held, p)[m + 1] = p
          /\ \A k \in 1..m : Append(held, p)[k] = held[k]
      BY <3>1 DEF m
    <3>5. less \in [0..m -> Nat] /\ less[0] = 0 /\ less[m] = off[m]
      BY <3>3, <3>4
    <3>6. \A k \in 1..m : less[k] = less[k - 1] + Len(held[k]) + 1
      BY <3>3, <3>4
    <3> HIDE DEF less
    <3>7. Queue!Used = less[m]
      BY <3>4, <3>5, <3>6, UsedIs
    <3>8. off[m] = nSize
      <4>1. off[m + 1] = off[m] + Len(p) + 1
        <5>1. m + 1 \in 1..(m + 1) /\ (m + 1) - 1 = m
          BY <3>4
        <5>2. off[m + 1] = off[(m + 1) - 1] + Len(Append(held, p)[m + 1]) + 1
          BY <3>3, <5>1
        <5> QED BY <3>4, <5>1, <5>2
      <4>2. off[m] \in Nat /\ Len(p) \in Nat /\ off[m + 1] = nSize + Len(p) + 1
        BY <3>1, <3>3, <3>4
      <4> QED BY <1>0, <4>1, <4>2
    <3> QED BY <3>5, <3>7, <3>8
  <2>4. Queue!QueueSubmit(p)
    BY <2>1, <2>2, <2>3 DEF Queue!QueueSubmit, Packet
  <2> QED BY <2>4 DEF Queue!QueueNext, Packet
<1> QED BY <1>1, <1>2, <1>3 DEF Submit

LEMMA QueueFetches ==
  ASSUME OscInv, submitter = NoCall, Fetch
  PROVE  [Queue!QueueNext]_(Queue!queueVars)
<1> USE DEF Queue!queueVars
<1>1. ASSUME NEW limit \in Limits, FetchLoad(limit)
      PROVE  [Queue!QueueNext]_(Queue!queueVars)
  <2>1. UNCHANGED <<held, submitted>>
    BY <1>1 DEF FetchLoad, history
  <2>2. CASE nSize < 1
    <3>1. held = <<>>
      BY <2>2, Oldest, CapacityPositive DEF OscInv, OscTypes
    <3>2. Queue!QueueFetch(limit)
      BY <1>1, <2>1, <2>2, <3>1 DEF FetchLoad, Queue!QueueFetch
    <3> QED BY <3>2 DEF Queue!QueueNext
  <2>3. CASE ~(nSize < 1)
    BY <1>1, <2>1, <2>3 DEF FetchLoad
  <2> QED BY <2>2, <2>3
<1>2. CASE FetchRead
  <2>1. UNCHANGED <<held, submitted>> /\ fetcher.at = "read"
    BY <1>2 DEF FetchRead, history
  <2>2. PICK limit \in Limits :
          fetcher = [at |-> "read", limit |-> limit, bufsz |-> nSize] /\ nSize >= 1
    BY <2>1 DEF OscInv, FetchCall, NoCall
  <2>3. held # <<>>
    BY <2>2, Oldest
  <2>4. /\ words[nHead] = Len(held[1]) /\ Len(held[1]) + 1 <= nSize /\ Len(held[1]) \in Nat
        /\ limit \in Nat /\ nSize \in Nat /\ held[1] = Head(held)
    BY <2>3, Oldest, PacketLength, BufferAssumption, CapacityPositive DEF OscInv, OscTypes
  <2>5. CASE Len(held[1]) > limit
    <3>1. fetched' = [status |-> "OVERFLOW", data |-> <<>>]
      BY <1>2, <2>2, <2>4, <2>5 DEF FetchRead
    <3>2. Queue!QueueFetch(limit)
      BY <2>1, <2>3, <2>4, <2>5, <3>1 DEF Queue!QueueFetch
    <3> QED BY <3>2 DEF Queue!QueueNext
  <2>6. CASE ~(Len(held[1]) > limit)
    <3>1. UNCHANGED fetched
      BY <1>2, <2>2, <2>4, <2>6 DEF FetchRead
    <3> QED BY <2>1, <3>1
  <2> QED BY <2>5, <2>6
<1>3. CASE FetchAdd
  <2>1. PICK limit \in Limits :
          /\ held # <<>> /\ fetcher = [at |-> "add", data |-> held[1]]
          /\ Len(held[1]) <= limit
    BY <1>3 DEF FetchAdd, OscInv, FetchCall, NoCall
  <2>2. Len(held[1]) \in Nat /\ limit \in Nat /\ held[1] = Head(held)
    BY <2>1, Oldest, PacketLength, BufferAssumption
  <2>3. /\ fetched' = [status |-> "OK", data |-> held[1]]
        /\ held' = Tail(held) /\ UNCHANGED submitted
    BY <1>3, <2>1 DEF FetchAdd, Taken
  <2>4. Queue!QueueFetch(limit)
    BY <2>1, <2>2, <2>3 DEF Queue!QueueFetch
  <2> QED BY <2>4 DEF Queue!QueueNext
<1> QED BY <1>1, <1>2, <1>3 DEF Fetch

(* The ring is a queue, for every capacity: packets come out whole, once,  *)
(* in the order they went in; submit() refuses one only when it does not   *)
(* fit, fetch() finds nothing only when nothing is there.                  *)
THEOREM RingIsQueue == Spec => ImplementsQueue
<1>1. Init => Queue!QueueInit
  BY DEF Init, Queue!QueueInit
<1>2. OscInv /\ [Alternating]_vars => [Queue!QueueNext]_(Queue!queueVars)
  <2>1. CASE UNCHANGED vars
    BY <2>1 DEF vars, history, Queue!queueVars
  <2>2. CASE Clear
    BY <2>2 DEF Clear, Queue!QueueNext, Queue!QueueClear
  <2> QED BY <2>1, <2>2, QueueSubmits, QueueFetches DEF Alternating
<1> QED BY <1>1, <1>2, OscInvariance, PTL DEF Spec, ImplementsQueue, Queue!QueueSpec
=============================================================================
