----------------------------- MODULE OscBuffer ------------------------------
(***************************************************************************)
(* core::osc_buffer_t (src/main/core/osc_buffer.cpp): the ring buffer that *)
(* carries OSC packets between the KVT dispatcher and a user interface.    *)
(*                                                                         *)
(* One thread submits and one thread fetches.  Each of their accesses to   *)
(* the word they share, nSize, is a step of its own.  The ring is counted  *)
(* in words of 4 bytes.  A position may equal nCapacity: the size of a     *)
(* record goes to the word behind the ring then, its data to the start.    *)
(***************************************************************************)
EXTENDS Integers, Sequences

CONSTANTS
  Capacity,   \* nCapacity, in words
  Packets,    \* the packets submitted: sequences of words
  Limits,     \* the limits fetch() is called with, in words
  Junk        \* what the memory may hold before it is written

ASSUME BufferAssumption ==
  /\ Capacity \in Nat \ {0}
  /\ Packets \subseteq Seq(Int) /\ Limits \subseteq Nat \ {0} /\ Junk \subseteq Int

VARIABLES
  words,      \* pBuffer
  nSize, nHead, nTail,
  submitter,  \* the call of submit() in progress: its packet and newsize
  fetcher,    \* the call of fetch() or skip() in progress: limit, bufsz, data
  submitted,  \* status of the last submit()
  fetched,    \* status of the last fetch() and the packet it returned
  held,       \* history: the packets accepted and not taken yet, oldest first
  due         \* history: the packet the last fetch() or skip() should have taken

history == <<held, due>>
vars == <<words, nSize, nHead, nTail, submitter, fetcher, submitted, fetched, history>>

NoCall == [at |-> "idle"]
Quiet == submitter = NoCall /\ fetcher = NoCall

(* "if (pos > nCapacity) pos -= nCapacity" *)
Wrap(pos) == IF pos > Capacity THEN pos - Capacity ELSE pos

(* Where the two memcpy() put or find a word of data. *)
DataAt(pos) == IF pos < Capacity THEN pos ELSE pos - Capacity

Init ==
  /\ words \in [0..Capacity -> Junk]
  /\ nSize = 0 /\ nHead = 0 /\ nTail = 0
  /\ submitter = NoCall /\ fetcher = NoCall
  /\ submitted = "NONE"
  /\ fetched = [status |-> "NONE", data |-> <<>>]
  /\ held = <<>> /\ due = <<>>

-----------------------------------------------------------------------------
(* Slip: the word for the size of the record is forgotten. *)
SubmitCheckNoHeader(p) ==
  /\ submitter = NoCall
  /\ IF p = <<>>
     THEN submitted' = "BAD_ARGUMENTS" /\ UNCHANGED submitter
     ELSE IF nSize + Len(p) > Capacity
     THEN /\ submitted' = IF nSize = 0 THEN "TOO_BIG" ELSE "OVERFLOW"
          /\ UNCHANGED submitter
     ELSE /\ submitter' = [at |-> "write", packet |-> p, newsize |-> nSize + Len(p) + 1]
          /\ UNCHANGED submitted
  /\ UNCHANGED <<words, nSize, nHead, nTail, fetcher, fetched, history>>

(* submit(): the check for space against nSize as it is now. *)
SubmitCheck(p) ==
  /\ submitter = NoCall
  /\ IF p = <<>>
     THEN submitted' = "BAD_ARGUMENTS" /\ UNCHANGED submitter
     ELSE IF nSize + Len(p) + 1 > Capacity
     THEN /\ submitted' = IF nSize = 0 THEN "TOO_BIG" ELSE "OVERFLOW"
          /\ UNCHANGED submitter
     ELSE /\ submitter' = [at |-> "write", packet |-> p, newsize |-> nSize + Len(p) + 1]
          /\ UNCHANGED submitted
  /\ UNCHANGED <<words, nSize, nHead, nTail, fetcher, fetched, history>>

(* Slip: the data is not taken to the start when it meets the end. *)
SubmitWriteShort ==
  /\ submitter.at = "write"
  /\ LET p == submitter.packet
         start == Wrap(nTail + 1)
         written == {i \in 1..Len(p) : start + i - 1 < Capacity}
     IN  /\ words' = [w \in 0..Capacity |->
              IF w = nTail THEN Len(p)
              ELSE IF \E i \in written : w = start + i - 1
              THEN p[CHOOSE i \in written : w = start + i - 1]
              ELSE words[w]]
         /\ nTail' = Wrap(start + Len(p))
  /\ submitter' = [submitter EXCEPT !.at = "store"]
  /\ UNCHANGED <<nSize, nHead, fetcher, submitted, fetched, history>>

(* submit(): the size and the data of the record, and the new tail. *)
SubmitWrite ==
  /\ submitter.at = "write"
  /\ LET p == submitter.packet
         start == Wrap(nTail + 1)
     IN  /\ words' = [w \in 0..Capacity |->
              IF \E i \in 1..Len(p) : w = DataAt(start + i - 1)
              THEN p[CHOOSE i \in 1..Len(p) : w = DataAt(start + i - 1)]
              ELSE IF w = nTail THEN Len(p) ELSE words[w]]
         /\ nTail' = Wrap(start + Len(p))
  /\ submitter' = [submitter EXCEPT !.at = "store"]
  /\ UNCHANGED <<nSize, nHead, fetcher, submitted, fetched, history>>

(* submit(): the size computed before the write replaces nSize. *)
SubmitStore ==
  /\ submitter.at = "store"
  /\ nSize' = submitter.newsize
  /\ submitted' = "OK"
  /\ held' = Append(held, submitter.packet)
  /\ submitter' = NoCall
  /\ UNCHANGED <<words, nHead, nTail, fetcher, fetched, due>>

-----------------------------------------------------------------------------
(* fetch(): is there a record? *)
FetchLoad(limit) ==
  /\ fetcher = NoCall
  /\ IF nSize < 1
     THEN fetched' = [status |-> "NO_DATA", data |-> <<>>] /\ UNCHANGED fetcher
     ELSE fetcher' = [at |-> "read", limit |-> limit, bufsz |-> nSize] /\ UNCHANGED fetched
  /\ UNCHANGED <<words, nSize, nHead, nTail, submitter, submitted, history>>

(* fetch(): the checks of the record, and the copy of its data. *)
FetchRead ==
  /\ fetcher.at = "read"
  /\ LET psize == words[nHead]
         start == Wrap(nHead + 1)
         fail(status) == /\ fetched' = [status |-> status, data |-> <<>>]
                         /\ fetcher' = NoCall
     IN  IF psize > fetcher.limit THEN fail("OVERFLOW")
         ELSE IF psize + 1 > fetcher.bufsz THEN fail("CORRUPTED")
         ELSE /\ fetcher' = [at |-> "add",
                             data |-> [i \in 1..psize |-> words[DataAt(start + i - 1)]]]
              /\ UNCHANGED fetched
  /\ UNCHANGED <<words, nSize, nHead, nTail, submitter, submitted, history>>

(* What a fetch() or skip() takes, for the history. *)
Taken ==
  /\ held' = IF held = <<>> THEN <<>> ELSE Tail(held)
  /\ due' = IF held = <<>> THEN <<>> ELSE Head(held)

(* Slip: the size of the data alone is given back. *)
FetchAddShort ==
  /\ fetcher.at = "add"
  /\ nHead' = Wrap(Wrap(nHead + 1) + Len(fetcher.data))
  /\ nSize' = nSize - Len(fetcher.data)
  /\ fetched' = [status |-> "OK", data |-> fetcher.data]
  /\ Taken
  /\ fetcher' = NoCall
  /\ UNCHANGED <<words, nTail, submitter, submitted>>

(* fetch(): the new head, which only this thread uses, and atomic_add(). *)
FetchAdd ==
  /\ fetcher.at = "add"
  /\ nHead' = Wrap(Wrap(nHead + 1) + Len(fetcher.data))
  /\ nSize' = nSize - (Len(fetcher.data) + 1)
  /\ fetched' = [status |-> "OK", data |-> fetcher.data]
  /\ Taken
  /\ fetcher' = NoCall
  /\ UNCHANGED <<words, nTail, submitter, submitted>>

(* skip(): the head is taken back with "% nCapacity", unlike in fetch(). *)
Skip ==
  /\ Quiet
  /\ nSize >= 1 /\ words[nHead] + 1 <= nSize
  /\ nHead' = (nHead + words[nHead] + 1) % Capacity
  /\ nSize' = nSize - (words[nHead] + 1)
  /\ Taken
  /\ fetched' = [status |-> "SKIPPED", data |-> <<>>]
  /\ UNCHANGED <<words, nTail, submitter, fetcher, submitted>>

(* clear(), which KVTDispatcher::iterate() calls while nobody is connected. *)
Clear ==
  /\ Quiet
  /\ nSize' = 0 /\ nHead' = 0 /\ nTail' = 0
  /\ held' = <<>>
  /\ UNCHANGED <<words, submitter, fetcher, submitted, fetched, due>>

-----------------------------------------------------------------------------
Submit == (\E p \in Packets : SubmitCheck(p)) \/ SubmitWrite \/ SubmitStore
Fetch == (\E limit \in Limits : FetchLoad(limit)) \/ FetchRead \/ FetchAdd

(* Calls that do not overlap: both ends of pTx hold the KVT mutex, and the *)
(* synchronization of VST3 uses both buffers in one thread.                *)
Alternating == \/ fetcher = NoCall /\ Submit
               \/ submitter = NoCall /\ Fetch
               \/ Clear
Spec == Init /\ [][Alternating]_vars

(* One thread submits while one thread fetches: pRx of the LV2 wrapper,    *)
(* whose UI submits without the mutex.                                     *)
ConcurrentSpec == Init /\ [][Submit \/ Fetch]_vars

(* Calls that do not overlap, by a reader that skips what is too large for *)
(* it, as receive_changes() and the wrappers do.                           *)
SkipOverflow == fetched.status = "OVERFLOW" /\ Skip
SkippingSpec == Init /\ [][Alternating \/ SkipOverflow]_vars
-----------------------------------------------------------------------------
Word == Int
Statuses == {"NONE", "OK", "BAD_ARGUMENTS", "TOO_BIG", "OVERFLOW", "NO_DATA",
             "CORRUPTED", "SKIPPED"}

TypeOK ==
  /\ DOMAIN words = 0..Capacity /\ \A i \in 0..Capacity : words[i] \in Word
  /\ nSize \in 0..Capacity /\ nHead \in 0..Capacity /\ nTail \in 0..Capacity
  /\ submitter = NoCall \/ /\ submitter.at \in {"write", "store"}
                           /\ submitter.packet \in Packets
                           /\ submitter.newsize \in 0..Capacity
  /\ fetcher = NoCall \/ /\ fetcher.at \in {"read", "add"}
                         /\ fetcher.at = "read" => fetcher.bufsz \in 0..Capacity
  /\ submitted \in Statuses /\ fetched.status \in Statuses

(* The record that begins at a position, and the position behind it. *)
RecordAt(pos) == [i \in 1..words[pos] |-> words[DataAt(Wrap(pos + 1) + i - 1)]]
Behind(pos, p) == Wrap(Wrap(pos + 1) + Len(p))

(* Where the record of held[k] begins. *)
Start == LET pos[k \in 1..(Len(held) + 1)] ==
               IF k = 1 THEN nHead ELSE Behind(pos[k - 1], held[k - 1])
         IN  pos

(* Between calls the ring holds exactly the records of the packets that    *)
(* were accepted and not taken, oldest first, from the head to the tail,   *)
(* and nSize counts their words, whatever wraps where.                     *)
LaidOut ==
  Quiet =>
    /\ \A k \in 1..Len(held) :
         words[Start[k]] = Len(held[k]) /\ RecordAt(Start[k]) = held[k]
    /\ Start[Len(held) + 1] = nTail
    /\ (nTail - nHead) % Capacity = nSize % Capacity
    /\ held = <<>> <=> nSize = 0

(* The ring is a queue: packets come out whole, once, in the order they    *)
(* went in; submit() refuses one only when it does not fit and fetch()     *)
(* finds nothing only when nothing is there.                               *)
Queue == INSTANCE OscQueue WITH queue <- held
ImplementsQueue == Queue!QueueSpec

(* What fetch() returns is the oldest packet accepted: the promise of the  *)
(* header, "safe to use if one thread is reading data and one thread is    *)
(* submitting data", and what "skip current message" leaves to be read.    *)
InOrder == fetched.status = "OK" => fetched.data = due
=============================================================================
