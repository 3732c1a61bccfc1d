----------------------------- MODULE StreamPort ------------------------------
(***************************************************************************)
(* plug::stream_t (src/main/plug/data.cpp): a history of samples that the  *)
(* audio thread writes frame by frame (src) and the user interface keeps a *)
(* copy of (dst) by sync().                                                *)
(*                                                                         *)
(* A stream is a ring of frames, found by their identifiers, over a ring   *)
(* of samples.  Samples are numbered in the order they are written, 0 is   *)
(* silence; all channels are alike, so there is one.  Nothing is locked:   *)
(* the writer goes on while sync() copies.                                 *)
(***************************************************************************)
EXTENDS Integers, Sequences, FiniteSetsExt

CONSTANTS
  nFrames,        \* how many frames sync() copies one by one
  nFrameCap,      \* create(): the power of two that holds eight times as many
  MaxFrameSize,   \* STREAM_MAX_FRAME_SIZE
  nBufMax,        \* how much history read() gives
  MaxFrames       \* bound: frames written

StreamConstants ==
  /\ nFrames \in Nat \ {0}
  /\ nFrameCap \in Nat /\ \E k \in 0..(8 * nFrames) : nFrameCap = 2^k
  /\ nFrameCap >= 8 * nFrames /\ nFrameCap < 16 * nFrames
  /\ MaxFrameSize \in Nat \ {0}
  /\ nBufMax \in Nat \ {0} /\ MaxFrames \in Nat
  \* With less history nBufCap is one frame, and add_frame() silences what
  \* read() still gives.
  /\ MaxFrameSize < 2 * nBufMax

VARIABLES
  src, dst,       \* the streams of the plugin and of the user interface
  adding,         \* the writer has added a frame that it did not commit yet
  reader,         \* where sync() is, with its src_frm, dst_frm and sf
  written,        \* history: how many samples were committed with each frame,
                  \* since the last clear()
  past            \* history: whether dst holds what came from a full copy
                  \* ("full") and whether src was cleared ("cleared")

vars == <<src, dst, adding, reader, written, past>>

(* create(): more samples are kept than read() gives. *)
nBufCap == ((2 * nBufMax + MaxFrameSize - 1) \div MaxFrameSize) * MaxFrameSize

NoFrame == [id |-> 0, head |-> 0, tail |-> 0, size |-> 0, length |-> 0]
NotReading == [at |-> "idle", last |-> 0, next |-> 0, sf |-> NoFrame]

Init ==
  /\ src = [nFrameId |-> 0, vFrames |-> [i \in 0..(nFrameCap - 1) |-> NoFrame],
            data |-> [i \in 0..(nBufCap - 1) |-> 0]]
  /\ dst = src
  /\ adding = FALSE /\ reader = NotReading
  /\ written = <<>> /\ past = {}

Frame(s, id) == s.vFrames[id % nFrameCap]

(* Samples put into the ring from a position on. *)
Put(data, head, samples) ==
  [i \in DOMAIN data |->
     LET k == (i - head) % nBufCap
     IN IF k < Len(samples) THEN samples[k + 1] ELSE data[i]]

Taken(data, head, count) ==
  [k \in 1..count |-> data[(head + k - 1) % nBufCap]]

Total(id) == IF id = 0 THEN 0 ELSE written[id]

(* read() of everything: nothing when the frame is not the current one.    *)
ReadAll(s) ==
  LET f == Frame(s, s.nFrameId)
  IN IF f.id = s.nFrameId THEN Taken(s.data, f.tail - f.length, f.length) ELSE <<>>

TypeOK ==
  /\ \A s \in {src, dst} :
       /\ s.nFrameId \in 0..MaxFrames
       /\ DOMAIN s.vFrames = 0..(nFrameCap - 1) /\ DOMAIN s.data = 0..(nBufCap - 1)
       /\ \A i \in DOMAIN s.vFrames :
            LET f == s.vFrames[i]
            IN /\ f.id \in 0..MaxFrames /\ {f.head, f.tail} \subseteq 0..(nBufCap - 1)
               /\ f.size \in 0..MaxFrameSize /\ f.length \in 0..Max({nBufMax, MaxFrameSize})
  /\ adding \in BOOLEAN
  /\ reader.at \in {"idle", "full", "frame", "copy all", "copy", "store"}
  /\ Len(written) = src.nFrameId
  /\ past \subseteq {"full", "cleared"}

-----------------------------------------------------------------------------
(* The audio thread.                                                       *)

(* sync() is done before half of the ring of samples has been written over *)
(* and before the frames it has yet to copy have.                          *)
InTime(size) ==
  reader.at # "idle" =>
    /\ Total(src.nFrameId) + size <= Total(reader.last) + nBufMax
    /\ src.nFrameId + 1 < reader.last + nFrameCap - nFrames

(* add_frame(): the next frame follows the current one, and is silent.     *)
AddFrame(size) ==
  /\ ~adding /\ adding' = TRUE
  /\ src.nFrameId < MaxFrames /\ InTime(size)
  /\ LET id == src.nFrameId + 1
         head == Frame(src, src.nFrameId).tail
         count == Min({size, MaxFrameSize})
     IN src' = [src EXCEPT
          !.vFrames[id % nFrameCap] =
             [id |-> id, head |-> head, tail |-> (head + count) % nBufCap,
              size |-> count, length |-> count],
          !.data = Put(@, head, [k \in 1..count |-> 0])]
  /\ UNCHANGED <<dst, reader, written, past>>

(* write_frame() of the whole frame *)
WriteFrame ==
  /\ adding
  /\ LET f == Frame(src, src.nFrameId + 1)
     IN src' = [src EXCEPT !.data =
          Put(@, f.head, [k \in 1..f.size |-> Total(src.nFrameId) + k])]
  /\ src' # src
  /\ UNCHANGED <<dst, adding, reader, written, past>>

(* Slip: the history is not limited to what is asked for. *)
CommitFrameLong ==
  /\ adding /\ adding' = FALSE
  /\ LET id == src.nFrameId + 1
         f == Frame(src, id)
     IN /\ f.size > 0 => src.data[f.head] # 0
        /\ src' = [src EXCEPT
             !.vFrames[id % nFrameCap].length =
                Frame(src, src.nFrameId).length + f.length,
             !.nFrameId = id]
        /\ written' = Append(written, Total(src.nFrameId) + f.size)
  /\ UNCHANGED <<dst, reader, past>>

(* commit_frame(), after the frame was written *)
CommitFrame ==
  /\ adding /\ adding' = FALSE
  /\ LET id == src.nFrameId + 1
         f == Frame(src, id)
     IN /\ f.size > 0 => src.data[f.head] # 0
        /\ src' = [src EXCEPT
             !.vFrames[id % nFrameCap].length =
                Min({Frame(src, src.nFrameId).length + f.length, nBufMax}),
             !.nFrameId = id]
        /\ written' = Append(written, Total(src.nFrameId) + f.size)
  /\ UNCHANGED <<dst, reader, past>>

(* clear(): no frame is current until the next one is committed. *)
Clear ==
  /\ ~adding /\ src.nFrameId < MaxFrames
  /\ src' = [src EXCEPT !.vFrames = [i \in DOMAIN @ |-> NoFrame], !.nFrameId = @ + 1]
  /\ written' = [i \in 1..src'.nFrameId |-> 0]
  /\ past' = past \cup {"cleared"}
  /\ UNCHANGED <<dst, adding, reader>>

-----------------------------------------------------------------------------
(* sync(), by the user interface.                                          *)

SyncStart ==
  /\ reader.at = "idle" /\ src.nFrameId # dst.nFrameId
  /\ LET full == src.nFrameId - dst.nFrameId > nFrames
     IN /\ reader' = [at |-> IF full THEN "full" ELSE "frame",
                      last |-> src.nFrameId, next |-> dst.nFrameId, sf |-> NoFrame]
        /\ past' = past \cup (IF full THEN {"full"} ELSE {})
  /\ UNCHANGED <<src, dst, adding, written>>

(* The frame of the source is copied, then its samples. *)
TakeFrame ==
  /\ reader.at \in {"full", "frame"}
  /\ reader' = IF reader.at = "full"
               THEN [reader EXCEPT !.at = "copy all", !.sf = Frame(src, reader.last)]
               ELSE [reader EXCEPT !.at = "copy", !.sf = Frame(src, reader.next)]
  /\ UNCHANGED <<src, dst, adding, written, past>>

(* A full copy starts the ring of dst anew; it looks for samples behind    *)
(* the start of the source's ring as if that had nBufMax elements.         *)
CopyAll ==
  /\ reader.at = "copy all" /\ reader' = [reader EXCEPT !.at = "store"]
  /\ LET sf == reader.sf
         length == Min({sf.length, nBufMax})
         head == sf.tail - length
         samples == IF head < 0
                    THEN Taken(src.data, head + nBufMax, -head)
                         \o Taken(src.data, 0, sf.tail)
                    ELSE Taken(src.data, head, length)
         span == sf.tail - sf.head
         size == Min({IF span < 0 THEN span + nBufMax ELSE span, length, MaxFrameSize})
     IN dst' = [dst EXCEPT
          !.data = Put(@, 0, samples),
          !.vFrames[reader.last % nFrameCap] =
             [id |-> reader.last, head |-> length - size, tail |-> length,
              size |-> @.size, length |-> length]]
  /\ UNCHANGED <<src, adding, written, past>>

(* Slip: the history does not grow with the frame. *)
CopyFrameAlone ==
  /\ reader.at = "copy"
  /\ LET sf == reader.sf
         pf == Frame(dst, reader.next - 1)
         size == (sf.tail - sf.head) % nBufCap
     IN dst' = [dst EXCEPT
          !.data = Put(@, pf.tail, Taken(src.data, sf.head, size)),
          !.vFrames[reader.next % nFrameCap] =
             [id |-> reader.next, head |-> pf.tail,
              tail |-> (pf.tail + size) % nBufCap,
              size |-> @.size, length |-> Min({size, nBufMax})]]
  /\ reader' = IF reader.next = reader.last
               THEN [reader EXCEPT !.at = "store"]
               ELSE [reader EXCEPT !.at = "frame", !.next = @ + 1]
  /\ UNCHANGED <<src, adding, written, past>>

(* One frame is copied behind the one before it; the first of them is the  *)
(* current frame of dst, once more.                                        *)
CopyFrame ==
  /\ reader.at = "copy"
  /\ LET sf == reader.sf
         pf == Frame(dst, reader.next - 1)
         size == (sf.tail - sf.head) % nBufCap
     IN dst' = [dst EXCEPT
          !.data = Put(@, pf.tail, Taken(src.data, sf.head, size)),
          !.vFrames[reader.next % nFrameCap] =
             [id |-> reader.next, head |-> pf.tail,
              tail |-> (pf.tail + size) % nBufCap,
              size |-> @.size, length |-> Min({size + pf.length, nBufMax})]]
  /\ reader' = IF reader.next = reader.last
               THEN [reader EXCEPT !.at = "store"]
               ELSE [reader EXCEPT !.at = "frame", !.next = @ + 1]
  /\ UNCHANGED <<src, adding, written, past>>

SyncStore ==
  /\ reader.at = "store" /\ reader' = NotReading
  /\ dst' = [dst EXCEPT !.nFrameId = reader.last]
  /\ UNCHANGED <<src, adding, written, past>>

-----------------------------------------------------------------------------
Writer ==
  \/ \E size \in 1..(MaxFrameSize + 1) : AddFrame(size)
  \/ WriteFrame \/ CommitFrame \/ Clear
Reader == SyncStart \/ TakeFrame \/ CopyAll \/ CopyFrame \/ SyncStore

Next == Writer \/ Reader
Spec == Init /\ [][Next]_vars

-----------------------------------------------------------------------------
(* The last samples that were committed with a frame, as many as asked.    *)
Latest(id) ==
  LET count == Min({Total(id), nBufMax})
  IN [k \in 1..count |-> Total(id) - count + k]

(* read() of the plugin's stream gives the last samples committed, however *)
(* the frames lie across the end of the ring, and also while the next      *)
(* frame is being written.                                                 *)
SourceReads == ReadAll(src) = Latest(src.nFrameId)

(* A user interface that calls sync() often enough for frames to be copied *)
(* one by one reads what the plugin had when the last sync() began,        *)
(* although the plugin went on writing.                                    *)
CopyReads == reader.at = "idle" /\ past = {} => ReadAll(dst) = Latest(dst.nFrameId)

(* "Sync state with another stream": the same however long the user       *)
(* interface did not call sync().  A cleared stream is left out: sync()    *)
(* keeps what the copy held before.                                        *)
SyncCopies ==
  reader.at = "idle" /\ "cleared" \notin past => ReadAll(dst) = Latest(dst.nFrameId)
=============================================================================
