----------------------------- MODULE FrameBuffer -----------------------------
(***************************************************************************)
(* plug::frame_buffer_t (src/main/plug/data.cpp): the rows of a picture    *)
(* that rolls, written by the audio thread (src) and copied row by row by  *)
(* the user interface (dst).  Nothing is locked.                           *)
(*                                                                         *)
(* Rows have identifiers that grow; a row is kept in the element of its    *)
(* identifier modulo the capacity.  Its contents are the identifier it was *)
(* written for, or 0 for an empty row.                                     *)
(***************************************************************************)
EXTENDS Integers, FiniteSetsExt

CONSTANTS
  nRows,     \* the height of the picture
  nCapacity, \* create(): the power of two that holds four pictures
  MaxRows    \* bound: rows written

RowConstants ==
  /\ nRows \in Nat \ {0} /\ MaxRows \in Nat
  /\ nCapacity \in Nat /\ \E k \in 0..(4 * nRows) : nCapacity = 2^k
  /\ nCapacity >= 4 * nRows /\ nCapacity < 8 * nRows

VARIABLES
  src, dst,  \* the buffers of the plugin and of the user interface
  writer,    \* where the audio thread is
  reader,    \* sync(): src_rid and the dst_rid of the next row
  cleared    \* history: rows before this one may have been cleared

vars == <<src, dst, writer, reader, cleared>>

NotReading == [on |-> FALSE, src_rid |-> 0, dst_rid |-> 0]
Empty == [i \in 0..(nCapacity - 1) |-> 0]

Init ==
  /\ src = [nRowID |-> nRows, vData |-> Empty] /\ dst = src
  /\ writer = "idle" /\ reader = NotReading
  /\ cleared = nRows

TypeOK ==
  /\ \A fb \in {src, dst} :
       /\ fb.nRowID \in nRows..(MaxRows + nRows)
       /\ DOMAIN fb.vData = DOMAIN Empty
       /\ \A i \in DOMAIN fb.vData : fb.vData[i] \in {0} \cup {id \in 0..MaxRows : id % nCapacity = i}
  /\ writer \in {"idle", "written", "cleared"}
  /\ reader.on => /\ reader.src_rid \in nRows..src.nRowID
                  /\ reader.dst_rid \in (reader.src_rid - nRows)..reader.src_rid
  /\ cleared \in nRows..src.nRowID

-----------------------------------------------------------------------------
(* A sync() is done before the rows it copies are written over: at four    *)
(* pictures, three new ones would have to roll by in the meantime.         *)
InTime(rows) == reader.on => src.nRowID + rows <= reader.src_rid + nCapacity - nRows

(* write_row(): the data, *)
WriteRow ==
  /\ writer = "idle" /\ src.nRowID < MaxRows /\ InTime(1)
  /\ writer' = "written"
  /\ src' = [src EXCEPT !.vData[src.nRowID % nCapacity] = src.nRowID]
  /\ UNCHANGED <<dst, reader, cleared>>

(* then the identifier that makes it visible. *)
CountRow ==
  /\ writer = "written" /\ writer' = "idle"
  /\ src' = [src EXCEPT !.nRowID = @ + 1]
  /\ UNCHANGED <<dst, reader, cleared>>

(* clear(): all rows are emptied, *)
ClearRows ==
  /\ writer = "idle" /\ src.nRowID < MaxRows /\ InTime(nRows)
  /\ writer' = "cleared"
  /\ src' = [src EXCEPT !.vData = Empty]
  /\ cleared' = src.nRowID
  /\ UNCHANGED <<dst, reader>>

(* Slip: as if one row was written. *)
CountClearedOne ==
  /\ writer = "cleared" /\ writer' = "idle"
  /\ src' = [src EXCEPT !.nRowID = @ + 1]
  /\ cleared' = src'.nRowID
  /\ UNCHANGED <<dst, reader>>

(* and count as a whole picture. *)
CountCleared ==
  /\ writer = "cleared" /\ writer' = "idle"
  /\ src' = [src EXCEPT !.nRowID = @ + nRows]
  /\ cleared' = src'.nRowID
  /\ UNCHANGED <<dst, reader>>

-----------------------------------------------------------------------------
(* sync(): at most one picture is copied, *)
SyncStart ==
  /\ ~reader.on /\ src.nRowID # dst.nRowID
  /\ reader' = [on |-> TRUE, src_rid |-> src.nRowID,
                dst_rid |-> Max({dst.nRowID, src.nRowID - nRows})]
  /\ UNCHANGED <<src, dst, writer, cleared>>

(* Slip: every other row is copied. *)
SyncRowSkipping ==
  /\ reader.on /\ reader.dst_rid < reader.src_rid
  /\ LET i == reader.dst_rid % nCapacity
     IN dst' = [dst EXCEPT !.vData[i] = src.vData[i]]
  /\ reader' = [reader EXCEPT !.dst_rid = Min({@ + 2, reader.src_rid})]
  /\ UNCHANGED <<src, writer, cleared>>

(* row by row, *)
SyncRow ==
  /\ reader.on /\ reader.dst_rid # reader.src_rid
  /\ LET i == reader.dst_rid % nCapacity
     IN dst' = [dst EXCEPT !.vData[i] = src.vData[i]]
  /\ reader' = [reader EXCEPT !.dst_rid = @ + 1]
  /\ UNCHANGED <<src, writer, cleared>>

(* and the identifier follows. *)
SyncStore ==
  /\ reader.on /\ reader.dst_rid = reader.src_rid
  /\ reader' = NotReading
  /\ dst' = [dst EXCEPT !.nRowID = reader.dst_rid]
  /\ UNCHANGED <<src, writer, cleared>>

Next == WriteRow \/ CountRow \/ ClearRows \/ CountCleared \/ SyncStart \/ SyncRow \/ SyncStore
Spec == Init /\ [][Next]_vars

-----------------------------------------------------------------------------
(* Between two calls of sync() the picture of the user interface consists  *)
(* of the rows the plugin had, each complete and in its place, whatever    *)
(* was written and cleared meanwhile; only a row the plugin has cleared    *)
(* may be empty, and after a picture of new rows none is.                  *)
PictureWhole ==
  ~reader.on =>
    \A id \in (dst.nRowID - nRows)..(dst.nRowID - 1) :
      LET row == dst.vData[id % nCapacity]
      IN row = id \/ (row = 0 /\ id < cleared)

(* When the picture is up to date, it shows no row that was cleared.       *)
ClearShown ==
  ~reader.on /\ writer = "idle" /\ dst.nRowID = src.nRowID =>
    \A id \in (dst.nRowID - nRows)..(dst.nRowID - 1) :
      id < cleared <=> dst.vData[id % nCapacity] = 0
=============================================================================
