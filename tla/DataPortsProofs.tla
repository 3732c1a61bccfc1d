-------------------------- MODULE DataPortsProofs ---------------------------
(***************************************************************************)
(* Proofs about the ports of MCDataPorts, for every capacity, number of    *)
(* requests and set of texts, paths and files.                             *)
(***************************************************************************)
EXTENDS MCDataPorts, OscBufferProofs

-----------------------------------------------------------------------------

LEMMA Distinct ==
  ASSUME NEW n \in Nat \ {0}, NEW i \in Int, NEW j \in Int, i # j,
         j - i < n, i - j < n
  PROVE  i % n # j % n
<1> SUFFICES ASSUME i % n = j % n PROVE FALSE
  OBVIOUS
<1>1. /\ i % n \in 0..(n - 1) /\ j % n \in 0..(n - 1)
      /\ \E x \in Int : j = n * x + (j % n)
      /\ \E y \in Int : i = n * y + (i % n)
  BY Division
<1> PICK x \in Int : j = n * x + (j % n)
  BY <1>1
<1> PICK y \in Int : i = n * y + (i % n)
  BY <1>1
<1>2. n * (x - y) = n * x - n * y
  BY Product
<1>3. n * (x - y) < n /\ n * (x - y) > 0 - n
  BY <1>1, <1>2
<1>4. x - y = 0
  BY <1>3, SmallProduct
<1> QED BY <1>1, <1>4

LEMMA MaxOfTwo ==
  ASSUME NEW i \in Int, NEW j \in Int
  PROVE  Frames!Max({i, j}) = IF i >= j THEN i ELSE j
BY DEF Frames!Max

RowElement == 0..(nCapacity - 1)

(* The data of a buffer: rows in their elements, *)
Fits(rows) ==
  /\ rows \in [RowElement -> Int]
  /\ \A i \in RowElement : rows[i] = 0 \/ (rows[i] \in 0..MaxRows /\ rows[i] % nCapacity = i)

(* the last nCapacity ones before a row, those before c cleared, *)
Full(rows, top, c) ==
  \A id \in (top - nCapacity)..(top - 1) :
    rows[id % nCapacity] = IF id < c THEN 0 ELSE id

(* or some of them, in part with what was cleared later. *)
Shows(rows, first, last, c, gone) ==
  \A id \in first..(last - 1) :
    /\ rows[id % nCapacity] = id \/ (rows[id % nCapacity] = 0 /\ id < c)
    /\ id < gone => rows[id % nCapacity] = 0

LEMMA RowSizes ==
  ASSUME Frames!RowConstants
  PROVE  /\ nRows \in Nat \ {0} /\ MaxRows \in Nat /\ nCapacity \in Nat \ {0}
         /\ nCapacity >= 4 * nRows /\ nCapacity > nRows
BY DEF Frames!RowConstants

LEMMA Residues ==
  ASSUME Frames!RowConstants
  PROVE  \A id \in Int : id % nCapacity \in RowElement
BY RowSizes, Division DEF RowElement

(* A row that is written takes the element of the oldest one.              *)
LEMMA WrittenRow ==
  ASSUME Frames!RowConstants, NEW n \in 0..MaxRows, NEW c \in Int, c <= n,
         NEW rows, Fits(rows), Full(rows, n, c)
  PROVE  LET new == [rows EXCEPT ![n % nCapacity] = n]
         IN Fits(new) /\ Full(new, n + 1, c)
<1> DEFINE k == n % nCapacity
           new == [rows EXCEPT ![k] = n]
<1>1. k \in RowElement /\ n \in Int
  BY RowSizes, Residues
<1>2. /\ new \in [RowElement -> Int] /\ new[k] = n
      /\ \A i \in RowElement : i # k => new[i] = rows[i]
  BY <1>1 DEF Fits
<1>3. Fits(new)
  BY <1>1, <1>2 DEF Fits
<1>4. ASSUME NEW id \in ((n + 1) - nCapacity)..((n + 1) - 1)
      PROVE  new[id % nCapacity] = IF id < c THEN 0 ELSE id
  <2>1. CASE id = n
    BY <1>2, <2>1
  <2>2. CASE id # n
    <3>1. id \in (n - nCapacity)..(n - 1) /\ id \in Int /\ id - n < nCapacity /\ n - id < nCapacity
      BY <2>2, RowSizes
    <3>2. id % nCapacity # k /\ id % nCapacity \in RowElement
      BY <1>1, <2>2, <3>1, Distinct, RowSizes, Residues
    <3>3. new[id % nCapacity] = rows[id % nCapacity]
      BY <1>2, <3>2
    <3> QED BY <3>1, <3>3 DEF Full
  <2> QED BY <2>1, <2>2
<1>5. Full(new, n + 1, c)
  BY <1>4 DEF Full
<1> QED BY <1>3, <1>5

(* A row of zeros is empty for longer. *)
LEMMA EmptiedRows ==
  ASSUME Frames!RowConstants, NEW n \in Int, NEW rows, Full(rows, n, n)
  PROVE  Full(rows, n + nRows, n + nRows)
<1> SUFFICES ASSUME NEW id \in ((n + nRows) - nCapacity)..((n + nRows) - 1)
             PROVE  rows[id % nCapacity] = 0
  BY RowSizes DEF Full
<1>1. CASE id < n
  <2>1. id \in (n - nCapacity)..(n - 1)
    BY <1>1, RowSizes
  <2> QED BY <1>1, <2>1 DEF Full
<1>2. CASE id >= n
  <2>1. PICK e \in (n - nCapacity)..(n - 1) : e = id - nCapacity
    BY <1>2, RowSizes
  <2>2. e < n /\ e \in Int /\ id \in Int
    BY <2>1, RowSizes
  <2>3. id % nCapacity = e % nCapacity
    BY <2>1, <2>2, RowSizes, Period
  <2> QED BY <2>2, <2>3 DEF Full
<1> QED BY <1>1, <1>2, RowSizes

(* Fewer rows are shown, more may be empty. *)
LEMMA FewerRows ==
  ASSUME NEW first \in Int, NEW last \in Int, NEW c \in Int, NEW gone \in Int,
         NEW rows, Shows(rows, first, last, c, gone),
         NEW first2 \in Int, NEW last2 \in Int, NEW c2 \in Int, NEW gone2 \in Int,
         first2 >= first, last2 <= last \/ last2 <= first2, c <= c2,
         gone2 <= gone \/ gone2 <= first2 \/ last2 <= first2
  PROVE  Shows(rows, first2, last2, c2, gone2)
<1> SUFFICES ASSUME NEW id \in first2..(last2 - 1)
             PROVE  /\ rows[id % nCapacity] = id \/ (rows[id % nCapacity] = 0 /\ id < c2)
                    /\ id < gone2 => rows[id % nCapacity] = 0
  BY DEF Shows
<1>1. id \in first..(last - 1)
  OBVIOUS
<1> QED BY <1>1 DEF Shows

(* A row that is copied takes the element of none that is shown.           *)
LEMMA CopiedRow ==
  ASSUME Frames!RowConstants, NEW n \in Int, NEW first \in Int, first <= n, n < first + nRows,
         NEW top \in Int, top - nCapacity <= n, n < top,
         NEW c \in Int, NEW gone \in Int, gone <= c,
         NEW from, Fits(from), Full(from, top, c),
         NEW rows, Fits(rows), Shows(rows, first, n, c, gone)
  PROVE  LET new == [rows EXCEPT ![n % nCapacity] = from[n % nCapacity]]
         IN Fits(new) /\ Shows(new, first, n + 1, c, gone)
<1> DEFINE k == n % nCapacity
           new == [rows EXCEPT ![k] = from[k]]
<1>1. k \in RowElement
  BY Residues
<1>2. /\ new \in [RowElement -> Int] /\ new[k] = from[k]
      /\ \A i \in RowElement : i # k => new[i] = rows[i]
  BY <1>1 DEF Fits
<1>3. Fits(new)
  BY <1>1, <1>2 DEF Fits
<1>4. from[k] = IF n < c THEN 0 ELSE n
  <2>1. n \in (top - nCapacity)..(top - 1)
    BY RowSizes
  <2> QED BY <2>1 DEF Full
<1>5. ASSUME NEW id \in first..n
      PROVE  /\ new[id % nCapacity] = id \/ (new[id % nCapacity] = 0 /\ id < c)
             /\ id < gone => new[id % nCapacity] = 0
  <2>1. CASE id = n
    BY <1>2, <1>4, <2>1
  <2>2. CASE id # n
    <3>1. id \in first..(n - 1) /\ id \in Int /\ id - n < nCapacity /\ n - id < nCapacity
      BY <2>2, RowSizes
    <3>2. id % nCapacity # k /\ id % nCapacity \in RowElement
      BY <2>2, <3>1, Distinct, RowSizes, Residues
    <3>3. new[id % nCapacity] = rows[id % nCapacity]
      BY <1>2, <3>2
    <3> QED BY <3>1, <3>3 DEF Shows
  <2> QED BY <2>1, <2>2
<1>6. Shows(new, first, n + 1, c, gone)
  <2>1. (n + 1) - 1 = n
    OBVIOUS
  <2> QED BY <1>5, <2>1 DEF Shows
<1> QED BY <1>3, <1>6

-----------------------------------------------------------------------------
(* The rows that were written: the one under way is there already.         *)
Top == src.nRowID + (IF writer = "written" THEN 1 ELSE 0)

(* What the rows of dst are a part of, and how far they go.                *)
Known == IF reader.on THEN reader.src_rid ELSE dst.nRowID
Until == IF reader.on THEN reader.dst_rid ELSE dst.nRowID
Gone == IF writer # "cleared" /\ cleared <= Known THEN cleared ELSE 0

FrameTypes ==
  /\ src \in [nRowID : Int, vData : [RowElement -> Int]]
  /\ dst \in [nRowID : Int, vData : [RowElement -> Int]]
  /\ reader \in [on : BOOLEAN, src_rid : Int, dst_rid : Int]
  /\ writer \in {"idle", "written", "cleared"} /\ cleared \in Int

(* The writer is at most so far ahead that no row is copied after it was   *)
(* written over, and what was cleared since is a whole picture.            *)
RowCounts ==
  /\ nRows <= dst.nRowID /\ dst.nRowID <= Known
  /\ Known <= src.nRowID /\ src.nRowID <= MaxRows + nRows
  /\ Known - nRows <= Until /\ Until <= Known
  /\ nRows <= cleared /\ cleared <= src.nRowID
  /\ reader.on => Top <= Known + nCapacity - nRows
  /\ reader.on /\ writer = "cleared" => src.nRowID <= Known + nCapacity - 2 * nRows
  /\ writer # "idle" => src.nRowID < MaxRows
  /\ writer = "cleared" => cleared = src.nRowID
  /\ writer # "cleared" /\ Known < cleared => Known <= cleared - nRows

RowData ==
  /\ Fits(src.vData) /\ Fits(dst.vData)
  /\ Full(src.vData, Top, cleared)
  /\ Shows(dst.vData, Known - nRows, Until, cleared, Gone)

RowsInv == FrameTypes /\ RowCounts /\ RowData

LEMMA RowsInit == ASSUME Frames!RowConstants, Frames!Init PROVE RowsInv
<1>1. /\ src = [nRowID |-> nRows, vData |-> Frames!Empty] /\ dst = src
      /\ writer = "idle"
      /\ reader = [on |-> FALSE, src_rid |-> 0, dst_rid |-> 0]
      /\ cleared = nRows /\ Frames!Empty = [i \in RowElement |-> 0]
  BY DEF Frames!Init, Frames!Empty, Frames!NotReading, RowElement
<1>2. FrameTypes
  BY <1>1, RowSizes DEF FrameTypes
<1>3. RowCounts
  BY <1>1, RowSizes DEF RowCounts, Known, Until, Top
<1>4. RowData
  <2>1. \A id \in Int : Frames!Empty[id % nCapacity] = 0
    BY <1>1, Residues
  <2>2. /\ Top = nRows /\ Known = nRows /\ Until = nRows
        /\ src.vData = Frames!Empty /\ dst.vData = Frames!Empty
    BY <1>1, RowSizes DEF Top, Known, Until
  <2>3. Fits(Frames!Empty)
    BY <1>1, RowSizes DEF Fits
  <2>4. Full(Frames!Empty, nRows, nRows)
    BY <2>1, RowSizes DEF Full
  <2>5. Shows(Frames!Empty, nRows - nRows, nRows, nRows, Gone)
    BY <2>1, RowSizes DEF Shows
  <2> QED BY <1>1, <2>2, <2>3, <2>4, <2>5 DEF RowData
<1> QED BY <1>2, <1>3, <1>4 DEF RowsInv

(* A row is written: *)
LEMMA WriteRowStep ==
  ASSUME Frames!RowConstants, RowsInv, Frames!WriteRow
  PROVE  RowsInv'
<1> DEFINE n == src.nRowID
           k == n % nCapacity
<1>1. /\ writer = "idle" /\ writer' = "written" /\ n < MaxRows
      /\ UNCHANGED <<dst, reader, cleared>> /\ n \in 0..MaxRows
      /\ reader.on => n + 1 <= reader.src_rid + nCapacity - nRows
      /\ src' = [src EXCEPT !.vData = [src.vData EXCEPT ![k] = n]]
  BY RowSizes DEF Frames!WriteRow, Frames!InTime, RowsInv, FrameTypes, RowCounts
<1>2. src'.nRowID = n /\ src'.vData = [src.vData EXCEPT ![k] = n]
  BY <1>1 DEF RowsInv, FrameTypes
<1>3. Fits(src'.vData) /\ Full(src'.vData, n + 1, cleared)
  <2>1. cleared <= n /\ cleared \in Int
    BY RowSizes DEF RowsInv, FrameTypes, RowCounts
  <2>2. Fits(src.vData) /\ Full(src.vData, n, cleared)
    BY <1>1 DEF RowsInv, FrameTypes, RowData, Top
  <2> QED BY <1>1, <1>2, <2>1, <2>2, WrittenRow
<1>4. FrameTypes'
  BY <1>1, <1>2, <1>3 DEF RowsInv, FrameTypes, Fits
<1>5. Known' = Known /\ Until' = Until /\ Top' = n + 1 /\ Gone' = Gone
  BY <1>1, <1>2 DEF Known, Until, Top, Gone
<1>6. RowCounts'
  BY <1>1, <1>2, <1>5, RowSizes DEF RowsInv, FrameTypes, RowCounts, Known
<1>7. RowData'
  BY <1>1, <1>3, <1>5 DEF RowsInv, RowData, Shows
<1> QED BY <1>4, <1>6, <1>7 DEF RowsInv

(* and counted. *)
LEMMA CountStep ==
  ASSUME Frames!RowConstants, RowsInv, Frames!CountRow
  PROVE  RowsInv'
<1>1. /\ writer = "written" /\ writer' = "idle"
      /\ UNCHANGED <<dst, reader, cleared>>
      /\ src' = [src EXCEPT !.nRowID = src.nRowID + 1]
  BY DEF Frames!CountRow
<1>2. src'.nRowID = src.nRowID + 1 /\ src'.vData = src.vData /\ src.nRowID < MaxRows
  BY <1>1 DEF RowsInv, FrameTypes, RowCounts
<1>3. FrameTypes'
  BY <1>1 DEF RowsInv, FrameTypes
<1>4. Known' = Known /\ Until' = Until /\ Top' = Top /\ Gone' = Gone
  BY <1>1, <1>2 DEF RowsInv, FrameTypes, Known, Until, Top, Gone
<1>5. RowCounts'
  BY <1>1, <1>2, <1>4, RowSizes DEF RowsInv, FrameTypes, RowCounts, Known, Top
<1>6. RowData'
  BY <1>1, <1>2, <1>4 DEF RowsInv, RowData, Shows
<1> QED BY <1>3, <1>5, <1>6 DEF RowsInv

(* All rows are emptied: *)
LEMMA ClearRowsStep ==
  ASSUME Frames!RowConstants, RowsInv, Frames!ClearRows
  PROVE  RowsInv'
<1> DEFINE n == src.nRowID
<1>1. /\ writer = "idle" /\ writer' = "cleared" /\ n < MaxRows
      /\ UNCHANGED <<dst, reader>> /\ cleared' = n
      /\ reader.on => n + nRows <= reader.src_rid + nCapacity - nRows
      /\ src' = [src EXCEPT !.vData = Frames!Empty]
      /\ Frames!Empty = [i \in RowElement |-> 0]
  BY DEF Frames!ClearRows, Frames!InTime, Frames!Empty, RowElement
<1>2. src'.nRowID = n /\ src'.vData = Frames!Empty /\ n \in Int
  BY <1>1 DEF RowsInv, FrameTypes
<1>3. FrameTypes'
  BY <1>1, <1>2 DEF RowsInv, FrameTypes
<1>4. Known' = Known /\ Until' = Until /\ Top' = n /\ Gone' = 0
  BY <1>1, <1>2 DEF Known, Until, Top, Gone
<1>5. RowCounts'
  BY <1>1, <1>2, <1>4, RowSizes DEF RowsInv, FrameTypes, RowCounts, Known, Top
<1>6. Fits(Frames!Empty) /\ Full(Frames!Empty, n, n)
  BY <1>1, <1>2, RowSizes, Residues DEF Fits, Full
<1>7. Shows(dst.vData, Known - nRows, Until, n, 0)
  <2>1. /\ cleared <= n /\ cleared \in Int /\ Known - nRows \in Int
        /\ Until \in Int
        /\ Gone \in Int /\ 0 <= Known - nRows
    BY RowSizes DEF RowsInv, FrameTypes, RowCounts, Known, Until, Gone
  <2>2. Shows(dst.vData, Known - nRows, Until, cleared, Gone)
    BY DEF RowsInv, RowData
  <2> QED BY <1>2, <2>1, <2>2, FewerRows
<1>8. RowData'
  BY <1>1, <1>2, <1>4, <1>6, <1>7 DEF RowsInv, RowData
<1> QED BY <1>3, <1>5, <1>8 DEF RowsInv

(* a picture that dst knows nothing of is cleared as a whole.              *)
LEMMA CountClearedStep ==
  ASSUME Frames!RowConstants, RowsInv, Frames!CountCleared
  PROVE  RowsInv'
<1> DEFINE n == src.nRowID
<1>1. /\ writer = "cleared" /\ writer' = "idle" /\ UNCHANGED <<dst, reader>>
      /\ src' = [src EXCEPT !.nRowID = n + nRows] /\ cleared' = src'.nRowID
  BY DEF Frames!CountCleared
<1>2. /\ src'.nRowID = n + nRows /\ src'.vData = src.vData
      /\ cleared' = n + nRows
      /\ cleared = n /\ n \in Int /\ n < MaxRows
  BY <1>1 DEF RowsInv, FrameTypes, RowCounts
<1>3. FrameTypes'
  BY <1>1, <1>2, RowSizes DEF RowsInv, FrameTypes
<1>4. /\ Known' = Known /\ Until' = Until /\ Top' = n + nRows /\ Top = n
      /\ Known \in Int /\ Until \in Int /\ Known <= n
  BY <1>1, <1>2, RowSizes DEF RowsInv, FrameTypes, RowCounts, Known, Until, Top
<1>5. Gone' = 0
  BY <1>1, <1>2, <1>4, RowSizes DEF Gone
<1>6. RowCounts'
  BY <1>1, <1>2, <1>4, RowSizes DEF RowsInv, FrameTypes, RowCounts, Known, Top
<1>7. Full(src.vData, n + nRows, n + nRows)
  BY <1>1, <1>2, <1>4, EmptiedRows DEF RowsInv, RowData
<1>8. Shows(dst.vData, Known - nRows, Until, n + nRows, 0)
  <2>1. /\ n <= n + nRows /\ n + nRows \in Int /\ Known - nRows \in Int
        /\ Gone \in Int /\ 0 <= Known - nRows
    BY <1>2, <1>4, RowSizes DEF RowsInv, FrameTypes, RowCounts, Gone
  <2>2. Shows(dst.vData, Known - nRows, Until, n, Gone)
    BY <1>2 DEF RowsInv, RowData
  <2> QED BY <1>2, <1>4, <2>1, <2>2, FewerRows
<1>9. RowData'
  BY <1>1, <1>2, <1>4, <1>5, <1>7, <1>8 DEF RowsInv, RowData
<1> QED BY <1>3, <1>6, <1>9 DEF RowsInv

(* sync() begins: what dst has of the picture is a part of what it had.    *)
LEMMA SyncStartStep ==
  ASSUME Frames!RowConstants, RowsInv, Frames!SyncStart
  PROVE  RowsInv'
<1> DEFINE s == src.nRowID
           d == dst.nRowID
<1>1. /\ ~reader.on /\ UNCHANGED <<src, dst, writer, cleared>> /\ s # d
      /\ s \in Int /\ d \in Int /\ s - nRows \in Int
      /\ reader' = [on |-> TRUE, src_rid |-> s, dst_rid |-> Frames!Max({d, s - nRows})]
  BY RowSizes DEF Frames!SyncStart, RowsInv, FrameTypes
<1>2. /\ Known = d /\ Until = d /\ Known' = s /\ Top' = Top
      /\ Until' = IF d >= s - nRows THEN d ELSE s - nRows
  BY <1>1, MaxOfTwo DEF Known, Until, Top
<1>3. FrameTypes'
  BY <1>1, MaxOfTwo DEF RowsInv, FrameTypes
<1>4. RowCounts'
  BY <1>1, <1>2, RowSizes DEF RowsInv, FrameTypes, RowCounts, Top
<1>5. Shows(dst.vData, s - nRows, Until', cleared, Gone')
  <2>1. /\ s - nRows >= d - nRows
        /\ (Until' <= d \/ Until' <= s - nRows)
        /\ d - nRows \in Int /\ s - nRows \in Int /\ d \in Int
        /\ Until' \in Int /\ cleared \in Int
        /\ Gone \in Int /\ Gone' \in Int
    BY <1>1, <1>2, RowSizes DEF RowsInv, FrameTypes, RowCounts, Gone
  <2>2. Gone' <= Gone \/ Until' <= s - nRows
    BY <1>1, <1>2, RowSizes DEF RowsInv, FrameTypes, RowCounts, Gone
  <2>3. Shows(dst.vData, d - nRows, d, cleared, Gone)
    BY <1>2 DEF RowsInv, RowData
  <2> HIDE DEF s, d
  <2> QED BY <2>1, <2>2, <2>3, FewerRows
<1>6. RowData'
  BY <1>1, <1>2, <1>5 DEF RowsInv, RowData
<1> QED BY <1>3, <1>4, <1>6 DEF RowsInv

LEMMA SyncRowStep ==
  ASSUME Frames!RowConstants, RowsInv, Frames!SyncRow
  PROVE  RowsInv'
<1> DEFINE n == reader.dst_rid
           s == reader.src_rid
           k == n % nCapacity
<1>1. /\ reader.on /\ UNCHANGED <<src, writer, cleared>> /\ n # s
      /\ reader' = [reader EXCEPT !.dst_rid = n + 1]
      /\ dst' = [dst EXCEPT !.vData = [dst.vData EXCEPT ![k] = src.vData[k]]]
  BY DEF Frames!SyncRow
<1>2. /\ reader'.on /\ reader'.src_rid = s /\ reader'.dst_rid = n + 1
      /\ dst'.nRowID = dst.nRowID
      /\ dst'.vData = [dst.vData EXCEPT ![k] = src.vData[k]]
      /\ n \in Int /\ s \in Int
  BY <1>1 DEF RowsInv, FrameTypes
<1>3. Known = s /\ Known' = s /\ Until = n /\ Until' = n + 1 /\ Top' = Top /\ Top \in Int
  BY <1>1, <1>2 DEF RowsInv, FrameTypes, Known, Until, Top
<1>4. Gone' = Gone
  BY <1>1, <1>3 DEF Gone
<1>10. s - nRows <= n /\ n < s /\ Top <= s + nCapacity - nRows /\ s <= Top
  <2>1. s - nRows <= n /\ n <= s /\ s <= src.nRowID /\ Top <= s + nCapacity - nRows
    BY <1>1, <1>3 DEF RowsInv, RowCounts
  <2>2. src.nRowID <= Top
    BY DEF Top, RowsInv, FrameTypes
  <2>3. s \in Int /\ n \in Int /\ src.nRowID \in Int /\ Top \in Int
    BY <1>2, <1>3 DEF RowsInv, FrameTypes
  <2> HIDE DEF n, s
  <2> QED BY <1>1, <2>1, <2>2, <2>3, RowSizes
<1>5. Fits(dst'.vData) /\ Shows(dst'.vData, s - nRows, n + 1, cleared, Gone)
  <2> HIDE DEF n, s
  <2>1. /\ s - nRows <= n /\ n < (s - nRows) + nRows
        /\ Top - nCapacity <= n /\ n < Top /\ s - nRows \in Int
    BY <1>2, <1>3, <1>10, RowSizes
  <2>2. /\ Fits(src.vData) /\ Full(src.vData, Top, cleared) /\ cleared \in Int
        /\ Fits(dst.vData) /\ Shows(dst.vData, s - nRows, n, cleared, Gone)
    BY <1>3 DEF RowsInv, FrameTypes, RowData
  <2>3. Gone \in Int /\ Gone <= cleared
    BY RowSizes DEF RowsInv, FrameTypes, RowCounts, Gone
  <2> QED BY <1>2, <1>3, <2>1, <2>2, <2>3, CopiedRow
<1>6. FrameTypes'
  BY <1>1, <1>2, <1>5 DEF RowsInv, FrameTypes, Fits
<1>7. RowCounts'
  BY <1>1, <1>2, <1>3, <1>10, RowSizes DEF RowsInv, FrameTypes, RowCounts
<1>8. RowData'
  BY <1>1, <1>3, <1>4, <1>5 DEF RowsInv, RowData, Shows
<1> QED BY <1>6, <1>7, <1>8 DEF RowsInv

LEMMA SyncStoreStep ==
  ASSUME Frames!RowConstants, RowsInv, Frames!SyncStore
  PROVE  RowsInv'
<1>1. /\ reader.on /\ UNCHANGED <<src, writer, cleared>>
      /\ reader' = [on |-> FALSE, src_rid |-> 0, dst_rid |-> 0]
      /\ reader.dst_rid = reader.src_rid
      /\ dst' = [dst EXCEPT !.nRowID = reader.dst_rid]
  BY DEF Frames!SyncStore, Frames!NotReading
<1>2. dst'.nRowID = reader.src_rid /\ dst'.vData = dst.vData /\ ~reader'.on
  BY <1>1 DEF RowsInv, FrameTypes
<1>3. FrameTypes'
  BY <1>1 DEF RowsInv, FrameTypes
<1>4. Known' = Known /\ Until' = Until /\ Top' = Top /\ Gone' = Gone
  BY <1>1, <1>2 DEF Known, Until, Top, Gone
<1>5. RowCounts'
  BY <1>1, <1>2, <1>4, RowSizes DEF RowsInv, FrameTypes, RowCounts, Known
<1>6. RowData'
  BY <1>1, <1>2, <1>4 DEF RowsInv, RowData, Shows
<1> QED BY <1>3, <1>5, <1>6 DEF RowsInv

LEMMA RowsStep ==
  ASSUME Frames!RowConstants, RowsInv, [Frames!Next]_(Frames!vars)
  PROVE  RowsInv'
<1>1. CASE UNCHANGED Frames!vars
  <2>1. Top' = Top /\ Known' = Known /\ Until' = Until /\ Gone' = Gone
    BY <1>1 DEF Frames!vars, Top, Known, Until, Gone
  <2> QED BY <1>1, <2>1 DEF Frames!vars, RowsInv, FrameTypes, RowCounts,
      RowData, Shows
<1> QED BY <1>1, WriteRowStep, CountStep, ClearRowsStep, CountClearedStep,
    SyncStartStep,
           SyncRowStep, SyncStoreStep DEF Frames!Next

(* What the invariant says of the types and of the picture.                *)
LEMMA RowsHold ==
  ASSUME Frames!RowConstants, RowsInv
  PROVE  Frames!TypeOK /\ Frames!PictureWhole /\ Frames!ClearShown
<1>1. Frames!TypeOK
  <2>1. ASSUME NEW fb \in {src, dst}
        PROVE  /\ fb.nRowID \in nRows..(MaxRows + nRows)
               /\ DOMAIN fb.vData = DOMAIN Frames!Empty
               /\ \A i \in DOMAIN fb.vData :
                    fb.vData[i] \in {0} \cup {id \in 0..MaxRows : id % nCapacity = i}
    <3>1. fb.nRowID \in nRows..(MaxRows + nRows) /\ Fits(fb.vData)
      BY RowSizes DEF RowsInv, FrameTypes, RowCounts, RowData, Known
    <3> QED BY <3>1 DEF Fits, Frames!Empty, RowElement
  <2>2. reader.on => /\ reader.src_rid \in nRows..src.nRowID
                     /\ reader.dst_rid \in (reader.src_rid - nRows)..reader.src_rid
    BY RowSizes DEF RowsInv, FrameTypes, RowCounts, Known, Until
  <2>3. writer \in {"idle", "written", "cleared"} /\ cleared \in nRows..src.nRowID
    BY RowSizes DEF RowsInv, FrameTypes, RowCounts
  <2> QED BY <2>1, <2>2, <2>3 DEF Frames!TypeOK
<1>2. ~reader.on =>
        /\ Known = dst.nRowID /\ Until = dst.nRowID
        /\ Shows(dst.vData, dst.nRowID - nRows, dst.nRowID, cleared, Gone)
  BY DEF RowsInv, RowData, Known, Until
<1>3. Frames!PictureWhole
  BY <1>2 DEF Frames!PictureWhole, Shows
<1>4. Frames!ClearShown
  <2> SUFFICES ASSUME ~reader.on, writer = "idle", dst.nRowID = src.nRowID,
                      NEW id \in (dst.nRowID - nRows)..(dst.nRowID - 1)
               PROVE  id < cleared <=> dst.vData[id % nCapacity] = 0
    BY DEF Frames!ClearShown
  <2>1. Gone = cleared
    BY <1>2 DEF RowsInv, RowCounts, Gone
  <2>2. id = 0 => id < cleared
    BY RowSizes DEF RowsInv, FrameTypes, RowCounts
  <2> QED BY <1>2, <2>1, <2>2 DEF Shows
<1> QED BY <1>1, <1>3, <1>4

LEMMA RowsInvariance ==
  ASSUME Frames!RowConstants
  PROVE  Frames!Spec => []RowsInv
<1>1. Frames!Init => RowsInv
  BY RowsInit
<1>2. RowsInv /\ [Frames!Next]_(Frames!vars) => RowsInv'
  BY RowsStep
<1> QED BY <1>1, <1>2, PTL DEF Frames!Spec

-----------------------------------------------------------------------------

(* The lock, as the type invariant has it. *)
TextLocked == nLock \in BOOLEAN /\ (nLock <=> audio \in {"copy", "store"})

(* The audio thread is in sync() for a new text, and what it writes. *)
Writing ==
  /\ audio \in {"reset", "raise"} => nUIPending < MaxResets
  /\ audio \in {"copy", "store"} => nSerial # nRequest
  /\ audio = "store" => sData = sPending
  /\ audio = "raise" => sData = Default

(* A reset is looked for only when the last text is known, and what is     *)
(* submitted is whole.                                                     *)
Checking ==
  /\ main.at = "check" => known = main.serial
  /\ main.at = "submit" => pData \in Text

(* A text the user interface wrote is shown until the plugin takes it. *)
Ahead ==
  known = nRequest /\ nSerial # nRequest /\ main.at # "submit" => pData = sPending

(* A reset the user interface has not heard of is still in force. *)
ResetInForce ==
  ~crossed /\ audio = "idle" /\ nUIPending # nUISerial => sData = Default

(* The text known is the text in force, also while sync() of the user      *)
(* interface is on its way.                                                *)
Shown ==
  /\ ~crossed /\ audio = "idle" /\ main.at # "submit"
  /\ known = nSerial /\ nUIPending = nUISerial
  => pData = sData

TextInv == String!TypeOK /\ Writing /\ Checking /\ Ahead /\ ResetInForce /\ Shown

-----------------------------------------------------------------------------
(* A new text has a serial above the one before, within the bound. *)
LEMMA SerialGrows ==
  ASSUME NEW state \in BOOLEAN, MaxRequests \in Nat, nRequest \in Nat, nRequest < 2 * MaxRequests
  PROVE  /\ String!NextRequest(state) \in Nat /\ String!NextRequest(state) > nRequest
         /\ String!NextRequest(state) <= 2 * MaxRequests + 1
<1>1. PICK q \in Nat : nRequest = 2 * q \/ nRequest = 2 * q + 1
  <2>1. nRequest = 2 * (nRequest \div 2) \/ nRequest = 2 * (nRequest \div 2) + 1
    OBVIOUS
  <2>2. nRequest \div 2 \in Nat
    OBVIOUS
  <2> QED BY <2>1, <2>2
<1>2. (nRequest + 2) \div 2 = q + 1
  BY <1>1
<1> QED BY <1>1, <1>2 DEF String!NextRequest

LEMMA TextInit == ASSUME String!TextConstants, String!Init PROVE TextInv
<1>1. String!TypeOK
  <2>1. TextLocked
    BY Zenon DEF String!Init, TextLocked
  <2>2. NoText \in Text /\ 2 * MaxRequests + 1 \in Nat /\ MaxResets \in Nat
    BY DEF String!TextConstants
  <2>3. main \in [at : {"idle", "submit", "fetch", "check"}, serial : 0..nSerial]
    BY DEF String!Init, String!MainIdle
  <2>4. crossed \in BOOLEAN
    BY DEF String!Init
  <2> QED BY <2>1, <2>2, <2>3, <2>4 DEF String!Init, String!TypeOK, TextLocked
<1>2. Writing /\ Checking /\ Ahead /\ ResetInForce /\ Shown
  BY DEF String!Init, Writing, Checking, Ahead, ResetInForce, Shown,
      String!MainIdle
<1> QED BY <1>1, <1>2 DEF TextInv

(* Every step preserves the invariant. *)
LEMMA TextStep ==
  ASSUME String!TextConstants, TextInv, [String!Next]_(String!vars)
  PROVE  TextInv'
<1>1. ASSUME NEW text \in Text, String!Deserialize(text)
      PROVE  TextInv'
  <2>1. nRequest' \in Nat /\ nRequest' > nRequest /\ nRequest' <= 2 * MaxRequests + 1
    <3>1. nRequest' = String!NextRequest(TRUE)
      BY <1>1 DEF String!Deserialize, String!Submit
    <3>2. nRequest \in Nat /\ nRequest < 2 * MaxRequests
      BY <1>1 DEF TextInv, String!TypeOK, String!TextConstants,
          String!Deserialize, String!Submit
    <3> QED BY <3>1, <3>2, SerialGrows DEF String!TextConstants
  <2>2. String!TypeOK'
    <3>1. TextLocked'
      BY <1>1 DEF TextInv, String!TypeOK, TextLocked, String!Deserialize
    <3>2. nSerial \in Nat /\ nRequest \in Nat /\ nSerial <= nRequest
      BY DEF TextInv, String!TypeOK, String!TextConstants
    <3>3. main' \in [at : {"idle", "submit", "fetch", "check"}, serial : 0..nSerial']
      BY <1>1 DEF TextInv, String!TypeOK, String!Deserialize, String!MainIdle
    <3>4. known' \in -1..nRequest' /\ nRequest' \in nSerial'..(2 * MaxRequests + 1)
      BY <1>1, <2>1, <3>2 DEF TextInv, String!TypeOK, String!TextConstants,
          String!Deserialize, String!copy
    <3>5. sPending' \in Text
      BY <1>1 DEF TextInv, Checking, String!Deserialize, String!Submit
    <3> QED
      BY <1>1, <3>1, <3>3, <3>4, <3>5
         DEF TextInv, String!TypeOK, TextLocked, String!Deserialize,
             String!Submit, String!MainIdle, String!resets, String!copy
  <2>3. Writing' /\ Checking'
    BY <1>1, <2>1
       DEF TextInv, String!TypeOK, Writing, Checking, String!Deserialize,
           String!Submit, String!MainIdle, String!resets, String!copy
  <2>4. Ahead'
    BY <1>1, <2>1 DEF TextInv, String!TypeOK, String!Deserialize, Ahead,
        String!copy
  <2>5. ResetInForce' /\ Shown'
    BY <1>1 DEF TextInv, ResetInForce, Shown, String!Deserialize, String!Submit,
        String!resets, String!copy
  <2> QED BY <2>2, <2>3, <2>4, <2>5 DEF TextInv
<1>2. ASSUME NEW text \in Text, String!Write(text)
      PROVE  TextInv'
  <2>1. String!TypeOK'
    BY <1>2 DEF TextInv, String!TextConstants, String!TypeOK, Writing,
        String!Write, String!MainIdle, String!resets
  <2>2. Writing'
    BY <1>2 DEF TextInv, String!TextConstants, String!TypeOK, Writing,
        String!Write, String!MainIdle, String!resets
  <2>3. Checking'
    BY <1>2 DEF TextInv, Checking, String!TypeOK, String!TextConstants,
        String!Write, String!MainIdle, String!resets
  <2>4. Ahead'
    BY <1>2 DEF TextInv, String!TypeOK, Checking, Ahead, Writing, String!Write,
        String!MainIdle, String!resets
  <2>5. ResetInForce'
    BY <1>2 DEF TextInv, String!TypeOK, Writing, ResetInForce, String!Write,
        String!MainIdle, String!resets
  <2>6. Shown'
    BY <1>2
       DEF TextInv, String!TypeOK, Writing, Checking, Ahead, ResetInForce,
           Shown, String!Write, String!MainIdle,
           String!resets
  <2> QED  BY <2>1, <2>2, <2>3, <2>4, <2>5, <2>6 DEF TextInv
<1>3. ASSUME String!WriteSubmit
      PROVE  TextInv'
  <2>1. nRequest' \in Nat /\ nRequest' > nRequest /\ nRequest' <= 2 * MaxRequests + 1
    <3>1. nRequest' = String!NextRequest(FALSE)
      BY <1>3 DEF String!WriteSubmit, String!Submit
    <3>2. nRequest \in Nat /\ nRequest < 2 * MaxRequests
      BY <1>3 DEF TextInv, String!TypeOK, String!TextConstants,
          String!WriteSubmit, String!Submit
    <3> QED BY <3>1, <3>2, SerialGrows DEF String!TextConstants
  <2>2. String!TypeOK'
    <3>1. TextLocked'
      BY <1>3 DEF TextInv, String!TypeOK, TextLocked, String!WriteSubmit
    <3>2. nSerial \in Nat /\ nRequest \in Nat /\ nSerial <= nRequest
      BY DEF TextInv, String!TypeOK, String!TextConstants
    <3>3. main' \in [at : {"idle", "submit", "fetch", "check"}, serial : 0..nSerial']
      BY <1>3 DEF TextInv, String!TypeOK, String!WriteSubmit, String!MainIdle
    <3>4. known' \in -1..nRequest' /\ nRequest' \in nSerial'..(2 * MaxRequests + 1)
      BY <1>3, <2>1, <3>2 DEF TextInv, String!TypeOK, String!TextConstants,
          String!WriteSubmit, String!copy
    <3>5. sPending' \in Text
      BY <1>3 DEF TextInv, Checking, String!WriteSubmit, String!Submit
    <3> QED
      BY <1>3, <3>1, <3>3, <3>4, <3>5
         DEF TextInv, String!TypeOK, TextLocked, String!WriteSubmit,
             String!Submit, String!MainIdle, String!resets
  <2>3. Writing' /\ Checking' /\ Ahead'
    BY <1>3, <2>1
       DEF TextInv, String!TypeOK, Writing, Checking, Ahead, String!WriteSubmit,
           String!Submit, String!MainIdle, String!resets
  <2>4. ResetInForce' /\ Shown'
    BY <1>3, <2>1 DEF TextInv, String!TypeOK, ResetInForce, Shown,
        String!WriteSubmit, String!resets
  <2> QED BY <2>2, <2>3, <2>4 DEF TextInv
<1>4. ASSUME String!FetchCheck
      PROVE  TextInv'
  <2>1. String!TypeOK'
    BY <1>4 DEF TextInv, String!TextConstants, String!TypeOK, Writing,
        String!FetchCheck, String!MainIdle, String!resets, String!copy
  <2>2. Writing'
    BY <1>4 DEF TextInv, String!TextConstants, String!TypeOK, Writing,
        String!FetchCheck, String!MainIdle, String!resets, String!copy
  <2>3. Checking'
    BY <1>4 DEF TextInv, Checking, String!TypeOK, String!TextConstants,
        String!FetchCheck, String!MainIdle, String!resets, String!copy
  <2>4. Ahead'
    BY <1>4 DEF TextInv, String!TypeOK, Checking, Ahead, Writing,
        String!FetchCheck, String!MainIdle, String!resets, String!copy
  <2>5. ResetInForce'
    BY <1>4 DEF TextInv, String!TypeOK, Writing, ResetInForce,
        String!FetchCheck, String!MainIdle, String!resets, String!copy
  <2>6. Shown'
    BY <1>4
       DEF TextInv, String!TypeOK, Writing, Checking, Ahead, ResetInForce,
           Shown, String!FetchCheck,
           String!MainIdle, String!resets, String!copy
  <2> QED  BY <2>1, <2>2, <2>3, <2>4, <2>5, <2>6 DEF TextInv
<1>5. ASSUME String!FetchCopy
      PROVE  TextInv'
  <2>1. String!TypeOK'
    BY <1>5 DEF TextInv, String!TextConstants, String!TypeOK, Writing,
        String!FetchCopy, String!MainIdle, String!resets
  <2>2. Writing'
    BY <1>5 DEF TextInv, String!TextConstants, String!TypeOK, Writing,
        String!FetchCopy, String!MainIdle, String!resets
  <2>3. Checking'
    BY <1>5 DEF TextInv, Checking, String!TypeOK, String!TextConstants,
        String!FetchCopy, String!MainIdle, String!resets
  <2>4. Ahead'
    <3>1. /\ main.serial \in 0..nSerial /\ nSerial \in Nat
          /\ nRequest \in nSerial..(2 * MaxRequests + 1)
      BY DEF TextInv, String!TypeOK
    <3>2. known' = main.serial /\ nRequest' = nRequest /\ nSerial' = nSerial
      BY <1>5 DEF String!FetchCopy
    <3>3. known' = nRequest' => nSerial' = nRequest'
      BY <3>1, <3>2 DEF String!TextConstants
    <3> QED BY <3>3 DEF Ahead
  <2>5. ResetInForce'
    BY <1>5 DEF TextInv, String!TypeOK, Writing, ResetInForce, String!FetchCopy,
        String!MainIdle, String!resets
  <2>6. Shown'
    BY <1>5
       DEF TextInv, String!TypeOK, Writing, Checking, Ahead, ResetInForce,
           Shown, String!FetchCopy,
           String!MainIdle, String!resets
  <2> QED  BY <2>1, <2>2, <2>3, <2>4, <2>5, <2>6 DEF TextInv
<1>6. ASSUME String!ResetCheck
      PROVE  TextInv'
  <2>1. String!TypeOK'
    BY <1>6 DEF TextInv, String!TextConstants, String!TypeOK, Writing,
        String!ResetCheck, String!MainIdle
  <2>2. Writing'
    BY <1>6 DEF TextInv, String!TextConstants, String!TypeOK, Writing,
        String!ResetCheck, String!MainIdle
  <2>3. Checking'
    BY <1>6 DEF TextInv, Checking, String!TypeOK, String!TextConstants,
        String!ResetCheck, String!MainIdle
  <2>4. Ahead'
    BY <1>6 DEF TextInv, String!TypeOK, Checking, Ahead, Writing,
        String!ResetCheck, String!MainIdle
  <2>5. ResetInForce'
    BY <1>6 DEF TextInv, String!TypeOK, Writing, ResetInForce,
        String!ResetCheck, String!MainIdle
  <2>6. Shown'
    BY <1>6
       DEF TextInv, String!TypeOK, Writing, Checking, Ahead, ResetInForce,
           Shown, String!ResetCheck,
           String!MainIdle
  <2> QED  BY <2>1, <2>2, <2>3, <2>4, <2>5, <2>6 DEF TextInv
<1>7. ASSUME String!SyncLock
      PROVE  TextInv'
  <2>1. String!TypeOK'
    BY <1>7 DEF TextInv, String!TextConstants, String!TypeOK, Writing,
        String!SyncLock, String!resets, String!copy
  <2>2. Writing'
    BY <1>7 DEF TextInv, String!TextConstants, String!TypeOK, Writing,
        String!SyncLock, String!resets, String!copy
  <2>3. Checking'
    BY <1>7 DEF TextInv, Checking, String!TypeOK, String!TextConstants,
        String!SyncLock, String!resets, String!copy
  <2>4. Ahead'
    BY <1>7 DEF TextInv, String!TypeOK, Checking, Ahead, Writing,
        String!SyncLock, String!resets, String!copy
  <2>5. ResetInForce'
    BY <1>7 DEF TextInv, String!TypeOK, Writing, ResetInForce, String!SyncLock,
        String!resets, String!copy
  <2>6. Shown'
    BY <1>7
       DEF TextInv, String!TypeOK, Writing, Checking, Ahead, ResetInForce,
           Shown, String!SyncLock,
           String!resets, String!copy
  <2> QED  BY <2>1, <2>2, <2>3, <2>4, <2>5, <2>6 DEF TextInv
<1>8. ASSUME String!SyncCopy
      PROVE  TextInv'
  <2>1. String!TypeOK'
    BY <1>8 DEF TextInv, String!TextConstants, String!TypeOK, Writing,
        String!SyncCopy, String!resets, String!copy
  <2>2. Writing'
    BY <1>8 DEF TextInv, String!TextConstants, String!TypeOK, Writing,
        String!SyncCopy, String!resets, String!copy
  <2>3. Checking'
    BY <1>8 DEF TextInv, Checking, String!TypeOK, String!TextConstants,
        String!SyncCopy, String!resets, String!copy
  <2>4. Ahead'
    BY <1>8 DEF TextInv, String!TypeOK, Checking, Ahead, Writing,
        String!SyncCopy, String!resets, String!copy
  <2>5. ResetInForce'
    BY <1>8 DEF TextInv, String!TypeOK, Writing, ResetInForce, String!SyncCopy,
        String!resets, String!copy
  <2>6. Shown'
    BY <1>8
       DEF TextInv, String!TypeOK, Writing, Checking, Ahead, ResetInForce,
           Shown, String!SyncCopy,
           String!resets, String!copy
  <2> QED  BY <2>1, <2>2, <2>3, <2>4, <2>5, <2>6 DEF TextInv
<1>9. ASSUME String!SyncStore
      PROVE  TextInv'
  <2>1. String!TypeOK'
    <3>1. TextLocked'
      BY <1>9 DEF String!SyncStore, TextLocked
    <3> QED
      BY <1>9, <3>1
         DEF TextInv, String!TypeOK, String!TextConstants, String!SyncStore,
             TextLocked, String!MainIdle, String!resets, String!copy
  <2>2. Writing'
    BY <1>9 DEF TextInv, String!TextConstants, String!TypeOK, Writing,
        String!SyncStore, String!resets, String!copy
  <2>3. Checking'
    BY <1>9 DEF TextInv, Checking, String!TypeOK, String!TextConstants,
        String!SyncStore, String!resets, String!copy
  <2>4. Ahead'
    BY <1>9 DEF TextInv, String!TypeOK, Checking, Ahead, Writing,
        String!SyncStore, String!resets, String!copy
  <2>5. ResetInForce'
    BY <1>9 DEF TextInv, String!TypeOK, Writing, ResetInForce, String!SyncStore,
        String!resets, String!copy
  <2>6. Shown'
    BY <1>9
       DEF TextInv, String!TypeOK, Writing, Checking, Ahead, ResetInForce,
           Shown, String!SyncStore,
           String!resets, String!copy
  <2> QED  BY <2>1, <2>2, <2>3, <2>4, <2>5, <2>6 DEF TextInv
<1>10. ASSUME String!SetDefault
      PROVE  TextInv'
  <2>1. String!TypeOK'
    BY <1>10 DEF TextInv, String!TextConstants, String!TypeOK, Writing,
        String!SetDefault, String!resets, String!copy
  <2>2. Writing'
    BY <1>10 DEF TextInv, String!TextConstants, String!TypeOK, Writing,
        String!SetDefault, String!resets, String!copy
  <2>3. Checking'
    BY <1>10 DEF TextInv, Checking, String!TypeOK, String!TextConstants,
        String!SetDefault, String!resets, String!copy
  <2>4. Ahead'
    BY <1>10 DEF TextInv, String!TypeOK, Checking, Ahead, Writing,
        String!SetDefault, String!resets, String!copy
  <2>5. ResetInForce'
    BY <1>10 DEF TextInv, String!TypeOK, Writing, ResetInForce,
        String!SetDefault, String!resets, String!copy
  <2>6. Shown'
    BY <1>10
       DEF TextInv, String!TypeOK, Writing, Checking, Ahead, ResetInForce,
           Shown, String!SetDefault,
           String!resets, String!copy
  <2> QED  BY <2>1, <2>2, <2>3, <2>4, <2>5, <2>6 DEF TextInv
<1>11. ASSUME String!DefaultCopy
      PROVE  TextInv'
  <2>1. String!TypeOK'
    BY <1>11 DEF TextInv, String!TextConstants, String!TypeOK, Writing,
        String!DefaultCopy, String!resets, String!copy
  <2>2. Writing'
    BY <1>11 DEF TextInv, String!TextConstants, String!TypeOK, Writing,
        String!DefaultCopy, String!resets, String!copy
  <2>3. Checking'
    BY <1>11 DEF TextInv, Checking, String!TypeOK, String!TextConstants,
        String!DefaultCopy, String!resets, String!copy
  <2>4. Ahead'
    BY <1>11 DEF TextInv, String!TypeOK, Checking, Ahead, Writing,
        String!DefaultCopy, String!resets, String!copy
  <2>5. ResetInForce'
    BY <1>11 DEF TextInv, String!TypeOK, Writing, ResetInForce,
        String!DefaultCopy, String!resets, String!copy
  <2>6. Shown'
    BY <1>11
       DEF TextInv, String!TypeOK, Writing, Checking, Ahead, ResetInForce,
           Shown, String!DefaultCopy,
           String!resets, String!copy
  <2> QED  BY <2>1, <2>2, <2>3, <2>4, <2>5, <2>6 DEF TextInv
<1>12. ASSUME String!DefaultRaise
      PROVE  TextInv'
  <2>1. String!TypeOK'
    BY <1>12 DEF TextInv, String!TextConstants, String!TypeOK, Writing,
        String!DefaultRaise, String!copy
  <2>2. Writing'
    BY <1>12 DEF TextInv, String!TextConstants, String!TypeOK, Writing,
        String!DefaultRaise, String!copy
  <2>3. Checking'
    BY <1>12 DEF TextInv, Checking, String!TypeOK, String!TextConstants,
        String!DefaultRaise, String!copy
  <2>4. Ahead'
    BY <1>12 DEF TextInv, String!TypeOK, Checking, Ahead, Writing,
        String!DefaultRaise, String!copy
  <2>5. ResetInForce'
    BY <1>12 DEF TextInv, String!TypeOK, Writing, ResetInForce,
        String!DefaultRaise, String!copy
  <2>6. Shown'
    BY <1>12
       DEF TextInv, String!TypeOK, Writing, Checking, Ahead, ResetInForce,
           Shown, String!DefaultRaise,
           String!copy
  <2> QED  BY <2>1, <2>2, <2>3, <2>4, <2>5, <2>6 DEF TextInv
<1>13. ASSUME UNCHANGED String!vars
      PROVE  TextInv'
  <2>1. String!TypeOK'
    BY <1>13 DEF TextInv, String!TextConstants, String!TypeOK, Writing,
        String!vars, String!resets, String!copy
  <2>2. Writing'
    BY <1>13 DEF TextInv, String!TextConstants, String!TypeOK, Writing,
        String!vars, String!resets, String!copy
  <2>3. Checking'
    BY <1>13 DEF TextInv, Checking, String!TypeOK, String!TextConstants,
        String!vars, String!resets, String!copy
  <2>4. Ahead'
    BY <1>13 DEF TextInv, String!TypeOK, Checking, Ahead, Writing, String!vars,
        String!resets, String!copy
  <2>5. ResetInForce'
    BY <1>13 DEF TextInv, String!TypeOK, Writing, ResetInForce, String!vars,
        String!resets, String!copy
  <2>6. Shown'
    BY <1>13
       DEF TextInv, String!TypeOK, Writing, Checking, Ahead, ResetInForce,
           Shown, String!vars, String!resets,
           String!copy
  <2> QED  BY <2>1, <2>2, <2>3, <2>4, <2>5, <2>6 DEF TextInv
<1> QED
  BY <1>1, <1>2, <1>3, <1>4, <1>5, <1>6, <1>7, <1>8, <1>9, <1>10, <1>11, <1>12,
      <1>13
     DEF String!Next, String!Audio, String!Main, String!UiSync

LEMMA TextInvariance ==
  ASSUME String!TextConstants
  PROVE  String!Spec => []TextInv
<1>1. String!Init => TextInv  BY TextInit
<1>2. TextInv /\ [String!Next]_(String!vars) => TextInv'  BY TextStep
<1> QED BY <1>1, <1>2, PTL DEF String!Spec

(* Types are kept: serials and counters of resets never get ahead of what  *)
(* was submitted, and the lock is held exactly during the copy.            *)
THEOREM TextTypes ==
  ASSUME String!TextConstants
  PROVE  String!Spec => []String!TypeOK
<1>1. TextInv => String!TypeOK  BY DEF TextInv
<1> QED BY <1>1, TextInvariance, PTL

(* A user interface that has heard of everything shows the text in force,  *)
(* unless a text came into force while a reset was on its way.             *)
THEOREM ShowsTextInForce ==
  ASSUME String!TextConstants
  PROVE  String!Spec => []String!TextShown
<1>1. TextInv => String!TextShown
  BY DEF TextInv, Shown, String!TextShown, String!Settled, String!MainIdle
<1> QED BY <1>1, TextInvariance, PTL

-----------------------------------------------------------------------------

(* The lock, as the type invariant has it. *)
PathLocked == nDspRequest \in BOOLEAN /\ (nDspRequest <=> dsp # "idle")

(* What the serials and flags say of where the threads are. *)
Serving ==
  /\ nUiSerial = nDspCommit
  /\ main # "idle" => nDspSerial < MaxRequests
  /\ dsp # "idle" => nDspCommit < nDspSerial
  /\ dsp = "copy" => nFlags = "none"
  /\ dsp = "count" => nFlags = "pending"

(* The request is whole except while the host writes it. *)
RequestWhole == main # "request" => sDspRequest = requested

Served == main = "idle" /\ nDspSerial = nDspCommit

(* When all requests are served the plugin has the last one, *)
PathServed ==
  /\ Served => sPath = requested
  /\ main = "idle" /\ dsp = "count" /\ nDspSerial = nDspCommit + 1 => sPath = requested

(* the user interface shows it when it has heard of it, *)
PathShown == Served /\ nUiSerial = nUiCommit => sUiPath = sPath

(* and the plugin loads it when it has accepted. *)
PathLoaded == Served /\ nFlags # "pending" => loaded = sPath

PathInv == Paths!TypeOK /\ Serving /\ RequestWhole /\ PathServed /\ PathShown /\ PathLoaded

-----------------------------------------------------------------------------
LEMMA PathsInit == ASSUME Paths!PathConstants, Paths!Init PROVE PathInv
<1>1. Paths!TypeOK
  <2>1. PathLocked
    BY Zenon DEF Paths!Init, PathLocked
  <2> QED BY <2>1 DEF Paths!PathConstants, Paths!Init, Paths!TypeOK, PathLocked
<1>2. Serving /\ RequestWhole /\ PathServed /\ PathShown /\ PathLoaded
  BY DEF Paths!Init, Serving, RequestWhole, Served, PathServed, PathShown,
      PathLoaded
<1> QED BY <1>1, <1>2 DEF PathInv

(* Every step preserves the invariant. *)
LEMMA PathsStep ==
  ASSUME Paths!PathConstants, PathInv, [Paths!Next]_(Paths!vars)
  PROVE  PathInv'
<1>1. ASSUME NEW path \in Path, Paths!Submit(path)
      PROVE  PathInv'
  <2>1. Paths!TypeOK'
    BY <1>1 DEF PathInv, Paths!PathConstants, Paths!TypeOK, Serving,
        Paths!Submit
  <2>2. Serving'
    BY <1>1 DEF PathInv, Paths!TypeOK, Serving, Paths!Submit
  <2>3. RequestWhole'
    BY <1>1 DEF PathInv, RequestWhole, Paths!Submit
  <2>4. PathServed'
    BY <1>1 DEF PathInv, Paths!TypeOK, Serving, RequestWhole, Served,
        PathServed, Paths!Submit
  <2>5. PathShown'
    BY <1>1 DEF PathInv, Paths!TypeOK, Serving, Served, PathShown, Paths!Submit
  <2>6. PathLoaded'
    BY <1>1 DEF PathInv, Paths!TypeOK, Serving, Served, PathLoaded, Paths!Submit
  <2> QED  BY <2>1, <2>2, <2>3, <2>4, <2>5, <2>6 DEF PathInv
<1>2. ASSUME NEW path \in Path, Paths!Deserialize(path)
      PROVE  PathInv'
  <2>1. Paths!TypeOK'
    BY <1>2 DEF PathInv, Paths!PathConstants, Paths!TypeOK, Serving,
        Paths!Deserialize, Paths!serials
  <2>2. Serving'
    BY <1>2 DEF PathInv, Paths!TypeOK, Serving, Paths!Deserialize, Paths!serials
  <2>3. RequestWhole'
    BY <1>2 DEF PathInv, RequestWhole, Paths!Deserialize, Paths!serials
  <2>4. PathServed'
    BY <1>2
       DEF PathInv, Paths!TypeOK, Serving, RequestWhole, Served, PathServed,
           Paths!Deserialize, Paths!serials
  <2>5. PathShown'
    BY <1>2 DEF PathInv, Paths!TypeOK, Serving, Served, PathShown,
        Paths!Deserialize, Paths!serials
  <2>6. PathLoaded'
    BY <1>2 DEF PathInv, Paths!TypeOK, Serving, Served, PathLoaded,
        Paths!Deserialize, Paths!serials
  <2> QED  BY <2>1, <2>2, <2>3, <2>4, <2>5, <2>6 DEF PathInv
<1>3. ASSUME Paths!DeserializeRequest
      PROVE  PathInv'
  <2>1. Paths!TypeOK'
    BY <1>3 DEF PathInv, Paths!PathConstants, Paths!TypeOK, Serving,
        Paths!DeserializeRequest, Paths!serials
  <2>2. Serving'
    BY <1>3 DEF PathInv, Paths!TypeOK, Serving, Paths!DeserializeRequest,
        Paths!serials
  <2>3. RequestWhole'
    BY <1>3 DEF PathInv, RequestWhole, Paths!DeserializeRequest, Paths!serials
  <2>4. PathServed'
    BY <1>3
       DEF PathInv, Paths!TypeOK, Serving, RequestWhole, Served, PathServed,
           Paths!DeserializeRequest,
           Paths!serials
  <2>5. PathShown'
    BY <1>3 DEF PathInv, Paths!TypeOK, Serving, Served, PathShown,
        Paths!DeserializeRequest, Paths!serials
  <2>6. PathLoaded'
    BY <1>3 DEF PathInv, Paths!TypeOK, Serving, Served, PathLoaded,
        Paths!DeserializeRequest, Paths!serials
  <2> QED  BY <2>1, <2>2, <2>3, <2>4, <2>5, <2>6 DEF PathInv
<1>4. ASSUME Paths!DeserializePath
      PROVE  PathInv'
  <2>1. Paths!TypeOK'
    BY <1>4 DEF PathInv, Paths!PathConstants, Paths!TypeOK, Serving,
        Paths!DeserializePath, Paths!serials
  <2>2. Serving'
    BY <1>4 DEF PathInv, Paths!TypeOK, Serving, Paths!DeserializePath,
        Paths!serials
  <2>3. RequestWhole'
    BY <1>4 DEF PathInv, RequestWhole, Paths!DeserializePath, Paths!serials
  <2>4. PathServed'
    BY <1>4
       DEF PathInv, Paths!TypeOK, Serving, RequestWhole, Served, PathServed,
           Paths!DeserializePath,
           Paths!serials
  <2>5. PathShown'
    BY <1>4 DEF PathInv, Paths!TypeOK, Serving, Served, PathShown,
        Paths!DeserializePath, Paths!serials
  <2>6. PathLoaded'
    BY <1>4 DEF PathInv, Paths!TypeOK, Serving, Served, PathLoaded,
        Paths!DeserializePath, Paths!serials
  <2> QED  BY <2>1, <2>2, <2>3, <2>4, <2>5, <2>6 DEF PathInv
<1>5. ASSUME Paths!DeserializeCount
      PROVE  PathInv'
  <2>1. Paths!TypeOK'
    BY <1>5 DEF PathInv, Paths!PathConstants, Paths!TypeOK, Serving,
        Paths!DeserializeCount, Paths!serials
  <2>2. Serving'
    BY <1>5 DEF PathInv, Paths!TypeOK, Serving, Paths!DeserializeCount,
        Paths!serials
  <2>3. RequestWhole'
    BY <1>5 DEF PathInv, RequestWhole, Paths!DeserializeCount, Paths!serials
  <2>4. PathServed'
    BY <1>5
       DEF PathInv, Paths!TypeOK, Serving, RequestWhole, Served, PathServed,
           Paths!DeserializeCount,
           Paths!serials
  <2>5. PathShown'
    BY <1>5 DEF PathInv, Paths!TypeOK, Serving, Served, PathShown,
        Paths!DeserializeCount, Paths!serials
  <2>6. PathLoaded'
    BY <1>5 DEF PathInv, Paths!TypeOK, Serving, Served, PathLoaded,
        Paths!DeserializeCount, Paths!serials
  <2> QED  BY <2>1, <2>2, <2>3, <2>4, <2>5, <2>6 DEF PathInv
<1>6. ASSUME Paths!UiSync
      PROVE  PathInv'
  <2>1. Paths!TypeOK'
    BY <1>6 DEF PathInv, Paths!PathConstants, Paths!TypeOK, Serving,
        Paths!UiSync, Paths!serials
  <2>2. Serving'
    BY <1>6 DEF PathInv, Paths!TypeOK, Serving, Paths!UiSync, Paths!serials
  <2>3. RequestWhole'
    BY <1>6 DEF PathInv, RequestWhole, Paths!UiSync, Paths!serials
  <2>4. PathServed'
    BY <1>6 DEF PathInv, Paths!TypeOK, Serving, RequestWhole, Served,
        PathServed, Paths!UiSync, Paths!serials
  <2>5. PathShown'
    BY <1>6 DEF PathInv, Paths!TypeOK, Serving, Served, PathShown, Paths!UiSync,
        Paths!serials
  <2>6. PathLoaded'
    BY <1>6 DEF PathInv, Paths!TypeOK, Serving, Served, PathLoaded,
        Paths!UiSync, Paths!serials
  <2> QED  BY <2>1, <2>2, <2>3, <2>4, <2>5, <2>6 DEF PathInv
<1>7. ASSUME Paths!Pending
      PROVE  PathInv'
  <2>1. Paths!TypeOK'
    BY <1>7 DEF PathInv, Paths!PathConstants, Paths!TypeOK, Serving,
        Paths!Pending, Paths!serials
  <2>2. Serving'
    BY <1>7 DEF PathInv, Paths!TypeOK, Serving, Paths!Pending, Paths!serials
  <2>3. RequestWhole'
    BY <1>7 DEF PathInv, RequestWhole, Paths!Pending, Paths!serials
  <2>4. PathServed'
    BY <1>7 DEF PathInv, Paths!TypeOK, Serving, RequestWhole, Served,
        PathServed, Paths!Pending, Paths!serials
  <2>5. PathShown'
    BY <1>7 DEF PathInv, Paths!TypeOK, Serving, Served, PathShown,
        Paths!Pending, Paths!serials
  <2>6. PathLoaded'
    BY <1>7 DEF PathInv, Paths!TypeOK, Serving, Served, PathLoaded,
        Paths!Pending, Paths!serials
  <2> QED  BY <2>1, <2>2, <2>3, <2>4, <2>5, <2>6 DEF PathInv
<1>8. ASSUME Paths!PendingCopy
      PROVE  PathInv'
  <2>1. Paths!TypeOK'
    BY <1>8 DEF PathInv, Paths!PathConstants, Paths!TypeOK, Serving,
        Paths!PendingCopy, Paths!serials
  <2>2. Serving'
    BY <1>8 DEF PathInv, Paths!TypeOK, Serving, Paths!PendingCopy, Paths!serials
  <2>3. RequestWhole'
    BY <1>8 DEF PathInv, RequestWhole, Paths!PendingCopy, Paths!serials
  <2>4. PathServed'
    BY <1>8
       DEF PathInv, Paths!TypeOK, Serving, RequestWhole, Served, PathServed,
           Paths!PendingCopy, Paths!serials
  <2>5. PathShown'
    BY <1>8 DEF PathInv, Paths!TypeOK, Serving, Served, PathShown,
        Paths!PendingCopy, Paths!serials
  <2>6. PathLoaded'
    BY <1>8 DEF PathInv, Paths!TypeOK, Serving, Served, PathLoaded,
        Paths!PendingCopy, Paths!serials
  <2> QED  BY <2>1, <2>2, <2>3, <2>4, <2>5, <2>6 DEF PathInv
<1>9. ASSUME Paths!PendingCount
      PROVE  PathInv'
  <2>1. Paths!TypeOK'
    <3>1. PathLocked'
      BY <1>9 DEF Paths!PendingCount, PathLocked
    <3> QED
      BY <1>9, <3>1
         DEF PathInv, Paths!TypeOK, Paths!PathConstants, Serving,
             Paths!PendingCount, PathLocked, Paths!serials
  <2>2. Serving'
    BY <1>9 DEF PathInv, Paths!TypeOK, Serving, Paths!PendingCount,
        Paths!serials
  <2>3. RequestWhole'
    BY <1>9 DEF PathInv, RequestWhole, Paths!PendingCount, Paths!serials
  <2>4. PathServed'
    BY <1>9
       DEF PathInv, Paths!TypeOK, Serving, RequestWhole, Served, PathServed,
           Paths!PendingCount,
           Paths!serials
  <2>5. PathShown'
    BY <1>9 DEF PathInv, Paths!TypeOK, Serving, Served, PathShown,
        Paths!PendingCount, Paths!serials
  <2>6. PathLoaded'
    BY <1>9 DEF PathInv, Paths!TypeOK, Serving, Served, PathLoaded,
        Paths!PendingCount, Paths!serials
  <2> QED  BY <2>1, <2>2, <2>3, <2>4, <2>5, <2>6 DEF PathInv
<1>10. ASSUME Paths!Accept
      PROVE  PathInv'
  <2>1. Paths!TypeOK'
    BY <1>10 DEF PathInv, Paths!PathConstants, Paths!TypeOK, Serving,
        Paths!Accept, Paths!serials
  <2>2. Serving'
    BY <1>10 DEF PathInv, Paths!TypeOK, Serving, Paths!Accept, Paths!serials
  <2>3. RequestWhole'
    BY <1>10 DEF PathInv, RequestWhole, Paths!Accept, Paths!serials
  <2>4. PathServed'
    BY <1>10 DEF PathInv, Paths!TypeOK, Serving, RequestWhole, Served,
        PathServed, Paths!Accept, Paths!serials
  <2>5. PathShown'
    BY <1>10 DEF PathInv, Paths!TypeOK, Serving, Served, PathShown,
        Paths!Accept, Paths!serials
  <2>6. PathLoaded'
    BY <1>10 DEF PathInv, Paths!TypeOK, Serving, Served, PathLoaded,
        Paths!Accept, Paths!serials
  <2> QED  BY <2>1, <2>2, <2>3, <2>4, <2>5, <2>6 DEF PathInv
<1>11. ASSUME Paths!Commit
      PROVE  PathInv'
  <2>1. Paths!TypeOK'
    BY <1>11 DEF PathInv, Paths!PathConstants, Paths!TypeOK, Serving,
        Paths!Commit, Paths!serials
  <2>2. Serving'
    BY <1>11 DEF PathInv, Paths!TypeOK, Serving, Paths!Commit, Paths!serials
  <2>3. RequestWhole'
    BY <1>11 DEF PathInv, RequestWhole, Paths!Commit, Paths!serials
  <2>4. PathServed'
    BY <1>11 DEF PathInv, Paths!TypeOK, Serving, RequestWhole, Served,
        PathServed, Paths!Commit, Paths!serials
  <2>5. PathShown'
    BY <1>11 DEF PathInv, Paths!TypeOK, Serving, Served, PathShown,
        Paths!Commit, Paths!serials
  <2>6. PathLoaded'
    BY <1>11 DEF PathInv, Paths!TypeOK, Serving, Served, PathLoaded,
        Paths!Commit, Paths!serials
  <2> QED  BY <2>1, <2>2, <2>3, <2>4, <2>5, <2>6 DEF PathInv
<1>12. ASSUME UNCHANGED Paths!vars
      PROVE  PathInv'
  <2>1. Paths!TypeOK'
    BY <1>12 DEF PathInv, Paths!PathConstants, Paths!TypeOK, Serving,
        Paths!vars, Paths!serials
  <2>2. Serving'
    BY <1>12 DEF PathInv, Paths!TypeOK, Serving, Paths!vars, Paths!serials
  <2>3. RequestWhole'
    BY <1>12 DEF PathInv, RequestWhole, Paths!vars, Paths!serials
  <2>4. PathServed'
    BY <1>12 DEF PathInv, Paths!TypeOK, Serving, RequestWhole, Served,
        PathServed, Paths!vars, Paths!serials
  <2>5. PathShown'
    BY <1>12 DEF PathInv, Paths!TypeOK, Serving, Served, PathShown, Paths!vars,
        Paths!serials
  <2>6. PathLoaded'
    BY <1>12 DEF PathInv, Paths!TypeOK, Serving, Served, PathLoaded, Paths!vars,
        Paths!serials
  <2> QED  BY <2>1, <2>2, <2>3, <2>4, <2>5, <2>6 DEF PathInv
<1> QED
  BY <1>1, <1>2, <1>3, <1>4, <1>5, <1>6, <1>7, <1>8, <1>9, <1>10, <1>11, <1>12
     DEF Paths!Next, Paths!Main, Paths!Deserializing, Paths!Dsp

LEMMA PathInvariance == ASSUME Paths!PathConstants PROVE Paths!Spec => []PathInv
<1>1. Paths!Init => PathInv  BY PathsInit
<1>2. PathInv /\ [Paths!Next]_(Paths!vars) => PathInv'  BY PathsStep
<1> QED BY <1>1, <1>2, PTL DEF Paths!Spec

(* Types are kept: no request is served that was not made, the user        *)
(* interface is told of none that was not served.                          *)
THEOREM PathTypes ==
  ASSUME Paths!PathConstants
  PROVE  Paths!Spec => []Paths!TypeOK
<1>1. PathInv => Paths!TypeOK  BY DEF PathInv
<1> QED BY <1>1, PathInvariance, PTL

(* When nothing is on its way, the path requested last is loaded and       *)
(* shown, although the host's request is not under the lock.               *)
THEOREM LastPathWins ==
  ASSUME Paths!PathConstants
  PROVE  Paths!Spec => []Paths!PathSettles
<1>1. PathInv => Paths!PathSettles
  BY DEF PathInv, Paths!PathSettles, Served, PathServed, PathShown, PathLoaded
<1> QED BY <1>1, PathInvariance, PTL

-----------------------------------------------------------------------------

(* A task that loads has emptied pLoaded, one that has loaded filled it,   *)
(* and samples are collected only by the task that destroys them; a        *)
(* request in the making will be counted.                                  *)
Tasks ==
  /\ sLoadTask = "loading" => pLoaded = NULL
  /\ sLoadTask = "done" => pLoaded # NULL
  /\ sGCTask # "collecting" => collected = {}
  /\ ui # "idle" => nUpdateReq < MaxPlays

(* SamplesOwned, place by place. *)
Heard == {s \in Sample : s = bound \/ s \in playing}

Apart ==
  /\ pLoaded \notin Heard \cup garbage \cup pGCList \cup collected
  /\ Heard \cap (garbage \cup pGCList \cup collected) = {}
  /\ garbage \cap (pGCList \cup collected) = {}
  /\ pGCList \cap collected = {}

InMemory ==
  \A s \in Sample :
    content[s] # NULL <=>
      s = pLoaded \/ s \in Heard \cup garbage \cup pGCList \cup collected

PlayerInv == Player!TypeOK /\ Tasks /\ Apart /\ InMemory

-----------------------------------------------------------------------------
(* What the players are given keeps the places of samples apart: a sample  *)
(* that comes from nowhere else, or the one that is bound already.         *)
LEMMA GiveKeeps ==
  ASSUME Player!PlayerConstants, PlayerInv,
         NEW x \in Player!Maybe, NEW p \in SUBSET Sample,
         p \subseteq playing \cup {x}, 
         x \in {bound, NULL, pLoaded},
         Player!Give(x, p)
  PROVE  /\ bound' \in Player!Maybe /\ playing' \subseteq Sample /\ garbage' \subseteq Sample
         /\ Heard' \cup garbage' = Heard \cup garbage \cup ({x} \ {NULL})
         /\ Heard' \cap garbage' = {}
<1>t. /\ x \in Player!Maybe /\ bound \in Player!Maybe /\ playing \subseteq Sample
      /\ garbage \subseteq Sample /\ NULL \notin Sample
  BY DEF PlayerInv, Player!TypeOK, Player!PlayerConstants, Player!Maybe
<1>1. bound' = x /\ playing' = p
      /\ garbage' = garbage \cup (({bound} \cup playing) \ ({x, NULL} \cup p))
  BY DEF Player!Give
<1>2. bound' \in Player!Maybe /\ playing' \subseteq Sample /\ garbage' \subseteq Sample
  BY <1>t, <1>1 DEF Player!Maybe
<1>3. Heard' = ({x} \cup p) \ {NULL}
  BY <1>t, <1>1 DEF Player!Maybe, Heard
<1>4. Heard = ({bound} \cup playing) \ {NULL}
  BY <1>t DEF Player!Maybe, Heard
<1>5. (x # NULL => x \notin garbage) /\ Heard \cap garbage = {}
  BY <1>t, <1>4 DEF PlayerInv, Apart
<1>6. Heard' \cap garbage' = {}
  BY <1>1, <1>3, <1>4, <1>5
<1>7. Heard' \cup garbage' = Heard \cup garbage \cup ({x} \ {NULL})
  BY <1>1, <1>3, <1>4
<1> QED BY <1>2, <1>6, <1>7

LEMMA PlayersInit == ASSUME Player!PlayerConstants, Player!Init PROVE PlayerInv
BY DEF Player!PlayerConstants, Player!Init, PlayerInv, Player!TypeOK, Tasks,
    Apart, InMemory, Heard, Player!Name, Player!Maybe

(* A step that moves no sample. *)
LEMMA Unmoved ==
  ASSUME PlayerInv, UNCHANGED <<bound, playing, garbage, pLoaded, pGCList, collected, content>>
  PROVE  Apart' /\ InMemory'
BY DEF PlayerInv, Apart, InMemory, Heard

(* A step of the audio thread that gives the players what they have, or    *)
(* nothing.                                                                *)
LEMMA Given ==
  ASSUME Player!PlayerConstants, PlayerInv, NEW x \in {bound, NULL},
         NEW p \in SUBSET Sample, p \subseteq playing \cup ({x} \ {NULL}),
         Player!Give(x, p), UNCHANGED <<pLoaded, pGCList, collected, content>>
  PROVE  /\ bound' \in Player!Maybe /\ playing' \subseteq Sample /\ garbage' \subseteq Sample
         /\ Apart' /\ InMemory'
<1>1. x \in Player!Maybe  BY DEF PlayerInv, Player!TypeOK, Player!Maybe
<1>2. /\ bound' \in Player!Maybe /\ playing' \subseteq Sample
      /\ garbage' \subseteq Sample
      /\ Heard' \cup garbage' = Heard \cup garbage \cup ({x} \ {NULL})
      /\ Heard' \cap garbage' = {}
  BY <1>1, GiveKeeps
<1>3. {x} \ {NULL} \subseteq Heard
  BY DEF Heard, PlayerInv, Player!TypeOK, Player!Maybe
<1>4. Heard' \cup garbage' = Heard \cup garbage
  BY <1>2, <1>3
<1>5. Apart'
  BY <1>2, <1>4 DEF PlayerInv, Apart
<1>6. InMemory'
  BY <1>4 DEF PlayerInv, InMemory
<1> QED BY <1>2, <1>5, <1>6

LEMMA UserStep ==
  ASSUME Player!PlayerConstants, PlayerInv,
         (\E f \in File \cup {NoFile} : Player!PlayName(f) \/ Player!PlayEvent(f)) \/ Player!UiStep
  PROVE  PlayerInv'
<1>1. UNCHANGED <<Player!nameVars, Player!playVars, sLoadTask, pLoaded,
                  Player!gcVars, content, fails>>
  BY DEF Player!PlayName, Player!PlayEvent, Player!UiStep, Player!PlayCopied,
      Player!PlayCount
<1>2. Apart' /\ InMemory'
  BY <1>1, Unmoved DEF Player!playVars, Player!gcVars
<1>3. ASSUME NEW f \in File \cup {NoFile}, Player!PlayName(f)
      PROVE  Player!TypeOK' /\ Tasks'
  BY <1>1, <1>3 DEF Player!PlayName, PlayerInv, Player!TypeOK, Tasks,
      Player!nameVars, Player!playVars, Player!gcVars, Player!Name, Player!Maybe
<1>4. ASSUME NEW f \in File \cup {NoFile}, Player!PlayEvent(f)
      PROVE  Player!TypeOK' /\ Tasks'
  BY <1>1, <1>4 DEF Player!PlayEvent, PlayerInv, Player!TypeOK, Tasks,
      Player!PlayerConstants, Player!nameVars, Player!playVars,
     Player!gcVars, Player!Name, Player!Maybe
<1>5. ASSUME Player!PlayCopied PROVE Player!TypeOK' /\ Tasks'
  BY <1>1, <1>5 DEF Player!PlayCopied, PlayerInv, Player!TypeOK, Tasks,
      Player!nameVars, Player!playVars, Player!gcVars, Player!Name, Player!Maybe
<1>6. ASSUME Player!PlayCount PROVE Player!TypeOK' /\ Tasks'
  BY <1>1, <1>6 DEF Player!PlayCount, PlayerInv, Player!TypeOK, Tasks,
      Player!PlayerConstants, Player!nameVars, Player!playVars,
     Player!gcVars, Player!Name, Player!Maybe
<1>7. Player!TypeOK' /\ Tasks'
  BY <1>3, <1>4, <1>5, <1>6 DEF Player!UiStep
<1> QED BY <1>2, <1>7 DEF PlayerInv

(* The steps of the audio thread that move no sample. *)
QuietStep ==
  Player!Take \/ Player!NothingAsked \/ Player!Cancelled \/ Player!Compare
    \/ Player!Copy \/ Player!Submit \/ Player!Respond

LEMMA AudioQuiet ==
  ASSUME Player!PlayerConstants, PlayerInv, QuietStep
  PROVE  PlayerInv'
<1> USE DEF Player!PlayerConstants, Player!RtKeeps, Player!requestVars,
    Player!gcVars, Player!nameVars, Player!playVars
<1>1. Apart' /\ InMemory'
  BY Unmoved DEF QuietStep, Player!Take, Player!NothingAsked, Player!Cancelled,
      Player!Compare, Player!Copy, Player!Submit, Player!Respond
<1>2. ASSUME Player!Take PROVE Player!TypeOK' /\ Tasks'
  BY <1>2 DEF Player!Take, PlayerInv, Player!TypeOK, Tasks, Player!Name,
      Player!Maybe
<1>3. ASSUME Player!NothingAsked PROVE Player!TypeOK' /\ Tasks'
  BY <1>3 DEF Player!NothingAsked, PlayerInv, Player!TypeOK, Tasks, Player!Name,
      Player!Maybe
<1>4. ASSUME Player!Cancelled PROVE Player!TypeOK' /\ Tasks'
  BY <1>4 DEF Player!Cancelled, PlayerInv, Player!TypeOK, Tasks, Player!Name,
      Player!Maybe
<1>5. ASSUME Player!Compare PROVE Player!TypeOK' /\ Tasks'
  BY <1>5 DEF Player!Compare, PlayerInv, Player!TypeOK, Tasks, Player!Name,
      Player!Maybe
<1>6. ASSUME Player!Copy PROVE Player!TypeOK' /\ Tasks'
  BY <1>6 DEF Player!Copy, PlayerInv, Player!TypeOK, Tasks, Player!Name,
      Player!Maybe
<1>7. ASSUME Player!Submit PROVE Player!TypeOK' /\ Tasks'
  BY <1>7 DEF Player!Submit, PlayerInv, Player!TypeOK, Tasks, Player!Name,
      Player!Maybe
<1>8. ASSUME Player!Respond PROVE Player!TypeOK' /\ Tasks'
  BY <1>8 DEF Player!Respond, PlayerInv, Player!TypeOK, Tasks, Player!Name,
      Player!Maybe
<1>9. Player!TypeOK' /\ Tasks'
  BY <1>2, <1>3, <1>4, <1>5, <1>6, <1>7, <1>8 DEF QuietStep
<1> QED BY <1>1, <1>9 DEF PlayerInv

(* What Play launches is the file of a sample in memory, or nothing. *)
LEMMA PlayGives ==
  ASSUME Player!PlayerConstants, PlayerInv, NEW x \in Player!Maybe, Player!Play(x)
  PROVE  /\ Player!Give(x, IF x = NULL THEN playing ELSE playing \cup {x})
         /\ (x = NULL \/ content[x] # NULL) => played' \in Player!Name
<1>1. CASE x = NULL
  BY <1>1 DEF Player!Play, Player!Name
<1>2. CASE x # NULL
  BY <1>2 DEF Player!Play, PlayerInv, Player!TypeOK, Player!Name, Player!Maybe
<1> QED BY <1>1, <1>2

(* The sample that was loaded becomes the one that is bound. *)
LEMMA LoadedStep ==
  ASSUME Player!PlayerConstants, PlayerInv, Player!Loaded
  PROVE  PlayerInv'
<1> USE DEF Player!PlayerConstants, Player!RtKeeps, Player!requestVars,
    Player!gcVars, Player!nameVars
<1>1. CASE sLoadTask = "done" /\ nUpdateReq = nUpdateResp
  <2>1. Player!Play(pLoaded) /\ pLoaded' = NULL
    BY <1>1 DEF Player!Loaded
  <2>2. pLoaded \in Sample /\ pLoaded # NULL
    BY <1>1 DEF PlayerInv, Tasks, Player!TypeOK, Player!Maybe
  <2>3. Player!Give(pLoaded, playing \cup {pLoaded}) /\ played' \in Player!Name
    BY <2>1, <2>2, PlayGives DEF PlayerInv, InMemory, Player!Maybe
  <2>4. /\ bound' \in Player!Maybe /\ playing' \subseteq Sample
        /\ garbage' \subseteq Sample
        /\ Heard' \cup garbage' = Heard \cup garbage \cup ({pLoaded} \ {NULL})
        /\ Heard' \cap garbage' = {}
    <3>1. /\ pLoaded \in Player!Maybe
          /\ playing \cup {pLoaded} \in SUBSET Sample
          /\ playing \cup {pLoaded} \subseteq playing \cup {pLoaded}
          /\ pLoaded \in {bound, NULL, pLoaded}
      BY <2>2 DEF PlayerInv, Player!TypeOK, Player!Maybe
    <3> QED BY <2>3, <3>1, GiveKeeps
  <2>5. UNCHANGED <<pGCList, collected, content>>
    BY DEF Player!Loaded
  <2>6. NULL \notin Heard' \cup garbage' \cup pGCList \cup collected
    BY <2>4 DEF PlayerInv, Player!TypeOK, Heard
  <2>7. Apart'
    <3>1. (Heard' \cup garbage') \cap (pGCList \cup collected) = {}
      BY <2>4 DEF PlayerInv, Apart
    <3>2. pGCList \cap collected = {}
      BY DEF PlayerInv, Apart
    <3> QED BY <2>1, <2>4, <2>5, <2>6, <3>1, <3>2 DEF Apart
  <2>8. InMemory'
    BY <2>1, <2>2, <2>4, <2>5 DEF PlayerInv, InMemory
  <2>9. Player!TypeOK' /\ Tasks'
    BY <1>1, <2>1, <2>3, <2>4 DEF Player!Loaded, PlayerInv, Player!TypeOK,
        Tasks, Player!Maybe
  <2> QED BY <2>7, <2>8, <2>9 DEF PlayerInv
<1>2. CASE ~ (sLoadTask = "done" /\ nUpdateReq = nUpdateResp)
  <2>1. UNCHANGED <<Player!playVars, pLoaded, Player!gcVars, content>>
    BY <1>2 DEF Player!Loaded
  <2>2. Apart' /\ InMemory'
    BY <2>1, Unmoved DEF Player!playVars
  <2>3. Player!TypeOK' /\ Tasks'
    BY <2>1 DEF Player!Loaded, PlayerInv, Player!TypeOK, Tasks, Player!Maybe,
        Player!playVars
  <2> QED BY <2>2, <2>3 DEF PlayerInv
<1> QED BY <1>1, <1>2

(* Cancelling, playing again and the end of a playback. *)
LEMMA PlayersStep ==
  ASSUME Player!PlayerConstants, PlayerInv, Player!Length \/ Player!Again \/ Player!Ending
  PROVE  PlayerInv'
<1> USE DEF Player!PlayerConstants, Player!RtKeeps, Player!requestVars,
    Player!gcVars, Player!nameVars, Player!playVars
<1>1. CASE Player!Length
  <2>1. CASE sReqFileName # NoFile
    <3>1. UNCHANGED <<Player!playVars, pLoaded, Player!gcVars, content>> /\ Player!TypeOK' /\ Tasks'
      BY <1>1, <2>1 DEF Player!Length, PlayerInv, Player!TypeOK, Tasks,
          Player!Maybe
    <3> QED BY <3>1, Unmoved DEF PlayerInv
  <2>2. CASE sReqFileName = NoFile
    <3>1. PICK x \in {bound, NULL} : Player!Give(x, playing)
      BY <1>1, <2>2 DEF Player!Length
    <3>2. playing \in SUBSET Sample /\ playing \subseteq playing \cup ({x} \ {NULL})
      BY DEF PlayerInv, Player!TypeOK
    <3>3. UNCHANGED <<pLoaded, pGCList, collected, content>>
      BY <1>1 DEF Player!Length
    <3>4. /\ bound' \in Player!Maybe /\ playing' \subseteq Sample
          /\ garbage' \subseteq Sample
          /\ Apart' /\ InMemory'
      BY <3>1, <3>2, <3>3, Given
    <3>5. Player!TypeOK' /\ Tasks'
      BY <1>1, <2>2, <3>4 DEF Player!Length, PlayerInv, Player!TypeOK, Tasks,
          Player!Maybe, Player!Name
    <3> QED BY <3>4, <3>5 DEF PlayerInv
  <2> QED BY <2>1, <2>2
<1>2. CASE Player!Again
  <2> DEFINE p == IF bound = NULL THEN playing ELSE playing \cup {bound}
  <2>1. bound \in Player!Maybe /\ (bound = NULL \/ content[bound] # NULL)
    BY DEF PlayerInv, Player!TypeOK, InMemory, Heard, Player!Maybe
  <2>2. Player!Give(bound, p) /\ played' \in Player!Name
    BY <1>2, <2>1, PlayGives DEF Player!Again
  <2>3. p \in SUBSET Sample /\ p \subseteq playing \cup ({bound} \ {NULL})
    BY <2>1 DEF PlayerInv, Player!TypeOK, Player!Maybe
  <2>4. UNCHANGED <<pLoaded, pGCList, collected, content>>
    BY <1>2 DEF Player!Again
  <2>5. /\ bound' \in Player!Maybe /\ playing' \subseteq Sample
        /\ garbage' \subseteq Sample
        /\ Apart' /\ InMemory'
    BY <2>2, <2>3, <2>4, Given
  <2>6. Player!TypeOK' /\ Tasks'
    BY <1>2, <2>2, <2>5 DEF Player!Again, PlayerInv, Player!TypeOK, Tasks,
        Player!Maybe
  <2> QED BY <2>5, <2>6 DEF PlayerInv
<1>3. CASE Player!Ending
  <2>1. PICK s \in Sample : Player!Ends(s)
    BY <1>3 DEF Player!Ending
  <2>2. /\ playing \ {s} \in SUBSET Sample
        /\ playing \ {s} \subseteq playing \cup ({bound} \ {NULL})
    BY DEF PlayerInv, Player!TypeOK
  <2>3. Player!Give(bound, playing \ {s}) /\ UNCHANGED <<pLoaded, pGCList, collected, content>>
    BY <2>1 DEF Player!Ends
  <2>4. /\ bound' \in Player!Maybe /\ playing' \subseteq Sample
        /\ garbage' \subseteq Sample
        /\ Apart' /\ InMemory'
    BY <2>2, <2>3, Given
  <2>5. Player!TypeOK' /\ Tasks'
    BY <2>1, <2>4 DEF Player!Ends, PlayerInv, Player!TypeOK, Tasks, Player!Maybe
  <2> QED BY <2>4, <2>5 DEF PlayerInv
<1> QED BY <1>1, <1>2, <1>3

(* process_gc_tasks() lists samples that waited. *)
LEMMA GcTasks ==
  ASSUME Player!PlayerConstants, PlayerInv, Player!ProcessGcTasks
  PROVE  PlayerInv'
<1> USE DEF Player!PlayerConstants, Player!requestVars, Player!nameVars
<1>1. CASE sGCTask \notin {"idle", "completed"}
  <2>1. UNCHANGED <<bound, playing, garbage, pLoaded, pGCList, collected, content>>
    BY <1>1 DEF Player!ProcessGcTasks
  <2>2. Player!TypeOK' /\ Tasks'
    BY <1>1 DEF Player!ProcessGcTasks, PlayerInv, Player!TypeOK, Tasks,
        Player!Maybe
  <2> QED BY <2>1, <2>2, Unmoved DEF PlayerInv
<1>2. CASE sGCTask \in {"idle", "completed"}
  <2>1. PICK list \in Player!ToCollect :
          /\ pGCList' = list /\ garbage' = garbage \ list
          /\ \/ list = {} /\ sGCTask' = "idle" /\ UNCHANGED fails
             \/ list # {} /\ sGCTask' = "submitted" /\ UNCHANGED fails
             \/ /\ list # {} /\ sGCTask' = "idle"
                /\ fails < MaxFails /\ fails' = fails + 1
    BY <1>2 DEF Player!ProcessGcTasks
  <2>2. list = pGCList \/ (pGCList = {} /\ list \subseteq garbage)
    BY <2>1 DEF Player!ToCollect
  <2>3. UNCHANGED <<bound, playing, pLoaded, collected, content, played, sLoadTask>>
    BY DEF Player!ProcessGcTasks
  <2>4. collected = {}
    BY <1>2 DEF PlayerInv, Tasks
  <2>5. garbage' \cup pGCList' = garbage \cup pGCList /\ garbage' \cap pGCList' = {}
    BY <2>1, <2>2 DEF PlayerInv, Apart
  <2>6. Heard' = Heard
    BY <2>3 DEF Heard
  <2>7. Apart'
    BY <2>3, <2>4, <2>5, <2>6 DEF PlayerInv, Apart
  <2>8. InMemory'
    BY <2>3, <2>5, <2>6 DEF PlayerInv, InMemory
  <2>9. garbage' \subseteq Sample /\ pGCList' \subseteq Sample
    BY <2>1, <2>2 DEF PlayerInv, Player!TypeOK
  <2>10. Player!TypeOK' /\ Tasks'
    BY <2>1, <2>3, <2>4, <2>9 DEF Player!ProcessGcTasks, PlayerInv,
        Player!TypeOK, Tasks, Player!Maybe
  <2> QED BY <2>7, <2>8, <2>10 DEF PlayerInv
<1> QED BY <1>1, <1>2

(* The executor creates a sample, or destroys the one nobody took. *)
LEMMA FileStep ==
  ASSUME Player!PlayerConstants, PlayerInv, Player!Load
  PROVE  PlayerInv'
<1> USE DEF Player!PlayerConstants, Player!ExecutorKeeps, Player!requestVars,
    Player!nameVars, Player!playVars, Player!gcVars
<1>1. UNCHANGED <<bound, playing, garbage, pGCList, collected>> /\ Heard' = Heard
  BY DEF Player!Load, Player!LoadBegin, Player!LoadEnd, Heard
<1>2. CASE Player!LoadBegin
  <2>1. /\ pLoaded' = NULL
        /\ \A s \in Sample : content'[s] = IF s = pLoaded THEN NULL ELSE content[s]
    BY <1>2 DEF Player!LoadBegin
  <2>2. Apart'
    BY <1>1, <2>1 DEF PlayerInv, Player!TypeOK, Apart, Heard
  <2>3. InMemory'
    BY <1>1, <2>1 DEF PlayerInv, Apart, InMemory
  <2>4. Player!TypeOK' /\ Tasks'
    BY <1>2 DEF Player!LoadBegin, PlayerInv, Player!TypeOK, Tasks, Player!Maybe,
        Player!Name
  <2> QED BY <2>2, <2>3, <2>4 DEF PlayerInv
<1>3. CASE Player!LoadEnd /\ sLoadTask' = "done"
  <2>1. PICK s \in Player!Free : pLoaded' = s /\ content' = [content EXCEPT ![s] = sFileName]
    BY <1>3 DEF Player!LoadEnd
  <2>2. /\ s \in Sample /\ content[s] = NULL /\ pLoaded = NULL
        /\ sFileName # NULL /\ sFileName \in Player!Name
    BY <1>3 DEF Player!LoadEnd, Player!Free, PlayerInv, Tasks, Player!TypeOK,
        Player!Name
  <2>3. \A t \in Sample : content'[t] = IF t = s THEN sFileName ELSE content[t]
    BY <2>1 DEF PlayerInv, Player!TypeOK
  <2>4. Apart'
    BY <1>1, <2>1, <2>2 DEF PlayerInv, Apart, InMemory
  <2>5. InMemory'
    BY <1>1, <2>1, <2>2, <2>3 DEF PlayerInv, InMemory
  <2>6. Player!TypeOK' /\ Tasks'
    BY <1>3, <2>1, <2>2 DEF Player!LoadEnd, PlayerInv, Player!TypeOK, Tasks,
        Player!Maybe
  <2> QED BY <2>4, <2>5, <2>6 DEF PlayerInv
<1>4. CASE Player!LoadEnd /\ sLoadTask' # "done"
  <2>1. UNCHANGED <<bound, playing, garbage, pLoaded, pGCList, collected, content>>
    BY <1>4 DEF Player!LoadEnd
  <2>2. Player!TypeOK' /\ Tasks'
    BY <1>4 DEF Player!LoadEnd, PlayerInv, Player!TypeOK, Tasks, Player!Maybe
  <2> QED BY <2>1, <2>2, Unmoved DEF PlayerInv
<1> QED BY <1>2, <1>3, <1>4 DEF Player!Load

LEMMA GcStep ==
  ASSUME Player!PlayerConstants, PlayerInv, Player!Gc
  PROVE  PlayerInv'
<1> USE DEF Player!PlayerConstants, Player!ExecutorKeeps, Player!requestVars,
    Player!nameVars, Player!playVars
<1>1. UNCHANGED <<bound, playing, garbage, pLoaded, sLoadTask>> /\ Heard' = Heard
  BY DEF Player!Gc, Player!Collect, Player!Destroy, Heard
<1>2. CASE Player!Collect
  <2>1. collected = {} /\ collected' = pGCList /\ pGCList' = {} /\ UNCHANGED content
    BY <1>2 DEF Player!Collect, PlayerInv, Tasks
  <2>2. Apart'
    BY <1>1, <2>1 DEF PlayerInv, Apart
  <2>3. InMemory'
    BY <1>1, <2>1 DEF PlayerInv, InMemory
  <2>4. Player!TypeOK' /\ Tasks'
    BY <1>2 DEF Player!Collect, PlayerInv, Player!TypeOK, Tasks, Player!Maybe
  <2> QED BY <2>2, <2>3, <2>4 DEF PlayerInv
<1>3. CASE Player!Destroy
  <2>1. /\ collected' = {} /\ UNCHANGED pGCList
        /\ \A s \in Sample : content'[s] = IF s \in collected THEN NULL ELSE content[s]
    BY <1>3 DEF Player!Destroy
  <2>2. Apart'
    BY <1>1, <2>1 DEF PlayerInv, Apart
  <2>3. InMemory'
    BY <1>1, <2>1 DEF PlayerInv, Apart, InMemory
  <2>4. Player!TypeOK' /\ Tasks'
    BY <1>3 DEF Player!Destroy, PlayerInv, Player!TypeOK, Tasks, Player!Maybe,
        Player!Name
  <2> QED BY <2>2, <2>3, <2>4 DEF PlayerInv
<1> QED BY <1>2, <1>3 DEF Player!Gc

LEMMA PlayersNext ==
  ASSUME Player!PlayerConstants, PlayerInv, [Player!Next]_(Player!vars)
  PROVE  PlayerInv'
<1>1. CASE UNCHANGED Player!vars
  BY <1>1, Unmoved DEF Player!vars, Player!requestVars, Player!nameVars,
      Player!playVars, Player!gcVars, PlayerInv, Player!TypeOK, Tasks
<1>2. CASE \/ \E f \in File \cup {NoFile} : Player!PlayName(f) \/ Player!PlayEvent(f)
           \/ Player!UiStep
  BY <1>2, UserStep
<1>3. CASE Player!Process
  BY <1>3, AudioQuiet, LoadedStep, PlayersStep, GcTasks DEF Player!Process,
      QuietStep
<1>4. CASE Player!Ending \/ Player!Load \/ Player!Gc
  BY <1>4, PlayersStep, FileStep, GcStep
<1> QED BY <1>1, <1>2, <1>3, <1>4 DEF Player!Next

-----------------------------------------------------------------------------
LEMMA PlayerInvariance ==
  ASSUME Player!PlayerConstants
  PROVE  Player!Spec => []PlayerInv
<1>1. Player!Init => PlayerInv
  BY PlayersInit
<1>2. PlayerInv /\ [Player!Next]_(Player!vars) => PlayerInv'
  BY PlayersNext
<1> QED BY <1>1, <1>2, PTL DEF Player!Spec

(* The variables keep their types, and no request is answered that was not *)
(* made (process_async_requests()).                                        *)
THEOREM PlayerTypes ==
  ASSUME Player!PlayerConstants
  PROVE  Player!Spec => []Player!TypeOK
<1>1. PlayerInv => Player!TypeOK
  BY DEF PlayerInv
<1> QED BY <1>1, PlayerInvariance, PTL

LEMMA OnePlace == ASSUME PlayerInv PROVE Player!SamplesOwned
<1> SUFFICES ASSUME NEW s \in Sample
             PROVE  /\ content[s] # NULL <=> \E place \in Player!Place : Player!Holds(place, s)
                    /\ \A p, q \in Player!Place : Player!Holds(p, s) /\ Player!Holds(q, s) => p = q
  BY DEF Player!SamplesOwned
<1>1. (\E place \in Player!Place : Player!Holds(place, s))
        <=> s = pLoaded \/ s \in Heard \cup garbage \cup pGCList \cup collected
  BY DEF Player!Place, Player!Holds, Heard
<1>2. content[s] # NULL <=> \E place \in Player!Place : Player!Holds(place, s)
  BY <1>1 DEF PlayerInv, InMemory
<1>3. \A p, q \in Player!Place : Player!Holds(p, s) /\ Player!Holds(q, s) => p = q
  BY DEF PlayerInv, Apart, Player!Place, Player!Holds, Heard
<1> QED BY <1>2, <1>3

(* Every sample in memory is in exactly one of the places from where it    *)
(* will be destroyed (load_sample(), play_current_sample(), gc, destroy_   *)
(* samples()).                                                             *)
THEOREM EverySampleOwned ==
  ASSUME Player!PlayerConstants
  PROVE  Player!Spec => []Player!SamplesOwned
<1>1. PlayerInv => Player!SamplesOwned
  BY OnePlace
<1> QED BY <1>1, PlayerInvariance, PTL

-----------------------------------------------------------------------------

Holding(s, n) == s # NULL /\ content[s] = n

Asked ==
  /\ ui = "idle" /\ sReqFileName = request /\ sFileName # Torn
  /\ rt \in {"length", "compare", "again", "copy", "submit", "cancelled"} =>
       sLoadTask = "idle"
  /\ rt = "respond" => sLoadTask \in {"submitted", "loading", "done"}
  /\ rt \notin {"idle", "gc"} => nUpdateReq # nUpdateResp
  /\ rt \in {"compare", "again", "copy"} => request # NoFile
  /\ rt \in {"again", "submit", "respond"} => sFileName = request
  /\ rt = "cancelled" => request = NoFile /\ played = NoFile
  /\ nUpdateReq = nUpdateResp => sFileName = request

FileKept ==
  /\ sLoadTask # "failed"
  /\ sLoadTask = "done" => Holding(pLoaded, sFileName)
  /\ sFileName # NoFile /\ rt \notin {"submit", "cancelled"} =>
       \/ sLoadTask \in {"submitted", "loading"}
       \/ Holding(pLoaded, sFileName) \/ Holding(bound, sFileName)
  /\ nUpdateReq = nUpdateResp /\ sLoadTask = "idle" =>
       played = request \/ Holding(pLoaded, request)

LEMMA EventsInit ==
  ASSUME Player!PlayerConstants, Player!Init
  PROVE  Asked /\ FileKept
BY DEF Player!PlayerConstants, Player!Init, Asked, FileKept

LEMMA EventsStep ==
  ASSUME Player!PlayerConstants, PlayerInv, Asked, FileKept, Player!Next,
         ui' = "idle", fails = 0, fails' = 0
  PROVE  Asked' /\ FileKept'
<1> USE DEF Player!PlayerConstants, Player!requestVars, Player!nameVars,
    Player!playVars, Player!gcVars
<1>1. ASSUME NEW f \in File \cup {NoFile}, Player!PlayName(f) \/ Player!PlayEvent(f)
      PROVE  Asked' /\ FileKept'
  BY <1>1 DEF Player!PlayName, Player!PlayEvent, Asked, FileKept, Holding,
      PlayerInv, Player!TypeOK
<1>2. CASE Player!UiStep
  BY <1>2 DEF Player!UiStep, Player!PlayCopied, Player!PlayCount, Asked
<1>3. CASE Player!Take \/ Player!NothingAsked \/ Player!Compare \/ Player!Copy
  BY <1>3 DEF Player!Take, Player!NothingAsked, Player!Compare, Player!Copy,
      Player!RtKeeps, Asked, FileKept, Holding, PlayerInv, Player!TypeOK
<1>4. CASE Player!Submit \/ Player!Respond \/ Player!Cancelled
  BY <1>4 DEF Player!Submit, Player!Respond, Player!Cancelled, Player!RtKeeps,
      Asked, FileKept, Holding, PlayerInv, Player!TypeOK
<1>5. CASE Player!Length
  BY <1>5 DEF Player!Length, Player!Give, Player!RtKeeps, Asked, FileKept,
      Holding, PlayerInv, Player!TypeOK
<1>6. CASE Player!Again
  BY <1>6 DEF Player!Again, Player!Play, Player!Give, Player!RtKeeps, Asked,
      FileKept, Holding, PlayerInv, Player!TypeOK
<1>7. CASE Player!Loaded
  BY <1>7 DEF Player!Loaded, Player!Play, Player!Give, Player!RtKeeps, Asked,
      FileKept, Holding, PlayerInv, Player!TypeOK
<1>8. CASE Player!ProcessGcTasks
  BY <1>8 DEF Player!ProcessGcTasks, Asked, FileKept, Holding
<1>9. ASSUME NEW s \in Sample, Player!Ends(s) PROVE Asked' /\ FileKept'
  BY <1>9 DEF Player!Ends, Player!Give, Player!RtKeeps, Asked, FileKept, Holding
<1>10. CASE Player!LoadBegin
  BY <1>10 DEF Player!LoadBegin, Player!ExecutorKeeps, Asked, FileKept, Holding,
      PlayerInv, Apart, Heard, Player!TypeOK, Player!Maybe
<1>11. CASE Player!LoadEnd
  BY <1>11 DEF Player!LoadEnd, Player!Free, Player!ExecutorKeeps, Asked,
      FileKept, Holding, PlayerInv, Apart, Heard, Player!TypeOK, Player!Maybe
<1>12. CASE Player!Collect
  BY <1>12 DEF Player!Collect, Player!ExecutorKeeps, Asked, FileKept, Holding
<1>13. CASE Player!Destroy
  BY <1>13 DEF Player!Destroy, Player!ExecutorKeeps, Asked, FileKept, Holding,
      PlayerInv, Apart, Heard, Player!TypeOK, Player!Maybe
<1> QED BY <1>1, <1>2, <1>3, <1>4, <1>5, <1>6, <1>7, <1>8, <1>9, <1>10, <1>11,
    <1>12, <1>13 DEF Player!Next, Player!Process, Player!Ending, Player!Load,
    Player!Gc

-----------------------------------------------------------------------------
(* The ports together: the behaviour is about one of them, whose variables *)
(* take its steps.                                                         *)

(* What failed is never forgotten. *)
LEMMA FailsGrow ==
  ASSUME Player!PlayerConstants, PlayerInv, [Player!Next]_(Player!vars), fails' = 0
  PROVE  fails = 0
<1> USE DEF PlayerInv, Player!TypeOK, Player!PlayerConstants
<1>1. fails \in Nat
  OBVIOUS
<1>2. UNCHANGED fails \/ fails' = fails + 1
  <2>1. CASE UNCHANGED Player!vars
    BY <2>1 DEF Player!vars
  <2>2. CASE \E f \in File \cup {NoFile} : Player!PlayName(f) \/ Player!PlayEvent(f)
    BY <2>2 DEF Player!PlayName, Player!PlayEvent
  <2>3. CASE Player!UiStep
    BY <2>3 DEF Player!UiStep, Player!PlayCopied, Player!PlayCount
  <2>4. CASE Player!Process
    BY <2>4 DEF Player!Process, Player!Take, Player!Loaded, Player!NothingAsked,
        Player!Length, Player!Cancelled, Player!Compare, Player!Again, Player!Copy,
        Player!Submit, Player!Respond, Player!ProcessGcTasks
  <2>5. CASE Player!Ending
    BY <2>5 DEF Player!Ending, Player!Ends
  <2>6. CASE Player!Load \/ Player!Gc
    BY <2>6 DEF Player!Load, Player!LoadBegin, Player!LoadEnd, Player!Gc,
        Player!Collect, Player!Destroy
  <2> QED BY <2>1, <2>2, <2>3, <2>4, <2>5, <2>6 DEF Player!Next
<1> QED BY <1>1, <1>2

-----------------------------------------------------------------------------
(* Streams.  Samples are found by their numbers: sample s has the element  *)
(* (s - 1) % Ring of both rings of samples, and the frame id lies behind   *)
(* the Sum(id - 1) samples that were written before it.                    *)
Ring == Stream!nBufCap
SampleAt(s) == (s - 1) % Ring
Sum(id) == IF id <= 0 THEN 0 ELSE written[id]
Lesser(i, j) == IF i <= j THEN i ELSE j
Longest == IF nBufMax >= MaxFrameSize THEN nBufMax ELSE MaxFrameSize

(* Numbers a multiple of n apart have one residue, *)
LEMMA SameResidue ==
  ASSUME NEW n \in Nat \ {0}, NEW i \in Int, NEW e \in Int, NEW k \in Int, i - e = n * k
  PROVE  i % n = e % n
<1> DEFINE x == i \div n
           y == e \div n
<1>1. /\ i % n \in 0..(n - 1) /\ x \in Int /\ i = n * x + (i % n)
      /\ e % n \in 0..(n - 1) /\ y \in Int /\ e = n * y + (e % n)
  BY Division
<1> HIDE DEF x, y
<1>2. n * (k - x) = n * k - n * x /\ n * ((k - x) - (0 - y)) = n * (k - x) - n * (0 - y)
  BY <1>1, Product
<1>3. n * (0 - y) = 0 - n * y
  <2>1. n * (0 - y) = n * 0 - n * y
    BY <1>1, Product
  <2> QED BY <2>1
<1> DEFINE q == (k - x) - (0 - y)
           i1 == i % n
           e1 == e % n
           p == n * k
           px == n * x
           py == n * y
           pq == n * q
<1>4. /\ i1 \in 0..(n - 1) /\ e1 \in 0..(n - 1) /\ p \in Int /\ px \in Int /\ py \in Int
      /\ i = px + i1 /\ e = py + e1 /\ i - e = p /\ pq = p - px + py /\ q \in Int
  BY <1>1, <1>2, <1>3
<1>5. q = 0
  <2>1. n * q < n /\ n * q > 0 - n
    <3> HIDE DEF q, p, px, py, i1, e1
    <3>1. pq < n /\ pq > 0 - n
      <4> HIDE DEF pq
      <4> QED BY <1>4
    <3> QED BY <3>1
  <2> HIDE DEF q
  <2> QED BY <1>4, <2>1, SmallProduct
<1>6. pq = 0
  <2> HIDE DEF q
  <2> QED BY <1>5
<1> HIDE DEF p, px, py, pq, q, i1, e1
<1>7. i1 = e1
  BY <1>4, <1>6
<1> QED BY <1>7 DEF i1, e1

(* so a residue may be taken before or after adding and subtracting.       *)
LEMMA ModSum ==
  ASSUME NEW n \in Nat \ {0}, NEW i \in Int, NEW j \in Int
  PROVE  ((i % n) + j) % n = (i + j) % n
<1> DEFINE x == i \div n
           r == i % n
           p == n * x
<1>1. r \in Int /\ x \in Int /\ i = p + r /\ p \in Int
  BY Division
<1> HIDE DEF r, x
<1>2. (i + j) - (r + j) = n * x
  <2> HIDE DEF p
  <2>1. (i + j) - (r + j) = p
    BY <1>1
  <2> QED BY <2>1 DEF p
<1>3. (i + j) % n = (r + j) % n
  <2> HIDE DEF p
  <2>1. i + j \in Int /\ r + j \in Int
    BY <1>1
  <2> QED BY <1>1, <1>2, <2>1, SameResidue
<1> QED BY <1>3 DEF r

LEMMA ModDifference ==
  ASSUME NEW n \in Nat \ {0}, NEW i \in Int, NEW j \in Int
  PROVE  ((i % n) - (j % n)) % n = (i - j) % n
<1> DEFINE y == j \div n
           r == j % n
           p == n * y
<1>1. r \in Int /\ y \in Int /\ j = p + r /\ p \in Int
  BY Division
<1> HIDE DEF r, y
<1>2. (i - r) - (i - j) = n * y
  <2> HIDE DEF p
  <2>1. (i - r) - (i - j) = p
    BY <1>1
  <2> QED BY <2>1 DEF p
<1>3. (i - r) % n = (i - j) % n
  <2>1. PICK u \in Int, v \in Int : u = i - r /\ v = i - j
    <3>1. i - r \in Int /\ i - j \in Int
      BY <1>1
    <3> QED BY <3>1
  <2>2. u - v = n * y
    BY <1>2, <2>1
  <2>3. u % n = v % n
    BY <1>1, <2>2, SameResidue
  <2> QED BY <2>1, <2>3
<1>4. ((i % n) + (0 - r)) % n = (i + (0 - r)) % n
  <2>1. 0 - r \in Int
    BY <1>1
  <2> QED BY <2>1, ModSum
<1> DEFINE s == i % n
<1>5. s \in Int /\ s + (0 - r) = s - r /\ i + (0 - r) = i - r
  <2>1. s \in Int
    BY Division
  <2> HIDE DEF s
  <2> QED BY <1>1, <2>1
<1>6. (s - r) % n = (i - j) % n
  BY <1>3, <1>4, <1>5
<1> QED BY <1>6 DEF s, r

LEMMA SmallResidue ==
  ASSUME NEW n \in Nat \ {0}, NEW i \in 0..(n - 1)
  PROVE  i % n = i
OBVIOUS

(* create(): the rings hold twice the history, and the history with a      *)
(* frame behind it.                                                        *)
LEMMA StreamSizes ==
  /\ nFrames \in Nat \ {0} /\ nFrameCap \in Nat \ {0} /\ nFrameCap >= 8 * nFrames
  /\ MaxFrameSize \in Nat \ {0} /\ nBufMax \in Nat \ {0} /\ MaxFrames \in Nat
  /\ Ring \in Nat \ {0} /\ Ring >= 2 * nBufMax /\ Ring >= nBufMax + MaxFrameSize
  /\ Longest \in Nat /\ nBufMax <= Longest /\ MaxFrameSize <= Longest
<1>1. /\ nFrames \in Nat \ {0} /\ nFrameCap \in Nat /\ nFrameCap >= 8 * nFrames
      /\ MaxFrameSize \in Nat \ {0} /\ nBufMax \in Nat \ {0} /\ MaxFrames \in Nat
      /\ MaxFrameSize < 2 * nBufMax
  BY PortsAssumption DEF PortsAssumption, Stream!StreamConstants
<1> DEFINE i == 2 * nBufMax + MaxFrameSize - 1
           q == i \div MaxFrameSize
           r == i % MaxFrameSize
           p == MaxFrameSize * q
<1>2. q \in Int /\ r \in 0..(MaxFrameSize - 1) /\ i = p + r
  <2>1. i \in Int
    BY <1>1
  <2> HIDE DEF i
  <2> QED BY <1>1, <2>1, Division
<1>3. Ring = p
  <2>1. Ring = q * MaxFrameSize
    BY DEF Ring, Stream!nBufCap
  <2>2. ASSUME NEW x \in Int, NEW y \in Int PROVE x * y = y * x
    OBVIOUS
  <2> HIDE DEF q
  <2> QED BY <1>1, <1>2, <2>1, <2>2
<1>4. p \in Int /\ p >= 2 * nBufMax
  <2>1. p = i - r /\ i - r \in Int
    BY <1>1, <1>2
  <2> HIDE DEF p, r
  <2> QED BY <1>1, <1>2, <2>1
<1>5. p >= nBufMax + MaxFrameSize
  <2>1. CASE MaxFrameSize <= nBufMax
    <3> HIDE DEF p
    <3> QED BY <1>1, <1>4, <2>1
  <2>2. CASE MaxFrameSize > nBufMax
    <3>1. q >= 2
      <4>1. MaxFrameSize * (q - 1) = MaxFrameSize * q - MaxFrameSize * 1
        <5> HIDE DEF q
        <5> QED BY <1>1, <1>2, Product
      <4>2. MaxFrameSize * (q - 1) > 0
        <5> HIDE DEF q
        <5> QED BY <1>1, <1>4, <4>1
      <4> DEFINE z == q - 1
      <4>3. z \in Int /\ MaxFrameSize * z > 0
        <5> HIDE DEF q
        <5> QED BY <1>2, <4>2
      <4> HIDE DEF z
      <4>4. z > 0
        BY <1>1, <4>3
      <4> HIDE DEF q
      <4> QED BY <1>2, <4>4 DEF z
    <3>2. MaxFrameSize * (q - 2) = MaxFrameSize * q - MaxFrameSize * 2
      <4> HIDE DEF q
      <4> QED BY <1>1, <1>2, Product
    <3>3. MaxFrameSize * (q - 2) >= 0
      <4> DEFINE z == q - 2
      <4>1. z \in Nat
        <5> HIDE DEF q
        <5> QED BY <1>2, <3>1
      <4> HIDE DEF z
      <4>2. MaxFrameSize * z >= 0
        BY <1>1, <4>1
      <4> QED BY <4>2 DEF z
    <3> DEFINE t == MaxFrameSize * (q - 2)
    <3>4. t = p - 2 * MaxFrameSize /\ t >= 0
      BY <1>1, <3>2, <3>3
    <3> HIDE DEF t, p
    <3> QED BY <1>1, <1>4, <2>2, <3>4
  <2> HIDE DEF p
  <2> QED BY <1>1, <2>1, <2>2
<1>6. Longest \in Nat /\ nBufMax <= Longest /\ MaxFrameSize <= Longest
  BY <1>1 DEF Longest
<1> HIDE DEF p
<1> QED BY <1>1, <1>3, <1>4, <1>5, <1>6

LEMMA StreamMin ==
  ASSUME NEW i \in Int, NEW j \in Int
  PROVE  Stream!Min({i, j}) = Lesser(i, j)
BY DEF Stream!Min, Lesser

LEMMA StreamMinOfThree ==
  ASSUME NEW i \in Int, NEW j \in Int, NEW k \in Int
  PROVE  LET m == Stream!Min({i, j, k})
         IN m \in {i, j, k} /\ m <= i /\ m <= j /\ m <= k
<1>1. PICK m \in {i, j, k} : \A e \in {i, j, k} : m <= e
  OBVIOUS
<1> QED BY <1>1 DEF Stream!Min

LEMMA StreamMax ==
  ASSUME NEW i \in Int, NEW j \in Int
  PROVE  Stream!Max({i, j}) = IF i >= j THEN i ELSE j
BY DEF Stream!Max

LEMMA InRing ==
  ASSUME NEW i \in Int
  PROVE  i % Ring \in 0..(Ring - 1)
BY StreamSizes, Division

(* Put: samples that are put behind sample p take the elements of those    *)
(* with the numbers that follow, and of no other near them.                *)
LEMMA PutBehind ==
  ASSUME NEW data \in [0..(Ring - 1) -> Int],
         NEW p \in Int, NEW samples \in Seq(Int), Len(samples) <= Ring
  PROVE  LET new == Stream!Put(data, p % Ring, samples)
         IN /\ new \in [0..(Ring - 1) -> Int]
            /\ \A k \in 1..Len(samples) : new[SampleAt(p + k)] = samples[k]
            /\ \A s \in (p + Len(samples) - Ring + 1)..p :
                 new[SampleAt(s)] = data[SampleAt(s)]
<1> DEFINE head == p % Ring
           new == Stream!Put(data, head, samples)
           l == Len(samples)
<1>1. /\ Ring \in Nat \ {0} /\ l \in Nat /\ l <= Ring
      /\ \A k \in 1..l : samples[k] \in Int
  BY StreamSizes, LenProperties, ElementOfSeq
<1>2. head \in 0..(Ring - 1)
  BY InRing
<1>3. /\ DOMAIN new = 0..(Ring - 1)
      /\ new = [i \in 0..(Ring - 1) |-> new[i]]
      /\ \A i \in 0..(Ring - 1) :
           new[i] = IF (i - head) % Ring < l THEN samples[((i - head) % Ring) + 1] ELSE data[i]
  <2>1. new = [i \in 0..(Ring - 1) |->
                 IF (i - head) % Ring < l THEN samples[((i - head) % Ring) + 1] ELSE data[i]]
    BY DEF Stream!Put, Ring
  <2> HIDE DEF new
  <2> QED BY <2>1
<1> HIDE DEF new
<1>4. \A i \in 0..(Ring - 1) : new[i] \in Int
  <2> SUFFICES ASSUME NEW i \in 0..(Ring - 1) PROVE new[i] \in Int
    OBVIOUS
  <2> DEFINE k == (i - head) % Ring
  <2>1. k \in 0..(Ring - 1)
    <3>1. i - head \in Int
      BY <1>2
    <3> QED BY <3>1, InRing
  <2>2. new[i] = IF k < l THEN samples[k + 1] ELSE data[i]
    BY <1>3
  <2> HIDE DEF k
  <2>3. CASE k < l
    <3>1. k + 1 \in 1..l
      BY <1>1, <2>1, <2>3
    <3> QED BY <1>1, <2>2, <2>3, <3>1
  <2>4. CASE ~(k < l)
    BY <2>2, <2>4
  <2> QED BY <2>3, <2>4
<1>5. new \in [0..(Ring - 1) -> Int]
  BY <1>3, <1>4
<1>6. ASSUME NEW s \in Int
      PROVE  /\ SampleAt(s) \in 0..(Ring - 1)
             /\ (SampleAt(s) - head) % Ring = (s - 1 - p) % Ring
  <2>1. s - 1 \in Int
    OBVIOUS
  <2> QED BY <1>1, <2>1, InRing, ModDifference DEF SampleAt
<1>7. ASSUME NEW k \in 1..l PROVE new[SampleAt(p + k)] = samples[k]
  <2>1. (p + k) - 1 - p = k - 1 /\ k - 1 \in 0..(Ring - 1) /\ p + k \in Int /\ k - 1 < l
        /\ (k - 1) + 1 = k
    BY <1>1
  <2>2. (k - 1) % Ring = k - 1
    BY <1>1, <2>1, SmallResidue
  <2>3. (SampleAt(p + k) - head) % Ring = k - 1 /\ SampleAt(p + k) \in 0..(Ring - 1)
    BY <1>6, <2>1, <2>2
  <2> QED BY <1>3, <2>1, <2>3
<1>8. ASSUME NEW s \in (p + l - Ring + 1)..p PROVE new[SampleAt(s)] = data[SampleAt(s)]
  <2> DEFINE d == s - 1 - p
  <2>1. d \in Int /\ s \in Int /\ d + Ring \in 0..(Ring - 1) /\ ~(d + Ring < l)
        /\ d = (d + Ring) - Ring
    BY <1>1
  <2> HIDE DEF d
  <2>2. (d + Ring) % Ring = d % Ring
    <3>1. d + Ring \in Int
      BY <2>1
    <3> QED BY <1>1, <2>1, <3>1, Period
  <2>3. (d + Ring) % Ring = d + Ring
    BY <1>1, <2>1, SmallResidue
  <2>4. (SampleAt(s) - head) % Ring = d + Ring /\ SampleAt(s) \in 0..(Ring - 1)
    BY <1>6, <2>1, <2>2, <2>3 DEF d
  <2> QED BY <1>3, <2>1, <2>4
<1> QED BY <1>5, <1>7, <1>8 DEF new, head

LEMMA TakenAre ==
  ASSUME NEW data \in [0..(Ring - 1) -> Int],
         NEW head \in Int, NEW count \in Nat
  PROVE  LET taken == Stream!Taken(data, head, count)
         IN /\ taken \in Seq(Int) /\ Len(taken) = count
            /\ \A k \in 1..count : taken[k] = data[(head + k - 1) % Ring]
<1> DEFINE taken == [k \in 1..count |-> data[(head + k - 1) % Ring]]
<1>1. \A k \in 1..count : data[(head + k - 1) % Ring] \in Int
  <2> SUFFICES ASSUME NEW k \in 1..count PROVE data[(head + k - 1) % Ring] \in Int
    OBVIOUS
  <2>1. head + k - 1 \in Int
    OBVIOUS
  <2> QED BY <2>1, InRing
<1>2. taken \in [1..count -> Int]
  BY <1>1
<1>3. Stream!Taken(data, head, count) = taken
  BY DEF Stream!Taken, Ring
<1>4. \A k \in 1..count : taken[k] = data[(head + k - 1) % Ring]
  OBVIOUS
<1> HIDE DEF taken
<1>5. taken \in Seq(Int) /\ Len(taken) = count
  BY <1>2
<1> QED BY <1>3, <1>4, <1>5

(* the samples behind the first p ones *)
LEMMA TakenBehind ==
  ASSUME NEW data \in [0..(Ring - 1) -> Int],
         NEW p \in Int, NEW count \in Nat
  PROVE  LET taken == Stream!Taken(data, p % Ring, count)
         IN /\ taken \in Seq(Int) /\ Len(taken) = count
            /\ \A k \in 1..count : taken[k] = data[SampleAt(p + k)]
<1> DEFINE head == p % Ring
           taken == Stream!Taken(data, head, count)
<1>1. head \in Int
  BY InRing
<1>2. /\ taken \in Seq(Int) /\ Len(taken) = count
      /\ \A k \in 1..count : taken[k] = data[(head + k - 1) % Ring]
  <2> HIDE DEF head
  <2> QED BY <1>1, TakenAre
<1>3. ASSUME NEW k \in 1..count PROVE (head + k - 1) % Ring = SampleAt(p + k)
  <2>1. (head + (k - 1)) % Ring = (p + (k - 1)) % Ring
    <3>1. k - 1 \in Int
      OBVIOUS
    <3> QED BY <3>1, ModSum, StreamSizes
  <2> DEFINE h == head
  <2>2. h + (k - 1) = h + k - 1 /\ p + (k - 1) = (p + k) - 1
    <3>1. h \in Int
      BY <1>1
    <3> HIDE DEF h
    <3> QED BY <3>1
  <2> QED BY <2>1, <2>2 DEF SampleAt
<1> HIDE DEF taken, head
<1>4. \A k \in 1..count : taken[k] = data[SampleAt(p + k)]
  BY <1>2, <1>3
<1> QED BY <1>2, <1>4 DEF taken, head

-----------------------------------------------------------------------------
(* The frame that is being written, *)
Fresh == Stream!Frame(src, src.nFrameId + 1)
NewFrame == IF adding THEN 1 ELSE 0
Pending == IF adding THEN Fresh.size ELSE 0

(* a ring with the samples up to one, but for those up to another.         *)
Recorded(data, upto, gone) == \A s \in 1..upto : s > gone => data[SampleAt(s)] = s

FrameRecord ==
  [id : 0..MaxFrames, head : 0..(Ring - 1), tail : 0..(Ring - 1),
   size : 0..MaxFrameSize, length : 0..Longest]
StreamRecord ==
  [nFrameId : 0..MaxFrames, vFrames : [0..(nFrameCap - 1) -> FrameRecord],
   data : [0..(Ring - 1) -> Int]]

StreamTypes ==
  /\ src \in StreamRecord /\ dst \in StreamRecord
  /\ adding \in BOOLEAN
  /\ reader \in [at : {"idle", "full", "frame", "copy all", "copy", "store"},
                 last : 0..MaxFrames, next : 0..MaxFrames, sf : FrameRecord]
  /\ past \subseteq {"full", "cleared"}
  /\ reader.at \in {"full", "copy all"} => "full" \in past
  /\ adding => src.nFrameId < MaxFrames
  /\ dst.nFrameId <= src.nFrameId
  /\ reader.at # "idle" => reader.next <= reader.last /\ reader.last <= src.nFrameId

StreamSums ==
  /\ written \in Seq(Nat) /\ Len(written) = src.nFrameId
  /\ \A i, j \in 0..src.nFrameId : i <= j => Sum(i) <= Sum(j)
  /\ \A i \in 1..src.nFrameId : Sum(i) <= Sum(i - 1) + MaxFrameSize

(* What read() of the source relies on; the frame that is being written is *)
(* silent or complete, and leaves the history alone.                       *)
StreamNow ==
  LET n == src.nFrameId
      w == Sum(src.nFrameId)
      f == Stream!Frame(src, src.nFrameId)
  IN /\ f.tail = w % Ring /\ f.length = Lesser(w, nBufMax) /\ (f.id = n \/ w = 0)
     /\ Recorded(src.data, w, w + Pending - Ring)
     /\ adding =>
          /\ Fresh.id = n + 1 /\ Fresh.length = Fresh.size
          /\ Fresh.head = w % Ring /\ Fresh.tail = (w + Fresh.size) % Ring
          /\ \/ \A k \in 1..Fresh.size : src.data[SampleAt(w + k)] = 0
             \/ \A k \in 1..Fresh.size : src.data[SampleAt(w + k)] = w + k

(* What sync() relies on: the frames that were not written over lie where  *)
(* their samples were written.                                             *)
StreamFrames ==
  \A id \in 0..src.nFrameId : id > src.nFrameId + NewFrame - nFrameCap =>
    /\ Stream!Frame(src, id).head = Sum(id - 1) % Ring
    /\ Stream!Frame(src, id).tail = Sum(id) % Ring

(* A frame of the copy that lies where the source's does. *)
Right(f, sum) == f.tail = sum % Ring /\ f.length = Lesser(sum, nBufMax)

(* The copy holds a frame, the one before it, and the history. *)
Copied(d) ==
  /\ Right(Stream!Frame(dst, d - 1), Sum(d - 1))
  /\ Right(Stream!Frame(dst, d), Sum(d)) /\ Stream!Frame(dst, d).id = d
  /\ Recorded(dst.data, Sum(d), Sum(d) - nBufMax)

(* While sync() runs, the writer is neither a ring of frames nor one of    *)
(* samples ahead of what is still to be copied.                            *)
InSight ==
  /\ reader.last <= reader.next + nFrames
  /\ src.nFrameId + NewFrame < reader.last + nFrameCap - nFrames
  /\ Sum(src.nFrameId) + Pending + nBufMax <= Sum(reader.last) + Ring

CopyState ==
  past = {} =>
    /\ reader.at = "idle" => Copied(dst.nFrameId)
    /\ reader.at # "idle" => InSight
    /\ reader.at \in {"frame", "copy"} =>
         /\ Right(Stream!Frame(dst, reader.next - 1), Sum(reader.next - 1))
         /\ Recorded(dst.data, Sum(reader.next - 1), Sum(reader.last) - nBufMax)
    /\ reader.at = "copy" =>
         /\ reader.sf.head = Sum(reader.next - 1) % Ring
         /\ reader.sf.tail = Sum(reader.next) % Ring
    /\ reader.at = "store" => Copied(reader.last)

StreamInv == StreamTypes /\ StreamSums /\ StreamNow /\ StreamFrames /\ CopyState

-----------------------------------------------------------------------------
LEMMA StreamNumbers ==
  ASSUME StreamTypes
  PROVE  /\ src.nFrameId \in 0..MaxFrames /\ dst.nFrameId \in 0..MaxFrames
         /\ reader.next \in 0..MaxFrames /\ reader.last \in 0..MaxFrames
         /\ src.nFrameId \in Nat /\ dst.nFrameId \in Nat
         /\ reader.next \in Nat /\ reader.last \in Nat
         /\ reader.at # "idle" => reader.next <= reader.last /\ reader.last <= src.nFrameId
<1>1. MaxFrames \in Nat
  BY StreamSizes
<1>2. src.nFrameId \in 0..MaxFrames /\ dst.nFrameId \in 0..MaxFrames
  BY DEF StreamTypes, StreamRecord
<1>3. /\ reader.next \in 0..MaxFrames /\ reader.last \in 0..MaxFrames
      /\ reader.at # "idle" => reader.next <= reader.last /\ reader.last <= src.nFrameId
  BY DEF StreamTypes
<1> QED BY <1>1, <1>2, <1>3

LEMMA SumsAre ==
  ASSUME StreamTypes, StreamSums
  PROVE  /\ src.nFrameId \in 0..MaxFrames
         /\ \A i \in Int : i <= src.nFrameId => Sum(i) \in Nat
         /\ \A i \in 0..src.nFrameId : Sum(i - 1) <= Sum(i) /\ Sum(i) <= Sum(i - 1) + MaxFrameSize
         /\ \A i \in Nat : Stream!Total(i) = Sum(i)
<1>1. src.nFrameId \in 0..MaxFrames /\ src.nFrameId \in Nat
  BY StreamNumbers
<1>2. \A i \in 1..src.nFrameId : written[i] \in Nat
  BY ElementOfSeq DEF StreamSums
<1>3. ASSUME NEW i \in Int, i <= src.nFrameId PROVE Sum(i) \in Nat
  <2>1. i <= 0 \/ i \in 1..src.nFrameId
    BY <1>1, <1>3
  <2> QED BY <1>2, <2>1 DEF Sum
<1>4. ASSUME NEW i \in 0..src.nFrameId
      PROVE  Sum(i - 1) <= Sum(i) /\ Sum(i) <= Sum(i - 1) + MaxFrameSize
  <2>1. CASE i = 0
    <3>1. Sum(i) = 0 /\ Sum(i - 1) = 0
      BY <2>1 DEF Sum
    <3>2. MaxFrameSize \in Nat
      BY StreamSizes
    <3> QED BY <3>1, <3>2
  <2>2. CASE i # 0
    <3>1. i \in 1..src.nFrameId /\ i - 1 \in 0..src.nFrameId /\ i - 1 <= i
      BY <1>1, <2>2
    <3> QED BY <3>1 DEF StreamSums
  <2> QED BY <2>1, <2>2
<1>5. \A i \in Nat : Stream!Total(i) = Sum(i)
  BY DEF Stream!Total, Sum
<1> QED BY <1>1, <1>3, <1>4, <1>5

(* Frames less than a ring apart are different ones. *)
LEMMA OtherFrame ==
  ASSUME NEW i \in Int, NEW j \in Int, i # j, i - j < nFrameCap, j - i < nFrameCap
  PROVE  /\ i % nFrameCap \in 0..(nFrameCap - 1) /\ j % nFrameCap \in 0..(nFrameCap - 1)
         /\ i % nFrameCap # j % nFrameCap
BY StreamSizes, Distinct, Division

LEMMA FrameIndex ==
  ASSUME NEW i \in Int
  PROVE  i % nFrameCap \in 0..(nFrameCap - 1)
BY StreamSizes, Division

(* A step of the writer leaves the copy as good as it was.                 *)
LEMMA CopyKept ==
  ASSUME StreamTypes, StreamSums, CopyState,
         UNCHANGED <<dst, reader>>, past' = past, src.nFrameId <= src'.nFrameId,
         src'.nFrameId \in Nat,
         \A id \in Int : id <= src.nFrameId => Sum(id)' = Sum(id),
         reader.at # "idle" /\ past = {} => InSight'
  PROVE  CopyState'
<1> SUFFICES ASSUME past = {} PROVE CopyState'
  BY DEF CopyState
<1>1. /\ src.nFrameId \in Nat /\ dst.nFrameId \in Nat
      /\ reader.next \in Nat /\ reader.last \in Nat
  BY StreamNumbers
<1>2. ASSUME NEW d \in Nat, d <= src.nFrameId, Copied(d)
      PROVE  Copied(d)'
  <2>1. Sum(d)' = Sum(d) /\ Sum(d - 1)' = Sum(d - 1)
    BY <1>1, <1>2
  <2>2. Stream!Frame(dst, d)' = Stream!Frame(dst, d)
        /\ Stream!Frame(dst, d - 1)' = Stream!Frame(dst, d - 1)
    BY DEF Stream!Frame
  <2> QED BY <1>2, <2>1, <2>2 DEF Copied
<1>3. CASE reader.at = "idle"
  <2>1. Copied(dst.nFrameId) /\ dst.nFrameId <= src.nFrameId
    BY <1>3 DEF CopyState, StreamTypes
  <2>2. PICK d \in Nat : d = dst.nFrameId
    BY <1>1
  <2>3. Copied(d)'
    BY <1>2, <2>1, <2>2
  <2>4. Copied(dst.nFrameId)'
    BY <2>2, <2>3 DEF Copied, Right, Recorded, Stream!Frame, Sum
  <2> QED BY <1>1, <1>3, <2>1, <2>4 DEF CopyState
<1>4. CASE reader.at # "idle"
  <2>1. InSight' /\ reader.next <= reader.last /\ reader.last <= src.nFrameId
    BY <1>4 DEF StreamTypes
  <2>2. ASSUME reader.at \in {"frame", "copy"}
        PROVE  /\ Right(Stream!Frame(dst, reader.next - 1), Sum(reader.next - 1))'
               /\ Recorded(dst.data, Sum(reader.next - 1), Sum(reader.last) - nBufMax)'
    <3>1. PICK i \in Int, l \in Nat : i = reader.next - 1 /\ l = reader.last
      BY <1>1
    <3>2. Sum(i)' = Sum(i) /\ Sum(l)' = Sum(l)
      BY <1>1, <2>1, <3>1
    <3>3. /\ Right(Stream!Frame(dst, i), Sum(i))
          /\ Recorded(dst.data, Sum(i), Sum(l) - nBufMax)
      BY <2>2, <3>1 DEF CopyState
    <3>4. Sum(reader.next - 1)' = Sum(i) /\ Sum(reader.last)' = Sum(l)
      BY <3>1, <3>2 DEF Sum
    <3>5. Stream!Frame(dst, reader.next - 1)' = Stream!Frame(dst, i)
      BY <3>1 DEF Stream!Frame
    <3> QED BY <3>3, <3>4, <3>5
  <2>3. ASSUME reader.at = "copy"
        PROVE  /\ reader'.sf.head = Sum(reader.next - 1)' % Ring
               /\ reader'.sf.tail = Sum(reader.next)' % Ring
    <3>1. PICK i \in Int, j \in Int : i = reader.next - 1 /\ j = reader.next
      BY <1>1
    <3>2. Sum(i)' = Sum(i) /\ Sum(j)' = Sum(j)
      BY <1>1, <2>1, <3>1
    <3>3. reader.sf.head = Sum(i) % Ring /\ reader.sf.tail = Sum(j) % Ring
      BY <2>3, <3>1 DEF CopyState
    <3>4. Sum(reader.next - 1)' = Sum(i) /\ Sum(reader.next)' = Sum(j)
      BY <3>1, <3>2 DEF Sum
    <3> QED BY <3>3, <3>4
  <2>4. ASSUME reader.at = "store" PROVE Copied(reader.last)'
    <3>1. PICK d \in Nat : d = reader.last
      BY <1>1
    <3>2. Copied(d) /\ d <= src.nFrameId
      BY <2>1, <2>4, <3>1 DEF CopyState
    <3>3. Copied(d)'
      BY <1>2, <3>2
    <3> QED BY <3>1, <3>3 DEF Copied, Right, Recorded, Stream!Frame, Sum
  <2> QED BY <1>1, <1>4, <2>1, <2>2, <2>3, <2>4 DEF CopyState
<1> QED BY <1>3, <1>4

-----------------------------------------------------------------------------
(* The steps of the writer.                                                *)
LEMMA StreamBegins == ASSUME Stream!Init PROVE StreamInv
<1>0. /\ src = [nFrameId |-> 0, vFrames |-> [i \in 0..(nFrameCap - 1) |-> Stream!NoFrame],
                data |-> [i \in 0..(Ring - 1) |-> 0]]
      /\ dst = src /\ adding = FALSE /\ reader = Stream!NotReading
      /\ written = <<>> /\ past = {}
  BY DEF Stream!Init, Ring
<1>1. Stream!NoFrame \in FrameRecord
  BY StreamSizes DEF Stream!NoFrame, FrameRecord
<1>2. src \in StreamRecord
  <2>1. /\ 0 \in 0..MaxFrames
        /\ [i \in 0..(nFrameCap - 1) |-> Stream!NoFrame] \in [0..(nFrameCap - 1) -> FrameRecord]
        /\ [i \in 0..(Ring - 1) |-> 0] \in [0..(Ring - 1) -> Int]
    BY StreamSizes, <1>1
  <2> QED BY <1>0, <2>1 DEF StreamRecord
<1>3. StreamTypes
  <2>1. reader \in [at : {"idle", "full", "frame", "copy all", "copy", "store"},
                    last : 0..MaxFrames, next : 0..MaxFrames, sf : FrameRecord]
    BY StreamSizes, <1>0, <1>1 DEF Stream!NotReading
  <2>2. /\ dst = src /\ dst.nFrameId <= src.nFrameId /\ adding = FALSE /\ past = {}
        /\ reader.at = "idle"
    BY <1>0 DEF Stream!NotReading
  <2> QED BY <1>2, <2>1, <2>2 DEF StreamTypes
<1>4. \A i \in Int : i <= 0 => Sum(i) = 0
  BY DEF Sum
<1>5. StreamSums
  <2>1. src.nFrameId = 0 /\ written \in Seq(Nat) /\ Len(written) = 0
    BY <1>0
  <2> QED BY <1>4, <2>1 DEF StreamSums
<1>6. \A i \in Int : Stream!Frame(src, i) = Stream!NoFrame /\ Stream!Frame(dst, i) = Stream!NoFrame
  BY <1>0, FrameIndex DEF Stream!Frame
<1>7. 0 % Ring = 0 /\ Lesser(0, nBufMax) = 0
  BY StreamSizes, SmallResidue DEF Lesser
<1>8. StreamNow
  <2>1. src.nFrameId = 0 /\ Sum(0) = 0 /\ ~adding
    BY <1>0, <1>4
  <2> QED BY <1>6, <1>7, <2>1 DEF StreamNow, Stream!NoFrame, Recorded
<1>9. StreamFrames
  <2>1. src.nFrameId = 0 /\ \A id \in 0..0 : id = 0 /\ id - 1 <= 0 /\ id - 1 \in Int
    BY <1>0
  <2> QED BY <1>4, <1>6, <1>7, <2>1 DEF StreamFrames, Stream!NoFrame
<1>10. CopyState
  <2>1. dst.nFrameId = 0 /\ src.nFrameId = 0 /\ reader.at = "idle"
    BY <1>0 DEF Stream!NotReading
  <2>2. Sum(0 - 1) = 0 /\ Sum(0) = 0
    BY <1>4
  <2>3. Copied(0)
    BY <1>6, <1>7, <2>2 DEF Copied, Right, Recorded, Stream!NoFrame
  <2> QED BY <2>1, <2>3 DEF CopyState
<1> QED BY <1>3, <1>5, <1>8, <1>9, <1>10 DEF StreamInv

(* add_frame() silences the samples behind the history.                    *)
LEMMA AddFrameStep ==
  ASSUME StreamInv, NEW size \in 1..(MaxFrameSize + 1), Stream!AddFrame(size)
  PROVE  StreamInv'
<1>n. PICK n \in Nat, w \in Nat : n = src.nFrameId /\ w = Sum(n)
  <2>1. src.nFrameId \in Nat /\ Sum(src.nFrameId) \in Nat
    BY StreamNumbers, SumsAre DEF StreamInv
  <2> QED BY <2>1
<1>2. PICK count \in Nat :
        count = Lesser(size, MaxFrameSize) /\ count \in 1..MaxFrameSize /\ count <= size
  BY StreamSizes DEF Lesser
<1> DEFINE k == (n + 1) % nFrameCap
           new == [id |-> n + 1, head |-> w % Ring, tail |-> (w + count) % Ring,
                   size |-> count, length |-> count]
           silence == [i \in 1..count |-> 0]
           data2 == Stream!Put(src.data, w % Ring, silence)
<1>1. /\ n \in Nat /\ n < MaxFrames /\ w \in Nat
      /\ \A i \in Int : i <= n => Sum(i) \in Nat
      /\ \A i \in Nat : Stream!Total(i) = Sum(i)
  BY <1>n, SumsAre DEF StreamInv, Stream!AddFrame
<1>3. ~adding /\ adding' = TRUE /\ UNCHANGED <<dst, reader, written, past>>
      /\ Stream!InTime(size)
  BY DEF Stream!AddFrame
<1>4. Stream!Frame(src, n).tail = w % Ring
  BY <1>n DEF StreamInv, StreamNow
<1>5. ((w % Ring) + count) % Ring = (w + count) % Ring
  <2>1. Ring \in Nat \ {0} /\ w \in Int /\ count \in Int
    BY StreamSizes
  <2> QED BY <2>1, ModSum
<1>6. src' = [src EXCEPT !.vFrames[k] = new, !.data = data2]
  <2>1. Stream!Min({size, MaxFrameSize}) = count
    BY <1>2, StreamSizes, StreamMin
  <2> QED BY <1>n, <1>4, <1>5, <2>1 DEF Stream!AddFrame, Ring
<1>7. new \in FrameRecord /\ k \in 0..(nFrameCap - 1)
  <2>1. /\ n + 1 \in 0..MaxFrames /\ w % Ring \in 0..(Ring - 1)
        /\ (w + count) % Ring \in 0..(Ring - 1)
        /\ count \in 0..MaxFrameSize /\ count \in 0..Longest
    BY StreamSizes, <1>1, <1>2, InRing
  <2>2. k \in 0..(nFrameCap - 1)
    BY <1>1, FrameIndex
  <2> HIDE DEF k
  <2> QED BY <2>1, <2>2 DEF FrameRecord
<1>8. silence \in Seq(Int) /\ Len(silence) = count /\ \A i \in 1..count : silence[i] = 0
  BY <1>2
<1>9. src \in StreamRecord /\ src.data \in [0..(Ring - 1) -> Int]
  BY DEF StreamInv, StreamTypes, StreamRecord
<1> HIDE DEF silence
<1>10. /\ data2 \in [0..(Ring - 1) -> Int]
       /\ \A i \in 1..count : data2[SampleAt(w + i)] = 0
       /\ \A s \in (w + count - Ring + 1)..w : data2[SampleAt(s)] = src.data[SampleAt(s)]
  <2>1. Len(silence) <= Ring /\ w \in Int
    BY StreamSizes, <1>1, <1>2, <1>8
  <2>2. /\ data2 \in [0..(Ring - 1) -> Int]
        /\ \A i \in 1..Len(silence) : data2[SampleAt(w + i)] = silence[i]
        /\ \A s \in (w + Len(silence) - Ring + 1)..w :
             data2[SampleAt(s)] = src.data[SampleAt(s)]
    BY <1>8, <1>9, <2>1, PutBehind
  <2> HIDE DEF data2
  <2> QED BY <1>8, <2>2
<1> HIDE DEF data2, new, k
<1>11. /\ src' \in StreamRecord /\ src'.nFrameId = n /\ src'.data = data2
       /\ src'.vFrames[k] = new
       /\ \A i \in 0..(nFrameCap - 1) : i # k => src'.vFrames[i] = src.vFrames[i]
  <2>1. k \in 0..(nFrameCap - 1) /\ new \in FrameRecord
    BY <1>7
  <2> DEFINE t == [src EXCEPT !.vFrames[k] = new, !.data = data2]
  <2>2. /\ t \in StreamRecord /\ t.nFrameId = src.nFrameId
        /\ t.vFrames[k] = new /\ t.data = data2
        /\ \A i \in 0..(nFrameCap - 1) : i # k => t.vFrames[i] = src.vFrames[i]
    BY <1>9, <1>10, <2>1 DEF StreamRecord
  <2>3. src' = t
    BY <1>6
  <2> HIDE DEF t
  <2> QED BY <1>n, <2>2, <2>3
<1>12. Sum(n)' = w /\ \A i \in Int : Sum(i)' = Sum(i)
  BY <1>3, <1>n DEF Sum
<1>13. Fresh' = new /\ Pending' = count /\ NewFrame' = 1 /\ NewFrame = 0 /\ Pending = 0
  BY <1>3, <1>11 DEF Fresh, Pending, NewFrame, Stream!Frame, k, new
<1>14. \A id \in Int : id < n + 1 /\ id > n + 1 - nFrameCap =>
         Stream!Frame(src, id)' = Stream!Frame(src, id)
  <2> SUFFICES ASSUME NEW id \in Int, id < n + 1, id > n + 1 - nFrameCap
               PROVE  Stream!Frame(src, id)' = Stream!Frame(src, id)
    OBVIOUS
  <2>1. id % nFrameCap # k /\ id % nFrameCap \in 0..(nFrameCap - 1)
    <3>1. /\ n + 1 \in Int /\ id # n + 1 /\ id - (n + 1) < nFrameCap
          /\ (n + 1) - id < nFrameCap
      BY StreamSizes
    <3> QED BY <3>1, OtherFrame DEF k
  <2> QED BY <1>11, <2>1 DEF Stream!Frame
<1>15. StreamTypes'
  BY <1>1, <1>3, <1>11, <1>n DEF StreamInv, StreamTypes
<1>16. StreamSums'
  BY <1>3, <1>11, <1>12, <1>n DEF StreamInv, StreamSums
<1>17. StreamNow'
  <2>1. Stream!Frame(src, n)' = Stream!Frame(src, n)
    BY StreamSizes, <1>1, <1>14
  <2>2. /\ Stream!Frame(src, n).length = Lesser(w, nBufMax)
        /\ Stream!Frame(src, n).id = n \/ w = 0
        /\ Recorded(src.data, w, w + 0 - Ring)
    BY <1>13, <1>n DEF StreamInv, StreamNow
  <2>3. Recorded(data2, w, w + count - Ring)
    <3> SUFFICES ASSUME NEW s \in 1..w, s > w + count - Ring PROVE data2[SampleAt(s)] = s
      BY DEF Recorded
    <3>1. s \in (w + count - Ring + 1)..w /\ s > w + 0 - Ring
      BY StreamSizes, <1>1, <1>2
    <3> QED BY <1>10, <2>2, <3>1 DEF Recorded
  <2>4. /\ new.id = n + 1 /\ new.length = new.size /\ new.head = w % Ring /\ new.size = count
        /\ new.tail = (w + new.size) % Ring
    BY DEF new
  <2>5. Sum(src.nFrameId)' = w /\ Stream!Frame(src, src.nFrameId)' = Stream!Frame(src, n)
    BY <1>11, <1>12, <2>1 DEF Sum, Stream!Frame
  <2> QED BY <1>4, <1>10, <1>11, <1>13, <2>2, <2>3, <2>4, <2>5 DEF StreamNow
<1>18. StreamFrames'
  <2> SUFFICES ASSUME NEW id \in 0..n, id > n + 1 - nFrameCap
               PROVE  /\ Stream!Frame(src, id)'.head = Sum(id - 1)' % Ring
                      /\ Stream!Frame(src, id)'.tail = Sum(id)' % Ring
    BY <1>11, <1>13 DEF StreamFrames
  <2>1. /\ id \in Int /\ id - 1 \in Int /\ id < n + 1 /\ id \in 0..src.nFrameId
        /\ id > src.nFrameId + NewFrame - nFrameCap
    BY StreamSizes, <1>1, <1>13, <1>n
  <2>2. /\ Stream!Frame(src, id).head = Sum(id - 1) % Ring
        /\ Stream!Frame(src, id).tail = Sum(id) % Ring
    BY <2>1 DEF StreamInv, StreamFrames
  <2> QED BY <1>12, <1>14, <2>1, <2>2
<1>19. CopyState'
  <2>1. ASSUME reader.at # "idle", past = {} PROVE InSight'
    <3>1. InSight /\ reader.last \in Nat /\ reader.last <= n
      BY <1>n, StreamNumbers, <2>1 DEF StreamInv, CopyState
    <3>2. /\ Sum(n) + size <= Sum(reader.last) + nBufMax
          /\ n + 1 < reader.last + nFrameCap - nFrames
      BY <1>1, <1>3, <2>1, <3>1, <1>n DEF Stream!InTime
    <3>3. Sum(reader.last) \in Nat
      BY <1>1, <3>1, <1>n
    <3>4. w + count + nBufMax <= Sum(reader.last) + Ring
      BY StreamSizes, <1>1, <1>2, <3>2, <3>3, <1>n
    <3>5. Sum(src.nFrameId)' = w /\ Sum(reader.last)' = Sum(reader.last)
      BY <1>3, <1>11, <1>12 DEF Sum
    <3> QED BY <1>3, <1>11, <1>13, <3>1, <3>2, <3>4, <3>5, <1>n DEF InSight
  <2> QED BY <1>1, <1>3, <1>11, <1>12, <2>1, CopyKept, <1>n DEF StreamInv
<1> QED BY <1>15, <1>16, <1>17, <1>18, <1>19 DEF StreamInv

(* write_frame() fills what add_frame() silenced. *)
LEMMA WriteFrameStep ==
  ASSUME StreamInv, Stream!WriteFrame
  PROVE  StreamInv'
<1>n. PICK n \in Nat, w \in Nat : n = src.nFrameId /\ w = Sum(n)
  <2>1. src.nFrameId \in Nat /\ Sum(src.nFrameId) \in Nat
    BY StreamNumbers, SumsAre DEF StreamInv
  <2> QED BY <2>1
<1>1. adding /\ UNCHANGED <<dst, adding, reader, written, past>>
  BY DEF Stream!WriteFrame
<1>2. src \in StreamRecord /\ src.data \in [0..(Ring - 1) -> Int] /\ Fresh \in FrameRecord
  <2>1. src \in StreamRecord
    BY DEF StreamInv, StreamTypes
  <2>2. src.vFrames \in [0..(nFrameCap - 1) -> FrameRecord]
    BY <2>1 DEF StreamRecord
  <2>3. (n + 1) % nFrameCap \in 0..(nFrameCap - 1)
    BY FrameIndex
  <2> QED BY <1>n, <2>1, <2>2, <2>3 DEF StreamRecord, Fresh, Stream!Frame
<1>3. PICK size \in Nat : size = Fresh.size /\ size <= MaxFrameSize
  BY <1>2, StreamSizes DEF FrameRecord
<1> DEFINE samples == [i \in 1..size |-> w + i]
           data2 == Stream!Put(src.data, w % Ring, samples)
<1>4. samples \in Seq(Int) /\ Len(samples) = size /\ \A i \in 1..size : samples[i] = w + i
  OBVIOUS
<1>5. src' = [src EXCEPT !.data = data2]
  <2>1. /\ Fresh = Stream!Frame(src, src.nFrameId + 1) /\ Fresh.head = w % Ring
        /\ Stream!Total(src.nFrameId) = w
    BY <1>n, <1>1, SumsAre DEF StreamInv, StreamNow, Fresh
  <2> QED BY <1>3, <2>1 DEF Stream!WriteFrame
<1> HIDE DEF samples
<1>6. /\ data2 \in [0..(Ring - 1) -> Int]
      /\ \A i \in 1..size : data2[SampleAt(w + i)] = w + i
      /\ \A s \in (w + size - Ring + 1)..w : data2[SampleAt(s)] = src.data[SampleAt(s)]
  <2>1. Len(samples) <= Ring /\ w \in Int
    BY StreamSizes, <1>3, <1>4
  <2>2. /\ data2 \in [0..(Ring - 1) -> Int]
        /\ \A i \in 1..Len(samples) : data2[SampleAt(w + i)] = samples[i]
        /\ \A s \in (w + Len(samples) - Ring + 1)..w :
             data2[SampleAt(s)] = src.data[SampleAt(s)]
    BY <1>2, <1>4, <2>1, PutBehind
  <2> HIDE DEF data2
  <2> QED BY <1>4, <2>2
<1> HIDE DEF data2
<1>7. /\ src' \in StreamRecord /\ src'.nFrameId = n /\ src'.vFrames = src.vFrames
      /\ src'.data = data2
  BY <1>n, <1>2, <1>5, <1>6 DEF StreamRecord
<1>8. /\ \A i \in Int : Sum(i)' = Sum(i)
      /\ \A i \in Int : Stream!Frame(src, i)' = Stream!Frame(src, i)
      /\ Fresh' = Fresh /\ Pending' = Pending /\ NewFrame' = NewFrame
      /\ Sum(src.nFrameId)' = w
      /\ Stream!Frame(src, src.nFrameId)' = Stream!Frame(src, src.nFrameId)
  BY <1>n, <1>1, <1>7 DEF Sum, Stream!Frame, Fresh, Pending, NewFrame
<1>9. StreamTypes'
  BY <1>n, <1>1, <1>7 DEF StreamInv, StreamTypes
<1>10. StreamSums'
  BY <1>n, <1>1, <1>7, <1>8 DEF StreamInv, StreamSums
<1>11. StreamNow'
  <2>1. Recorded(data2, w, w + size - Ring)
    <3> SUFFICES ASSUME NEW s \in 1..w, s > w + size - Ring PROVE data2[SampleAt(s)] = s
      BY DEF Recorded
    <3>1. Recorded(src.data, w, w + size - Ring)
      BY <1>n, <1>1, <1>3 DEF StreamInv, StreamNow, Pending
    <3>2. s \in (w + size - Ring + 1)..w
      BY StreamSizes
    <3> QED BY <1>6, <3>1, <3>2 DEF Recorded
  <2>2. Pending' = size /\ adding'
    BY <1>1, <1>3, <1>8 DEF Pending
  <2>3. \A i \in 1..Fresh'.size : src'.data[SampleAt(w + i)] = w + i
    BY <1>3, <1>6, <1>7, <1>8
  <2>4. /\ Fresh.id = n + 1 /\ Fresh.length = Fresh.size
        /\ Fresh.head = w % Ring /\ Fresh.tail = (w + Fresh.size) % Ring
        /\ Stream!Frame(src, src.nFrameId).tail = w % Ring
        /\ Stream!Frame(src, src.nFrameId).length = Lesser(w, nBufMax)
        /\ (Stream!Frame(src, src.nFrameId).id = n \/ w = 0)
    BY <1>n, <1>1 DEF StreamInv, StreamNow
  <2> QED BY <1>7, <1>8, <2>1, <2>2, <2>3, <2>4 DEF StreamNow
<1>12. StreamFrames'
  <2> SUFFICES ASSUME NEW id \in 0..n, id > n + NewFrame - nFrameCap
               PROVE  /\ Stream!Frame(src, id)'.head = Sum(id - 1)' % Ring
                      /\ Stream!Frame(src, id)'.tail = Sum(id)' % Ring
    BY <1>7, <1>8 DEF StreamFrames
  <2>1. /\ Stream!Frame(src, id).head = Sum(id - 1) % Ring
        /\ Stream!Frame(src, id).tail = Sum(id) % Ring
    BY <1>n DEF StreamInv, StreamFrames
  <2> QED BY <1>8, <2>1
<1>13. CopyState'
  <2>1. ASSUME reader.at # "idle", past = {} PROVE InSight'
    <3>1. InSight
      BY <2>1 DEF StreamInv, CopyState
    <3>2. Sum(reader.last)' = Sum(reader.last)
      BY <1>1 DEF Sum
    <3> QED BY <1>n, <1>1, <1>7, <1>8, <3>1, <3>2 DEF InSight
  <2> QED BY <1>n, <1>1, <1>7, <1>8, <2>1, CopyKept DEF StreamInv
<1> QED BY <1>9, <1>10, <1>11, <1>12, <1>13 DEF StreamInv

(* commit_frame() makes the samples that were written part of the history. *)
LEMMA CommitFrameStep ==
  ASSUME StreamInv, Stream!CommitFrame
  PROVE  StreamInv'
<1>n. PICK n \in Nat, w \in Nat : n = src.nFrameId /\ w = Sum(n) /\ n < MaxFrames
  <2>1. src.nFrameId \in Nat /\ Sum(src.nFrameId) \in Nat
    BY StreamNumbers, SumsAre DEF StreamInv
  <2>2. src.nFrameId < MaxFrames
    BY DEF StreamInv, StreamTypes, Stream!CommitFrame
  <2> QED BY <2>1, <2>2
<1>1. adding /\ adding' = FALSE /\ UNCHANGED <<dst, reader, past>>
  BY DEF Stream!CommitFrame
<1>2. src \in StreamRecord /\ src.data \in [0..(Ring - 1) -> Int] /\ Fresh \in FrameRecord
  <2>1. src \in StreamRecord
    BY DEF StreamInv, StreamTypes
  <2>2. src.vFrames \in [0..(nFrameCap - 1) -> FrameRecord]
    BY <2>1 DEF StreamRecord
  <2>3. (n + 1) % nFrameCap \in 0..(nFrameCap - 1)
    BY FrameIndex
  <2> QED BY <1>n, <2>1, <2>2, <2>3 DEF StreamRecord, Fresh, Stream!Frame
<1>3. PICK size \in Nat : size = Fresh.size /\ size <= MaxFrameSize
  BY <1>2, StreamSizes DEF FrameRecord
<1>4. /\ Fresh.id = n + 1 /\ Fresh.length = size
      /\ Fresh.head = w % Ring /\ Fresh.tail = (w + size) % Ring
      /\ Stream!Frame(src, n).tail = w % Ring
      /\ Stream!Frame(src, n).length = Lesser(w, nBufMax)
      /\ Recorded(src.data, w, w + size - Ring)
      /\ \/ \A k \in 1..size : src.data[SampleAt(w + k)] = 0
         \/ \A k \in 1..size : src.data[SampleAt(w + k)] = w + k
  BY <1>n, <1>1, <1>3 DEF StreamInv, StreamNow, Pending
<1>5. \A k \in 1..size : src.data[SampleAt(w + k)] = w + k
  <2>1. CASE size = 0
    BY <2>1
  <2>2. CASE size # 0
    <3>1. src.data[Fresh.head] # 0
      BY <1>3, <2>2 DEF Stream!CommitFrame, Fresh
    <3>2. 1 \in 1..size /\ SampleAt(w + 1) = w % Ring
      BY <2>2 DEF SampleAt
    <3> QED BY <1>4, <3>1, <3>2
  <2> QED BY <2>1, <2>2
<1> DEFINE k == (n + 1) % nFrameCap
           new == [Fresh EXCEPT !.length = Lesser(w + size, nBufMax)]
<1>6. Stream!Min({Stream!Frame(src, n).length + Fresh.length, nBufMax}) = Lesser(w + size, nBufMax)
  <2>1. Lesser(w, nBufMax) \in Int /\ nBufMax \in Nat
    BY StreamSizes DEF Lesser
  <2>2. PICK l \in Int : l = Lesser(w, nBufMax)
    BY <2>1
  <2>3. Stream!Min({l + size, nBufMax}) = Lesser(l + size, nBufMax)
    BY <2>1, StreamMin
  <2>4. Lesser(l + size, nBufMax) = Lesser(w + size, nBufMax)
    BY <2>1, <2>2 DEF Lesser
  <2> QED BY <1>4, <2>2, <2>3, <2>4
<1>7. new \in FrameRecord /\ k \in 0..(nFrameCap - 1)
      /\ new.head = Fresh.head /\ new.tail = Fresh.tail /\ new.id = n + 1
      /\ new.length = Lesser(w + size, nBufMax)
  <2>1. Lesser(w + size, nBufMax) \in 0..Longest
    BY StreamSizes DEF Lesser
  <2>2. k \in 0..(nFrameCap - 1)
    BY FrameIndex
  <2> HIDE DEF k
  <2> QED BY <1>2, <1>4, <2>1, <2>2 DEF FrameRecord
<1>8. written' = Append(written, w + size) /\ written \in Seq(Nat) /\ Len(written) = n
  BY <1>n, <1>3, SumsAre DEF StreamInv, StreamSums, Stream!CommitFrame, Fresh
<1>9. src' = [src EXCEPT !.vFrames[k].length = Lesser(w + size, nBufMax), !.nFrameId = n + 1]
  BY <1>n, <1>6 DEF Stream!CommitFrame, Fresh
<1>10. src.vFrames[k] = Fresh
  BY <1>n DEF Fresh, Stream!Frame
<1> HIDE DEF k
<1>11. /\ src' \in StreamRecord /\ src'.nFrameId = n + 1 /\ src'.data = src.data
       /\ src'.vFrames[k] = new
       /\ \A i \in 0..(nFrameCap - 1) : i # k => src'.vFrames[i] = src.vFrames[i]
  <2>1. src' = [src EXCEPT !.vFrames[k] = new, !.nFrameId = n + 1]
    BY <1>2, <1>7, <1>9, <1>10 DEF StreamRecord
  <2>2. n + 1 \in 0..MaxFrames /\ new \in FrameRecord /\ k \in 0..(nFrameCap - 1)
    BY <1>n, <1>7, StreamSizes
  <2> HIDE DEF new
  <2> QED BY <1>2, <2>1, <2>2 DEF StreamRecord
<1> HIDE DEF new
<1>12. /\ \A i \in Int : i <= n => Sum(i)' = Sum(i)
       /\ Sum(n + 1)' = w + size
  <2>1. /\ \A i \in 1..n : written'[i] = written[i]
        /\ written'[n + 1] = w + size
    BY <1>8, AppendProperties
  <2> QED BY <2>1 DEF Sum
<1>13. Pending' = 0 /\ NewFrame' = 0 /\ Pending = size /\ NewFrame = 1
  BY <1>1, <1>3 DEF Pending, NewFrame
<1>14. /\ Stream!Frame(src, n + 1)' = new
       /\ \A id \in Int : id < n + 1 /\ id > n + 1 - nFrameCap =>
            Stream!Frame(src, id)' = Stream!Frame(src, id)
  <2>1. Stream!Frame(src, n + 1)' = new
    BY <1>11 DEF Stream!Frame, k
  <2>2. ASSUME NEW id \in Int, id < n + 1, id > n + 1 - nFrameCap
        PROVE  Stream!Frame(src, id)' = Stream!Frame(src, id)
    <3>1. /\ n + 1 \in Int /\ id # n + 1 /\ id - (n + 1) < nFrameCap
          /\ (n + 1) - id < nFrameCap
      BY <2>2, StreamSizes
    <3>2. id % nFrameCap # k /\ id % nFrameCap \in 0..(nFrameCap - 1)
      BY <3>1, OtherFrame DEF k
    <3> QED BY <1>11, <3>2 DEF Stream!Frame
  <2> QED BY <2>1, <2>2
<1>15. StreamTypes'
  <2>1. dst'.nFrameId <= n + 1 /\ (reader.at # "idle" => reader'.last <= n + 1)
    <3>1. dst.nFrameId \in Nat /\ reader.last \in Nat
      BY StreamNumbers DEF StreamInv
    <3>2. dst.nFrameId <= n /\ (reader.at # "idle" => reader.last <= n)
      BY <1>n DEF StreamInv, StreamTypes
    <3> QED BY <1>1, <3>1, <3>2
  <2> QED BY <1>n, <1>1, <1>11, <2>1 DEF StreamInv, StreamTypes
<1>16. StreamSums'
  <2>1. written' \in Seq(Nat) /\ Len(written') = n + 1
    BY <1>8, AppendProperties
  <2>2. ASSUME NEW i \in 0..(n + 1), NEW j \in 0..(n + 1), i <= j
        PROVE  Sum(i)' <= Sum(j)'
    <3>1. CASE j <= n
      <4>1. i \in 0..n /\ j \in 0..n
        BY <2>2, <3>1
      <4> QED BY <1>n, <1>12, <2>2, <4>1 DEF StreamInv, StreamSums
    <3>2. CASE j = n + 1 /\ i <= n
      <4>1. i \in 0..n /\ n \in 0..n /\ i <= n
        BY <3>2
      <4>2. Sum(i) <= w /\ Sum(i) \in Nat
        BY <1>n, <4>1, SumsAre DEF StreamInv, StreamSums
      <4> QED BY <1>12, <3>2, <4>1, <4>2
    <3>3. CASE i = n + 1 /\ j = n + 1
      BY <1>12, <3>3
    <3> QED BY <2>2, <3>1, <3>2, <3>3
  <2>3. ASSUME NEW i \in 1..(n + 1) PROVE Sum(i)' <= Sum(i - 1)' + MaxFrameSize
    <3>1. CASE i <= n
      <4>1. i \in 1..n /\ i - 1 \in Int /\ i - 1 <= n
        BY <3>1
      <4>2. Sum(i) <= Sum(i - 1) + MaxFrameSize
        BY <1>n, <4>1 DEF StreamInv, StreamSums
      <4> QED BY <1>12, <4>1, <4>2
    <3>2. CASE i = n + 1
      <4>1. i - 1 = n /\ n \in Int /\ n <= n
        BY <3>2
      <4>2. Sum(i)' = w + size /\ Sum(i - 1)' = w
        BY <1>n, <1>12, <3>2, <4>1
      <4> QED BY <1>3, <4>2, StreamSizes
    <3> QED BY <3>1, <3>2
  <2> QED BY <1>11, <2>1, <2>2, <2>3 DEF StreamSums
<1>17. Sum(src.nFrameId)' = w + size /\ Stream!Frame(src, src.nFrameId)' = new
  BY <1>11, <1>12, <1>14 DEF Sum, Stream!Frame
<1>18. StreamNow'
  <2>1. Recorded(src.data, w + size, w + size + 0 - Ring)
    <3> SUFFICES ASSUME NEW s \in 1..(w + size), s > w + size + 0 - Ring
                 PROVE  src.data[SampleAt(s)] = s
      BY DEF Recorded
    <3>1. CASE s <= w
      <4>1. s \in 1..w /\ s > w + size - Ring
        BY <3>1, StreamSizes
      <4> QED BY <1>4, <4>1 DEF Recorded
    <3>2. CASE s > w
      <4>1. PICK i \in 1..size : s = w + i
        <5>1. s - w \in 1..size /\ s = w + (s - w)
          BY <3>2
        <5> QED BY <5>1
      <4> QED BY <1>5, <4>1
    <3> QED BY <3>1, <3>2
  <2> QED BY <1>1, <1>4, <1>7, <1>11, <1>13, <1>17, <2>1 DEF StreamNow
<1>19. StreamFrames'
  <2> SUFFICES ASSUME NEW id \in 0..(n + 1), id > n + 1 + 0 - nFrameCap
               PROVE  /\ Stream!Frame(src, id)'.head = Sum(id - 1)' % Ring
                      /\ Stream!Frame(src, id)'.tail = Sum(id)' % Ring
    BY <1>11, <1>13 DEF StreamFrames
  <2>1. CASE id <= n
    <3>1. /\ id \in 0..n /\ id \in Int /\ id < n + 1 /\ id > n + 1 - nFrameCap
          /\ id - 1 \in Int /\ id - 1 <= n
      BY <2>1, StreamSizes
    <3>2. /\ Stream!Frame(src, id).head = Sum(id - 1) % Ring
          /\ Stream!Frame(src, id).tail = Sum(id) % Ring
      BY <1>n, <1>13, <3>1 DEF StreamInv, StreamFrames
    <3> QED BY <1>12, <1>14, <2>1, <3>1, <3>2
  <2>2. CASE id = n + 1
    <3>1. id - 1 = n /\ n \in Int /\ n <= n
      BY <2>2
    <3>2. Sum(id - 1)' = w /\ Sum(id)' = w + size /\ Stream!Frame(src, id)' = new
      BY <1>n, <1>12, <1>14, <2>2, <3>1
    <3> QED BY <1>4, <1>7, <3>2
  <2> QED BY <2>1, <2>2
<1>20. CopyState'
  <2>1. ASSUME reader.at # "idle", past = {} PROVE InSight'
    <3>1. InSight /\ reader.last \in Nat /\ reader.last <= n
      BY <1>n, <2>1, StreamNumbers DEF StreamInv, CopyState
    <3>2. Sum(reader.last)' = Sum(reader.last)
      <4>1. PICK l \in Nat : l = reader.last
        BY <3>1
      <4>2. Sum(l)' = Sum(l)
        BY <1>n, <1>12, <3>1, <4>1
      <4> QED BY <1>1, <4>1, <4>2 DEF Sum
    <3>3. w + size + 0 = Sum(src.nFrameId) + Pending
      BY <1>n, <1>13
    <3>4. (n + 1) + 0 = src.nFrameId + NewFrame
      BY <1>n, <1>13
    <3> QED BY <1>1, <1>11, <1>13, <1>17, <3>1, <3>2, <3>3, <3>4 DEF InSight
  <2>2. n <= n + 1 /\ n + 1 \in Nat
    OBVIOUS
  <2> QED BY <1>n, <1>1, <1>11, <1>12, <2>1, <2>2, CopyKept DEF StreamInv
<1> QED BY <1>15, <1>16, <1>18, <1>19, <1>20 DEF StreamInv

(* clear() starts a history anew. *)
LEMMA ClearStreamStep ==
  ASSUME StreamInv, Stream!Clear
  PROVE  StreamInv'
<1>n. PICK n \in Nat : n = src.nFrameId /\ n < MaxFrames
  <2>1. src.nFrameId \in Nat /\ src.nFrameId < MaxFrames
    BY StreamNumbers DEF StreamInv, Stream!Clear
  <2> QED BY <2>1
<1>1. ~adding /\ UNCHANGED <<dst, adding, reader>> /\ past' = past \cup {"cleared"}
  BY DEF Stream!Clear
<1>2. src \in StreamRecord /\ Stream!NoFrame \in FrameRecord
  <2>1. 0 \in 0..MaxFrames /\ 0 \in 0..(Ring - 1) /\ 0 \in 0..MaxFrameSize /\ 0 \in 0..Longest
    BY StreamSizes
  <2> QED BY <2>1 DEF StreamInv, StreamTypes, Stream!NoFrame, FrameRecord
<1>3. /\ src' \in StreamRecord /\ src'.nFrameId = n + 1
      /\ src'.vFrames = [i \in 0..(nFrameCap - 1) |-> Stream!NoFrame]
  <2>1. DOMAIN src.vFrames = 0..(nFrameCap - 1)
    BY <1>2 DEF StreamRecord
  <2>2. src' = [src EXCEPT !.vFrames = [i \in 0..(nFrameCap - 1) |-> Stream!NoFrame],
                           !.nFrameId = n + 1]
    BY <1>n, <2>1 DEF Stream!Clear
  <2>3. n + 1 \in 0..MaxFrames
    BY <1>n, StreamSizes
  <2>4. [i \in 0..(nFrameCap - 1) |-> Stream!NoFrame] \in [0..(nFrameCap - 1) -> FrameRecord]
    BY <1>2
  <2> QED BY <1>2, <2>2, <2>3, <2>4 DEF StreamRecord
<1>4. written' = [i \in 1..(n + 1) |-> 0]
  BY <1>3 DEF Stream!Clear
<1>5. \A i \in Int : i <= n + 1 => Sum(i)' = 0
  BY <1>4 DEF Sum
<1>6. \A i \in Int : Stream!Frame(src, i)' = Stream!NoFrame
  BY <1>3, FrameIndex DEF Stream!Frame
<1>7. 0 % Ring = 0 /\ Lesser(0, nBufMax) = 0
  BY StreamSizes, SmallResidue DEF Lesser
<1>8. StreamTypes'
  <2>1. dst'.nFrameId <= n + 1 /\ (reader.at # "idle" => reader'.last <= n + 1)
    <3>1. dst.nFrameId \in Nat /\ reader.last \in Nat
      BY StreamNumbers DEF StreamInv
    <3>2. dst.nFrameId <= n /\ (reader.at # "idle" => reader.last <= n)
      BY <1>n DEF StreamInv, StreamTypes
    <3> QED BY <1>1, <3>1, <3>2
  <2> QED BY <1>n, <1>1, <1>3, <2>1 DEF StreamInv, StreamTypes
<1>9. StreamSums'
  <2>1. written' \in Seq(Nat) /\ Len(written') = n + 1
    BY <1>4
  <2>2. ASSUME NEW i \in 0..(n + 1), NEW j \in 0..(n + 1) PROVE Sum(i)' <= Sum(j)'
    BY <1>5
  <2>3. ASSUME NEW i \in 1..(n + 1) PROVE Sum(i)' <= Sum(i - 1)' + MaxFrameSize
    <3>1. i \in Int /\ i <= n + 1 /\ i - 1 \in Int /\ i - 1 <= n + 1
      OBVIOUS
    <3> QED BY <1>5, <3>1, StreamSizes
  <2> QED BY <1>3, <2>1, <2>2, <2>3 DEF StreamSums
<1>10. StreamNow'
  <2>1. Sum(src.nFrameId)' = 0 /\ Stream!Frame(src, src.nFrameId)' = Stream!NoFrame
    <3>1. written'[n + 1] = 0
      BY <1>4
    <3>2. Stream!Frame(src, n + 1)' = Stream!NoFrame
      BY <1>6
    <3> QED BY <1>3, <3>1, <3>2 DEF Sum, Stream!Frame
  <2>2. ~adding' /\ \A s \in 1..0 : FALSE
    BY <1>1
  <2>3. \A d, gone : Recorded(d, 0, gone)
    BY <2>2 DEF Recorded
  <2> QED BY <1>7, <2>1, <2>2, <2>3 DEF StreamNow, Stream!NoFrame
<1>11. StreamFrames'
  <2> SUFFICES ASSUME NEW id \in 0..(n + 1)
               PROVE  /\ Stream!Frame(src, id)'.head = Sum(id - 1)' % Ring
                      /\ Stream!Frame(src, id)'.tail = Sum(id)' % Ring
    BY <1>3 DEF StreamFrames
  <2>1. id \in Int /\ id <= n + 1 /\ id - 1 \in Int /\ id - 1 <= n + 1
    OBVIOUS
  <2> QED BY <1>5, <1>6, <1>7, <2>1 DEF Stream!NoFrame
<1>12. CopyState'
  BY <1>1 DEF CopyState
<1> QED BY <1>8, <1>9, <1>10, <1>11, <1>12 DEF StreamInv

-----------------------------------------------------------------------------
(* The steps of sync(), which leave the source alone.                      *)
LEMMA SourceKept ==
  ASSUME StreamSums, StreamNow, StreamFrames, UNCHANGED <<src, adding, written>>
  PROVE  StreamSums' /\ StreamNow' /\ StreamFrames'
<1>1. /\ \A i : Sum(i)' = Sum(i) /\ Stream!Frame(src, i)' = Stream!Frame(src, i)
      /\ Fresh' = Fresh /\ Pending' = Pending /\ NewFrame' = NewFrame
      /\ Sum(src.nFrameId)' = Sum(src.nFrameId)
      /\ Stream!Frame(src, src.nFrameId)' = Stream!Frame(src, src.nFrameId)
  BY DEF Sum, Stream!Frame, Fresh, Pending, NewFrame
<1>2. StreamSums'
  BY <1>1 DEF StreamSums
<1>3. StreamNow'
  BY <1>1 DEF StreamNow
<1>4. StreamFrames'
  BY <1>1 DEF StreamFrames
<1> QED BY <1>2, <1>3, <1>4

LEMMA StreamSyncStep ==
  ASSUME StreamInv, Stream!SyncStart
  PROVE  StreamInv'
<1>n. PICK n \in Nat, d \in Nat, w \in Nat :
        /\ n = src.nFrameId /\ d = dst.nFrameId /\ w = Sum(n)
        /\ n \in 0..MaxFrames /\ d \in 0..MaxFrames /\ d <= n
  <2>1. Sum(src.nFrameId) \in Nat
    BY StreamNumbers, SumsAre DEF StreamInv
  <2> QED BY <2>1, StreamNumbers DEF StreamInv, StreamTypes
<1> DEFINE full == n - d > nFrames
<1>1. /\ reader.at = "idle" /\ UNCHANGED <<src, dst, adding, written>>
      /\ reader' = [at |-> IF full THEN "full" ELSE "frame",
                    last |-> n, next |-> d, sf |-> Stream!NoFrame]
      /\ past' = past \cup (IF full THEN {"full"} ELSE {})
  BY <1>n DEF Stream!SyncStart
<1>2. Stream!NoFrame \in FrameRecord
  <2>1. 0 \in 0..MaxFrames /\ 0 \in 0..(Ring - 1) /\ 0 \in 0..MaxFrameSize /\ 0 \in 0..Longest
    BY StreamSizes
  <2> QED BY <2>1 DEF Stream!NoFrame, FrameRecord
<1>3. StreamTypes'
  <2>1. reader' \in [at : {"idle", "full", "frame", "copy all", "copy", "store"},
                     last : 0..MaxFrames, next : 0..MaxFrames, sf : FrameRecord]
    BY <1>n, <1>1, <1>2
  <2>2. past' \subseteq {"full", "cleared"} /\ (reader'.at \in {"full", "copy all"} => "full" \in past')
    BY <1>1 DEF StreamInv, StreamTypes
  <2>3. /\ reader'.next <= reader'.last /\ reader'.last <= src'.nFrameId
        /\ dst'.nFrameId <= src'.nFrameId
    BY <1>n, <1>1
  <2>4. src' \in StreamRecord /\ dst' \in StreamRecord /\ adding' \in BOOLEAN
        /\ (adding' => src'.nFrameId < MaxFrames)
    BY <1>1 DEF StreamInv, StreamTypes
  <2> QED BY <2>1, <2>2, <2>3, <2>4 DEF StreamTypes
<1>4. StreamSums' /\ StreamNow' /\ StreamFrames'
  BY <1>1, SourceKept DEF StreamInv
<1>5. CopyState'
  <2> SUFFICES ASSUME past' = {} PROVE CopyState'
    BY DEF CopyState
  <2>1. past = {} /\ ~full /\ reader'.at = "frame" /\ reader'.last = n /\ reader'.next = d
    BY <1>1
  <2>2. d <= n /\ Copied(d) /\ n <= d + nFrames
    BY <1>n, <1>1, <2>1, StreamSizes DEF StreamInv, CopyState
  <2>3. /\ Sum(d - 1) \in Nat /\ Sum(d) \in Nat /\ Sum(d - 1) <= Sum(d) /\ Sum(d) <= w
    <3>1. d \in 0..n /\ n \in 0..n /\ d - 1 \in Int /\ d - 1 <= n /\ d \in Int
      BY <2>2
    <3> QED BY <1>n, <2>2, <3>1, SumsAre DEF StreamInv, StreamSums
  <2>4. InSight'
    <3>1. Pending \in Nat /\ Pending <= MaxFrameSize /\ NewFrame \in Nat /\ NewFrame <= 1
      <4>1. Fresh \in FrameRecord
        <5>1. (n + 1) % nFrameCap \in 0..(nFrameCap - 1)
          BY FrameIndex
        <5> QED BY <1>n, <5>1 DEF StreamInv, StreamTypes, StreamRecord, Fresh, Stream!Frame
      <4> QED BY <4>1, StreamSizes DEF FrameRecord, Pending, NewFrame
    <3>2. Pending' = Pending /\ NewFrame' = NewFrame /\ Sum(src.nFrameId)' = w /\ Sum(reader.last)' = w
      BY <1>n, <1>1, <2>1 DEF Pending, NewFrame, Fresh, Stream!Frame, Sum
    <3>3. n + NewFrame < n + nFrameCap - nFrames /\ w + Pending + nBufMax <= w + Ring
      BY <3>1, StreamSizes
    <3> QED BY <1>n, <1>1, <2>1, <2>2, <3>2, <3>3 DEF InSight
  <2>5. Right(Stream!Frame(dst, reader.next - 1), Sum(reader.next - 1))'
    <3>1. /\ Stream!Frame(dst, reader.next - 1)' = Stream!Frame(dst, d - 1)
          /\ Sum(reader.next - 1)' = Sum(d - 1)
      BY <1>1, <2>1 DEF Stream!Frame, Sum
    <3> QED BY <2>2, <3>1 DEF Copied
  <2>6. Recorded(dst.data, Sum(reader.next - 1), Sum(reader.last) - nBufMax)'
    <3>1. Sum(reader.next - 1)' = Sum(d - 1) /\ Sum(reader.last)' = w
      BY <1>n, <1>1, <2>1 DEF Sum
    <3>2. Recorded(dst.data, Sum(d), Sum(d) - nBufMax)
      BY <2>2 DEF Copied
    <3>3. Recorded(dst.data, Sum(d - 1), w - nBufMax)
      <4> SUFFICES ASSUME NEW s \in 1..Sum(d - 1), s > w - nBufMax
                   PROVE  dst.data[SampleAt(s)] = s
        BY DEF Recorded
      <4>1. s \in 1..Sum(d) /\ s > Sum(d) - nBufMax
        BY <2>3, StreamSizes
      <4> QED BY <3>2, <4>1 DEF Recorded
    <3> QED BY <1>1, <3>1, <3>3
  <2> QED BY <1>n, <1>1, <2>1, <2>2, <2>4, <2>5, <2>6 DEF CopyState
<1> QED BY <1>3, <1>4, <1>5 DEF StreamInv

LEMMA TakeFrameStep ==
  ASSUME StreamInv, Stream!TakeFrame
  PROVE  StreamInv'
<1>n. PICK next \in Nat, last \in Nat :
        next = reader.next /\ last = reader.last
  BY StreamNumbers DEF StreamInv
<1>1. /\ UNCHANGED <<src, dst, adding, written, past>>
      /\ reader.at = "full" =>
           reader' = [reader EXCEPT !.at = "copy all", !.sf = Stream!Frame(src, last)]
      /\ reader.at = "frame" =>
           reader' = [reader EXCEPT !.at = "copy", !.sf = Stream!Frame(src, next)]
      /\ reader.at \in {"full", "frame"}
  BY <1>n DEF Stream!TakeFrame
<1>2. Stream!Frame(src, next) \in FrameRecord /\ Stream!Frame(src, last) \in FrameRecord
  <2>1. next % nFrameCap \in 0..(nFrameCap - 1) /\ last % nFrameCap \in 0..(nFrameCap - 1)
    BY FrameIndex
  <2> QED BY <2>1 DEF StreamInv, StreamTypes, StreamRecord, Stream!Frame
<1>3. /\ reader' \in [at : {"idle", "full", "frame", "copy all", "copy", "store"},
                      last : 0..MaxFrames, next : 0..MaxFrames, sf : FrameRecord]
      /\ reader'.last = last /\ reader'.next = next
      /\ reader.at = "full" => reader'.at = "copy all"
      /\ reader.at = "frame" => reader'.at = "copy" /\ reader'.sf = Stream!Frame(src, next)
  BY <1>n, <1>1, <1>2 DEF StreamInv, StreamTypes
<1>4. StreamTypes'
  BY <1>n, <1>1, <1>3 DEF StreamInv, StreamTypes
<1>5. StreamSums' /\ StreamNow' /\ StreamFrames'
  BY <1>1, SourceKept DEF StreamInv
<1>6. CopyState'
  <2> SUFFICES ASSUME past = {} PROVE CopyState'
    BY <1>1 DEF CopyState
  <2>1. reader.at = "frame" /\ reader'.at = "copy"
    BY <1>1, <1>3 DEF StreamInv, StreamTypes
  <2>2. /\ InSight
        /\ Right(Stream!Frame(dst, next - 1), Sum(next - 1))
        /\ Recorded(dst.data, Sum(next - 1), Sum(last) - nBufMax)
    BY <1>n, <2>1 DEF StreamInv, CopyState
  <2>3. /\ Stream!Frame(src, next).head = Sum(next - 1) % Ring
        /\ Stream!Frame(src, next).tail = Sum(next) % Ring
    <3>1. NewFrame \in Nat
      BY DEF NewFrame
    <3>2. next \in 0..src.nFrameId /\ next > src.nFrameId + NewFrame - nFrameCap
      BY <1>n, <1>1, <2>2, <3>1, StreamSizes, StreamNumbers DEF InSight, StreamInv
    <3> QED BY <3>2 DEF StreamInv, StreamFrames
  <2>4. /\ InSight'
        /\ Right(Stream!Frame(dst, reader.next - 1), Sum(reader.next - 1))'
        /\ Recorded(dst.data, Sum(reader.next - 1), Sum(reader.last) - nBufMax)'
        /\ Sum(reader.next - 1)' = Sum(next - 1) /\ Sum(reader.next)' = Sum(next)
    <3>1. /\ Sum(src.nFrameId)' = Sum(src.nFrameId) /\ Sum(reader.last)' = Sum(last)
          /\ Sum(reader.next - 1)' = Sum(next - 1) /\ Sum(reader.next)' = Sum(next)
          /\ Stream!Frame(dst, reader.next - 1)' = Stream!Frame(dst, next - 1)
          /\ Pending' = Pending /\ NewFrame' = NewFrame
      BY <1>1, <1>3 DEF Sum, Stream!Frame, Pending, NewFrame, Fresh
    <3> QED BY <1>n, <1>1, <1>3, <2>2, <3>1 DEF InSight
  <2> QED BY <1>1, <1>3, <2>1, <2>2, <2>3, <2>4 DEF CopyState
<1> QED BY <1>4, <1>5, <1>6 DEF StreamInv

(* A full copy keeps the types, though not always the samples. *)
LEMMA CopyAllStep ==
  ASSUME StreamInv, Stream!CopyAll
  PROVE  StreamInv'
<1>1. /\ reader.at = "copy all" /\ reader' = [reader EXCEPT !.at = "store"]
      /\ UNCHANGED <<src, adding, written, past>>
  BY DEF Stream!CopyAll
<1>2. /\ src \in StreamRecord /\ dst \in StreamRecord /\ reader.sf \in FrameRecord
      /\ src.data \in [0..(Ring - 1) -> Int] /\ dst.data \in [0..(Ring - 1) -> Int]
      /\ dst.vFrames \in [0..(nFrameCap - 1) -> FrameRecord]
  <2>1. src \in StreamRecord /\ dst \in StreamRecord /\ reader.sf \in FrameRecord
    BY DEF StreamInv, StreamTypes
  <2> QED BY <2>1 DEF StreamRecord
<1>3. PICK last \in 0..MaxFrames : last = reader.last
  BY StreamNumbers DEF StreamInv
<1>4. PICK t \in 0..(Ring - 1), h \in 0..(Ring - 1), l \in 0..Longest :
        t = reader.sf.tail /\ h = reader.sf.head /\ l = reader.sf.length
  BY <1>2 DEF FrameRecord
<1>5. PICK length \in Int : /\ length = Stream!Min({l, nBufMax})
                            /\ length \in 0..nBufMax
  <2>1. Stream!Min({l, nBufMax}) = Lesser(l, nBufMax)
    BY StreamSizes, StreamMin
  <2>2. Lesser(l, nBufMax) \in 0..nBufMax
    BY StreamSizes DEF Lesser
  <2> QED BY <2>1, <2>2
<1> DEFINE head == t - length
           samples == IF head < 0
                      THEN Stream!Taken(src.data, head + nBufMax, -head)
                           \o Stream!Taken(src.data, 0, t)
                      ELSE Stream!Taken(src.data, head, length)
           span == t - h
<1>6. PICK size \in Int :
        /\ size = Stream!Min({IF span < 0 THEN span + nBufMax ELSE span, length, MaxFrameSize})
        /\ size <= length /\ length - size <= Ring - 1
  <2>1. PICK w \in Int : /\ w = IF span < 0 THEN span + nBufMax ELSE span
                         /\ length - w <= Ring - 1
    BY <1>5, StreamSizes
  <2>2. PICK m : m = Stream!Min({w, length, MaxFrameSize})
    OBVIOUS
  <2>3. m \in {w, length, MaxFrameSize} /\ m <= length
    <3>1. MaxFrameSize \in Int
      BY StreamSizes
    <3> QED BY <2>2, <3>1, StreamMinOfThree
  <2> QED BY <1>5, <2>1, <2>2, <2>3, StreamSizes
<1>7. samples \in Seq(Int) /\ Len(samples) = length
  <2>1. CASE head < 0
    <3>1. 0 - head \in Nat /\ head + nBufMax \in Int /\ -head = 0 - head /\ 0 \in Int /\ t \in Nat
      BY <1>5, <2>1, StreamSizes
    <3> DEFINE first == Stream!Taken(src.data, head + nBufMax, -head)
               second == Stream!Taken(src.data, 0, t)
    <3>2. first \in Seq(Int) /\ Len(first) = 0 - head
      BY <1>2, <3>1, TakenAre
    <3>3. second \in Seq(Int) /\ Len(second) = t
      BY <1>2, <3>1, TakenAre
    <3> HIDE DEF first, second
    <3>4. first \o second \in Seq(Int) /\ Len(first \o second) = Len(first) + Len(second)
      BY <3>2, <3>3, ConcatProperties
    <3>5. samples = first \o second
      BY <2>1 DEF first, second
    <3> HIDE DEF samples
    <3> QED BY <1>5, <3>2, <3>3, <3>4, <3>5
  <2>2. CASE ~(head < 0)
    <3>1. head \in Int /\ length \in Nat
      BY <1>5
    <3>2. samples = Stream!Taken(src.data, head, length)
      BY <2>2
    <3> HIDE DEF samples, head
    <3> QED BY <1>2, <3>1, <3>2, TakenAre
  <2> QED BY <2>1, <2>2
<1> DEFINE k == last % nFrameCap
           new == [id |-> last, head |-> length - size, tail |-> length,
                   size |-> dst.vFrames[k].size, length |-> length]
           data2 == Stream!Put(dst.data, 0, samples)
<1>8. dst' = [dst EXCEPT !.data = data2, !.vFrames[k] = new]
  <2> HIDE DEF samples
  <2> QED BY <1>3, <1>4, <1>5, <1>6 DEF Stream!CopyAll, samples
<1> HIDE DEF samples
<1>9. data2 \in [0..(Ring - 1) -> Int]
  <2>1. 0 % Ring = 0 /\ Len(samples) <= Ring
    BY <1>5, <1>7, StreamSizes, SmallResidue
  <2>2. Stream!Put(dst.data, 0 % Ring, samples) \in [0..(Ring - 1) -> Int]
    BY <1>2, <1>7, <2>1, PutBehind
  <2> QED BY <2>1, <2>2
<1>10. k \in 0..(nFrameCap - 1) /\ new \in FrameRecord
  <2>1. k \in 0..(nFrameCap - 1)
    BY FrameIndex
  <2>2. dst.vFrames[k].size \in 0..MaxFrameSize
    <3> HIDE DEF k
    <3> QED BY <1>2, <2>1 DEF FrameRecord
  <2>3. length - size \in 0..(Ring - 1) /\ length \in 0..(Ring - 1) /\ length \in 0..Longest
    BY <1>5, <1>6, StreamSizes
  <2> HIDE DEF k
  <2> QED BY <2>1, <2>2, <2>3 DEF FrameRecord
<1> HIDE DEF k, new, data2
<1>11. dst' \in StreamRecord /\ dst'.nFrameId = dst.nFrameId
  BY <1>2, <1>8, <1>9, <1>10 DEF StreamRecord
<1>12. "full" \in past
  <2>1. reader.at \in {"full", "copy all"}
    BY <1>1
  <2> QED BY <2>1 DEF StreamInv, StreamTypes
<1>13. StreamTypes'
  <2>1. /\ reader' \in [at : {"idle", "full", "frame", "copy all", "copy", "store"},
                         last : 0..MaxFrames, next : 0..MaxFrames, sf : FrameRecord]
        /\ reader'.next = reader.next /\ reader'.last = reader.last /\ reader'.at = "store"
    BY <1>1 DEF StreamInv, StreamTypes
  <2>2. reader.next <= reader.last /\ reader.last <= src.nFrameId
    BY <1>1 DEF StreamInv, StreamTypes
  <2> QED BY <1>1, <1>11, <1>12, <2>1, <2>2 DEF StreamInv, StreamTypes
<1>14. StreamSums' /\ StreamNow' /\ StreamFrames'
  BY <1>1, SourceKept DEF StreamInv
<1>15. CopyState'
  BY <1>1, <1>12 DEF CopyState
<1> QED BY <1>13, <1>14, <1>15 DEF StreamInv

(* One frame is copied: its samples lie in the copy where they lie in the  *)
(* source, and the history before them stays.                              *)
LEMMA CopyFrameStep ==
  ASSUME StreamInv, Stream!CopyFrame
  PROVE  StreamInv'
<1>1. /\ reader.at = "copy" /\ UNCHANGED <<src, adding, written, past>>
  BY DEF Stream!CopyFrame
<1>2. /\ src \in StreamRecord /\ dst \in StreamRecord /\ reader.sf \in FrameRecord
      /\ src.data \in [0..(Ring - 1) -> Int] /\ dst.data \in [0..(Ring - 1) -> Int]
      /\ dst.vFrames \in [0..(nFrameCap - 1) -> FrameRecord]
  <2>1. src \in StreamRecord /\ dst \in StreamRecord /\ reader.sf \in FrameRecord
    BY DEF StreamInv, StreamTypes
  <2> QED BY <2>1 DEF StreamRecord
<1>3. PICK next \in 0..MaxFrames, last \in 0..MaxFrames :
        /\ next = reader.next /\ last = reader.last /\ next \in Nat /\ last \in Nat
        /\ next <= last /\ last <= src.nFrameId
  BY <1>1, StreamNumbers DEF StreamInv
<1>4. PICK pf \in FrameRecord : pf = Stream!Frame(dst, next - 1)
  <2>1. (next - 1) % nFrameCap \in 0..(nFrameCap - 1)
    <3>1. next - 1 \in Int
      BY <1>3
    <3> QED BY <3>1, FrameIndex
  <2> QED BY <1>2, <2>1 DEF Stream!Frame
<1>5. PICK t \in Nat, h \in Nat, p \in Nat, l \in Nat :
        /\ t = reader.sf.tail /\ h = reader.sf.head /\ p = pf.tail /\ l = pf.length
        /\ p \in 0..(Ring - 1)
  <2>1. /\ reader.sf.tail \in 0..(Ring - 1) /\ reader.sf.head \in 0..(Ring - 1)
        /\ pf.tail \in 0..(Ring - 1) /\ pf.length \in 0..Longest
    BY <1>2 DEF FrameRecord
  <2> QED BY <2>1, StreamSizes
<1>6. PICK size \in Nat : size = (t - h) % Ring /\ size <= Ring - 1
  <2>1. t - h \in Int
    OBVIOUS
  <2> QED BY <2>1, InRing, StreamSizes
<1>7. PICK tail \in Nat : tail = (p + size) % Ring /\ tail \in 0..(Ring - 1)
  BY InRing, StreamSizes
<1>8. PICK length \in Nat : /\ length = Stream!Min({size + l, nBufMax})
                            /\ length = Lesser(size + l, nBufMax) /\ length <= Longest
  <2>1. Stream!Min({size + l, nBufMax}) = Lesser(size + l, nBufMax)
    BY StreamSizes, StreamMin
  <2>2. Lesser(size + l, nBufMax) \in Nat /\ Lesser(size + l, nBufMax) <= Longest
    BY StreamSizes DEF Lesser
  <2> QED BY <2>1, <2>2
<1> DEFINE samples == Stream!Taken(src.data, h, size)
           k == next % nFrameCap
           new == [id |-> next, head |-> p, tail |-> tail,
                   size |-> dst.vFrames[k].size, length |-> length]
           data2 == Stream!Put(dst.data, p, samples)
<1>9. /\ dst' = [dst EXCEPT !.data = data2, !.vFrames[k] = new]
      /\ reader' = IF next = last THEN [reader EXCEPT !.at = "store"]
                   ELSE [reader EXCEPT !.at = "frame", !.next = next + 1]
  BY <1>3, <1>4, <1>5, <1>6, <1>7, <1>8 DEF Stream!CopyFrame, Ring
<1>10. /\ samples \in Seq(Int) /\ Len(samples) = size
       /\ \A i \in 1..size : samples[i] = src.data[(h + i - 1) % Ring]
  <2>1. h \in Int
    OBVIOUS
  <2> QED BY <1>2, <2>1, TakenAre
<1> HIDE DEF samples
<1>11. p % Ring = p
  BY <1>5, StreamSizes, SmallResidue
<1>12. data2 \in [0..(Ring - 1) -> Int]
  <2>1. Len(samples) <= Ring
    BY <1>6, <1>10, StreamSizes
  <2>2. Stream!Put(dst.data, p % Ring, samples) \in [0..(Ring - 1) -> Int]
    BY <1>2, <1>10, <2>1, PutBehind
  <2> QED BY <1>11, <2>2
<1>13. k \in 0..(nFrameCap - 1) /\ new \in FrameRecord
  <2>1. k \in 0..(nFrameCap - 1)
    <3>1. next \in Int
      BY <1>3
    <3> QED BY <3>1, FrameIndex
  <2>2. dst.vFrames[k].size \in 0..MaxFrameSize
    <3> HIDE DEF k
    <3> QED BY <1>2, <2>1 DEF FrameRecord
  <2>3. length \in 0..Longest
    BY <1>8, StreamSizes
  <2> HIDE DEF k
  <2> QED BY <1>5, <1>7, <2>1, <2>2, <2>3 DEF FrameRecord
<1> HIDE DEF k, new, data2
<1>14. /\ dst' \in StreamRecord /\ dst'.nFrameId = dst.nFrameId /\ dst'.data = data2
       /\ dst'.vFrames[k] = new
       /\ \A i \in 0..(nFrameCap - 1) : i # k => dst'.vFrames[i] = dst.vFrames[i]
  BY <1>2, <1>9, <1>12, <1>13 DEF StreamRecord
<1>15. /\ reader' \in [at : {"idle", "full", "frame", "copy all", "copy", "store"},
                       last : 0..MaxFrames, next : 0..MaxFrames, sf : FrameRecord]
       /\ reader'.last = last
       /\ next = last => reader'.at = "store" /\ reader'.next = next
       /\ next # last => reader'.at = "frame" /\ reader'.next = next + 1
  <2>1. next + 1 \in 0..MaxFrames \/ next = last
    BY <1>3, StreamSizes
  <2>2. /\ reader \in [at : {"idle", "full", "frame", "copy all", "copy", "store"},
                        last : 0..MaxFrames, next : 0..MaxFrames, sf : FrameRecord]
        /\ reader.next = next /\ reader.last = last
    BY <1>3 DEF StreamInv, StreamTypes
  <2>3. CASE next = last
    <3>1. reader' = [reader EXCEPT !.at = "store"]
      BY <1>9, <2>3
    <3> QED BY <2>2, <2>3, <3>1
  <2>4. CASE next # last
    <3>1. reader' = [reader EXCEPT !.at = "frame", !.next = next + 1]
      BY <1>9, <2>4
    <3> QED BY <2>1, <2>2, <2>4, <3>1
  <2> QED BY <2>3, <2>4
<1>16. StreamTypes'
  <2>1. /\ reader'.at \in {"store", "frame"} /\ reader'.next <= last
        /\ last <= src'.nFrameId
    <3>1. last <= src'.nFrameId
      BY <1>1, <1>3
    <3>2. CASE next = last
      BY <1>3, <1>15, <3>1, <3>2
    <3>3. CASE next # last
      <4>1. next + 1 <= last
        BY <1>3, <3>3
      <4> QED BY <1>15, <3>1, <3>3, <4>1
    <3> QED BY <3>2, <3>3
  <2> QED BY <1>1, <1>3, <1>14, <1>15, <2>1 DEF StreamInv, StreamTypes
<1>17. StreamSums' /\ StreamNow' /\ StreamFrames'
  BY <1>1, SourceKept DEF StreamInv
<1>18. CopyState'
  <2> SUFFICES ASSUME past = {} PROVE CopyState'
    BY <1>1 DEF CopyState
  <2>1. PICK a1 \in Nat, b1 \in Nat, c1 \in Nat :
          /\ a1 = Sum(next - 1) /\ b1 = Sum(next) /\ c1 = Sum(last)
          /\ a1 <= b1 /\ b1 <= a1 + MaxFrameSize /\ b1 <= c1
    <3>0. src.nFrameId \in Nat
      BY StreamNumbers DEF StreamInv
    <3>1. /\ next \in 0..src.nFrameId /\ last \in 0..src.nFrameId /\ next <= last
          /\ next - 1 \in Int /\ next - 1 <= src.nFrameId
          /\ next \in Int /\ next <= src.nFrameId /\ last \in Int /\ last <= src.nFrameId
      BY <1>3, <3>0
    <3>2. Sum(next - 1) \in Nat /\ Sum(next) \in Nat /\ Sum(last) \in Nat
      BY <3>1, SumsAre DEF StreamInv
    <3>3. Sum(next - 1) <= Sum(next) /\ Sum(next) <= Sum(next - 1) + MaxFrameSize
      BY <3>1, SumsAre DEF StreamInv
    <3>4. Sum(next) <= Sum(last)
      BY <3>1 DEF StreamInv, StreamSums
    <3> QED BY <3>2, <3>3, <3>4
  <2>2. /\ InSight
        /\ Right(pf, a1) /\ Recorded(dst.data, a1, c1 - nBufMax)
        /\ h = a1 % Ring /\ t = b1 % Ring
    BY <1>1, <1>3, <1>4, <1>5, <2>1 DEF StreamInv, CopyState
  <2>3. size = b1 - a1
    <3>1. b1 - a1 \in 0..(Ring - 1) /\ a1 \in Int /\ b1 \in Int
      BY <2>1, StreamSizes
    <3>2. ((b1 % Ring) - (a1 % Ring)) % Ring = (b1 - a1) % Ring
      BY <3>1, ModDifference, StreamSizes
    <3>3. (b1 - a1) % Ring = b1 - a1
      BY <3>1, SmallResidue, StreamSizes
    <3> QED BY <1>6, <2>2, <3>2, <3>3
  <2>4. p = a1 % Ring /\ l = Lesser(a1, nBufMax)
    BY <1>5, <2>2 DEF Right
  <2>5. tail = b1 % Ring
    <3>1. ((a1 % Ring) + size) % Ring = (a1 + size) % Ring
      <4>1. a1 \in Int /\ size \in Int
        OBVIOUS
      <4> QED BY <4>1, ModSum, StreamSizes
    <3>2. a1 + size = b1
      BY <2>1, <2>3
    <3> QED BY <1>7, <2>4, <3>1, <3>2
  <2>6. length = Lesser(b1, nBufMax)
    BY <1>8, <2>1, <2>3, <2>4, StreamSizes DEF Lesser
  <2>7. Right(new, b1) /\ new.id = next
    BY <2>5, <2>6 DEF Right, new
  <2>8. Recorded(data2, b1, c1 - nBufMax)
    <3>1. Len(samples) <= Ring /\ a1 \in Int
      <4>1. size <= Ring
        BY <1>6, StreamSizes
      <4> QED BY <1>10, <2>1, <4>1
    <3>2. /\ \A i \in 1..size : data2[SampleAt(a1 + i)] = samples[i]
          /\ \A s \in (a1 + size - Ring + 1)..a1 : data2[SampleAt(s)] = dst.data[SampleAt(s)]
      BY <1>2, <1>10, <2>4, <3>1, PutBehind DEF data2
    <3>3. \A i \in 1..size : samples[i] = src.data[SampleAt(a1 + i)]
      BY <1>2, <2>2, <3>1, TakenBehind DEF samples
    <3> SUFFICES ASSUME NEW s \in 1..b1, s > c1 - nBufMax
                 PROVE  data2[SampleAt(s)] = s
      BY DEF Recorded
    <3>4. CASE s <= a1
      <4>1. s \in (a1 + size - Ring + 1)..a1 /\ s \in 1..a1
        BY <2>1, <2>3, <3>4, StreamSizes
      <4> QED BY <2>2, <3>2, <4>1 DEF Recorded
    <3>5. CASE s > a1
      <4>1. PICK i \in 1..size : s = a1 + i
        <5>1. s - a1 \in 1..size /\ s = a1 + (s - a1)
          BY <2>1, <2>3, <3>5
        <5> QED BY <5>1
      <4>2. src.data[SampleAt(s)] = s
        <5>1. PICK w \in Nat : w = Sum(src.nFrameId) /\ c1 <= w
          <6>1. last \in 0..src.nFrameId /\ src.nFrameId \in 0..src.nFrameId
            BY <1>3, StreamNumbers DEF StreamInv
          <6>2. src.nFrameId \in Int /\ src.nFrameId <= src.nFrameId
            BY StreamNumbers DEF StreamInv
          <6>3. Sum(src.nFrameId) \in Nat
            BY <6>2, SumsAre DEF StreamInv
          <6>4. Sum(last) <= Sum(src.nFrameId)
            BY <1>3, <6>1 DEF StreamInv, StreamSums
          <6> QED BY <2>1, <6>3, <6>4
        <5>2. Pending \in Nat
          <6>1. (src.nFrameId + 1) % nFrameCap \in 0..(nFrameCap - 1)
            BY StreamNumbers, FrameIndex DEF StreamInv
          <6>2. Fresh \in FrameRecord
            BY <1>2, <6>1 DEF StreamRecord, Fresh, Stream!Frame
          <6> QED BY <6>2, StreamSizes DEF FrameRecord, Pending
        <5>3. w + Pending + nBufMax <= c1 + Ring
          BY <1>3, <2>1, <2>2, <5>1 DEF InSight
        <5>4. s \in 1..w /\ s > w + Pending - Ring
          BY <2>1, <5>1, <5>2, <5>3, StreamSizes
        <5>5. Recorded(src.data, w, w + Pending - Ring)
          BY <5>1 DEF StreamInv, StreamNow
        <5> QED BY <5>4, <5>5 DEF Recorded
      <4> QED BY <3>2, <3>3, <4>1, <4>2
    <3> QED BY <2>1, <3>4, <3>5
  <2>9. \A i : Sum(i)' = Sum(i)
    BY <1>1 DEF Sum
  <2>10. /\ Stream!Frame(dst, next)' = new
         /\ Stream!Frame(dst, next - 1)' = pf
    <3>1. Stream!Frame(dst, next)' = new
      BY <1>14 DEF Stream!Frame, k
    <3>2. /\ next - 1 \in Int /\ next \in Int /\ next - 1 # next
          /\ (next - 1) - next < nFrameCap /\ next - (next - 1) < nFrameCap
      BY <1>3, StreamSizes
    <3>3. (next - 1) % nFrameCap # k /\ (next - 1) % nFrameCap \in 0..(nFrameCap - 1)
      BY <3>2, OtherFrame DEF k
    <3> QED BY <1>4, <1>14, <3>1, <3>3 DEF Stream!Frame
  <2>11. InSight'
    <3>1. /\ Sum(src.nFrameId)' = Sum(src.nFrameId) /\ Sum(reader.last)' = Sum(last)
          /\ Pending' = Pending /\ NewFrame' = NewFrame
      BY <1>1, <1>15 DEF Sum, Pending, NewFrame, Fresh, Stream!Frame
    <3>2. last <= reader'.next + nFrames
      <4>1. last <= next + nFrames
        BY <1>3, <2>2 DEF InSight
      <4>2. reader'.next = next \/ reader'.next = next + 1
        BY <1>15
      <4> QED BY <1>3, <4>1, <4>2, StreamSizes
    <3> QED BY <1>1, <1>3, <1>15, <2>2, <3>1, <3>2 DEF InSight
  <2>12. CASE next = last
    <3>1. /\ Right(pf, Sum(last - 1)) /\ Right(new, Sum(last)) /\ new.id = last
          /\ Recorded(data2, Sum(last), Sum(last) - nBufMax)
      BY <2>1, <2>2, <2>7, <2>8, <2>12
    <3>2. Copied(last)'
      BY <1>14, <2>9, <2>10, <2>12, <3>1 DEF Copied
    <3>3. Copied(reader.last)'
      BY <1>15, <3>2 DEF Copied, Right, Recorded, Stream!Frame, Sum
    <3> QED BY <1>15, <2>11, <2>12, <3>3 DEF CopyState
  <2>13. CASE next # last
    <3>1. reader'.next - 1 = next
      <4>1. reader'.next = next + 1 /\ next \in Nat
        BY <1>3, <1>15, <2>13
      <4> QED BY <4>1
    <3>2. /\ Stream!Frame(dst, reader.next - 1)' = new
          /\ Sum(reader.next - 1)' = b1 /\ Sum(reader.last)' = c1
      BY <1>15, <2>1, <2>9, <2>10, <3>1 DEF Stream!Frame, Sum
    <3> QED BY <1>14, <1>15, <2>7, <2>8, <2>11, <2>13, <3>2 DEF CopyState
  <2> QED BY <2>12, <2>13
<1> QED BY <1>16, <1>17, <1>18 DEF StreamInv

(* The copy has what sync() set out to copy. *)
LEMMA StreamStoreStep ==
  ASSUME StreamInv, Stream!SyncStore
  PROVE  StreamInv'
<1>1. /\ reader.at = "store" /\ reader' = Stream!NotReading
      /\ UNCHANGED <<src, adding, written, past>>
  BY DEF Stream!SyncStore
<1>2. PICK last \in 0..MaxFrames : last = reader.last /\ last <= src.nFrameId /\ last \in Nat
  BY <1>1, StreamNumbers DEF StreamInv
<1>3. /\ dst' \in StreamRecord /\ dst'.nFrameId = last
      /\ dst'.vFrames = dst.vFrames /\ dst'.data = dst.data
  <2>1. dst' = [dst EXCEPT !.nFrameId = last] /\ dst \in StreamRecord
    BY <1>2 DEF Stream!SyncStore, StreamInv, StreamTypes
  <2> QED BY <2>1 DEF StreamRecord
<1>4. reader' \in [at : {"idle", "full", "frame", "copy all", "copy", "store"},
                    last : 0..MaxFrames, next : 0..MaxFrames, sf : FrameRecord]
      /\ reader'.at = "idle"
  <2>1. 0 \in 0..MaxFrames /\ 0 \in 0..(Ring - 1) /\ 0 \in 0..MaxFrameSize /\ 0 \in 0..Longest
    BY StreamSizes
  <2> QED BY <1>1, <2>1 DEF Stream!NotReading, Stream!NoFrame, FrameRecord
<1>5. StreamTypes'
  BY <1>1, <1>2, <1>3, <1>4 DEF StreamInv, StreamTypes
<1>6. StreamSums' /\ StreamNow' /\ StreamFrames'
  BY <1>1, SourceKept DEF StreamInv
<1>7. ASSUME past = {} PROVE Copied(dst.nFrameId)'
  <2>1. Copied(last)
    BY <1>1, <1>2, <1>7 DEF StreamInv, CopyState
  <2>2. Copied(last)'
    BY <1>1, <1>3, <2>1 DEF Copied, Right, Recorded, Stream!Frame, Sum
  <2> QED BY <1>3, <2>2 DEF Copied, Right, Recorded, Stream!Frame, Sum
<1>8. CopyState'
  BY <1>1, <1>4, <1>7 DEF CopyState
<1> QED BY <1>5, <1>6, <1>8 DEF StreamInv

(* Every step preserves the invariant. *)
LEMMA StreamStep ==
  ASSUME StreamInv, [Stream!Next]_(Stream!vars)
  PROVE  StreamInv'
<1>1. CASE UNCHANGED Stream!vars
  <2>1. UNCHANGED <<src, dst, adding, reader, written, past>>
    BY <1>1 DEF Stream!vars
  <2>2. StreamTypes'
    BY <2>1 DEF StreamInv, StreamTypes
  <2>3. StreamSums' /\ StreamNow' /\ StreamFrames'
    BY <2>1, SourceKept DEF StreamInv
  <2>4. CopyState'
    <3>1. reader.at # "idle" /\ past = {} => InSight'
      BY <2>1 DEF StreamInv, CopyState, InSight, Pending, NewFrame, Fresh, Stream!Frame, Sum
    <3>2. \A id \in Int : id <= src.nFrameId => Sum(id)' = Sum(id)
      BY <2>1 DEF Sum
    <3>3. src'.nFrameId \in Nat /\ src.nFrameId <= src'.nFrameId
      BY <2>1, StreamNumbers DEF StreamInv
    <3> QED BY <2>1, <3>1, <3>2, <3>3, CopyKept DEF StreamInv
  <2> QED BY <2>2, <2>3, <2>4 DEF StreamInv
<1>2. ASSUME NEW size \in 1..(MaxFrameSize + 1), Stream!AddFrame(size) PROVE StreamInv'
  BY <1>2, AddFrameStep
<1>3. CASE Stream!WriteFrame  BY <1>3, WriteFrameStep
<1>4. CASE Stream!CommitFrame  BY <1>4, CommitFrameStep
<1>5. CASE Stream!Clear  BY <1>5, ClearStreamStep
<1>6. CASE Stream!SyncStart  BY <1>6, StreamSyncStep
<1>7. CASE Stream!TakeFrame  BY <1>7, TakeFrameStep
<1>8. CASE Stream!CopyAll  BY <1>8, CopyAllStep
<1>9. CASE Stream!CopyFrame  BY <1>9, CopyFrameStep
<1>10. CASE Stream!SyncStore  BY <1>10, StreamStoreStep
<1> QED
  BY <1>1, <1>2, <1>3, <1>4, <1>5, <1>6, <1>7, <1>8, <1>9, <1>10
  DEF Stream!Next, Stream!Writer, Stream!Reader

(* read() of a ring that has the last samples gives them. *)
LEMMA ReadRight ==
  ASSUME NEW s, NEW d \in Nat, NEW w \in Nat, d = s.nFrameId, w = Sum(d),
         s.data \in [0..(Ring - 1) -> Int],
         Right(Stream!Frame(s, d), w), Stream!Frame(s, d).id = d \/ w = 0,
         Recorded(s.data, w, w - nBufMax)
  PROVE  Stream!ReadAll(s) = Stream!Latest(d)
<1>1. PICK l \in Nat : l = Lesser(w, nBufMax) /\ l <= w /\ l <= nBufMax
  BY StreamSizes DEF Lesser
<1>2. Stream!Latest(d) = [k \in 1..l |-> w - l + k]
  <2>1. Stream!Total(d) = w
    BY DEF Stream!Total, Sum
  <2>2. Stream!Min({w, nBufMax}) = l
    BY <1>1, StreamSizes, StreamMin
  <2> QED BY <2>1, <2>2 DEF Stream!Latest
<1>3. PICK tail \in Int : tail = w % Ring
  BY InRing
<1>4. /\ Stream!Frame(s, d).tail = tail /\ Stream!Frame(s, d).length = l
  BY <1>1, <1>3 DEF Right
<1>5. CASE Stream!Frame(s, d).id = d
  <2>1. Stream!ReadAll(s) = Stream!Taken(s.data, tail - l, l)
    BY <1>4, <1>5 DEF Stream!ReadAll
  <2>2. ASSUME NEW k \in 1..l PROVE s.data[(tail - l + k - 1) % Ring] = w - l + k
    <3>1. PICK i \in Int : tail - l + k - 1 = tail + i /\ w + i = (w - l + k) - 1
      <4>1. k - 1 - l \in Int /\ tail - l + k - 1 = tail + (k - 1 - l)
            /\ w + (k - 1 - l) = (w - l + k) - 1
        OBVIOUS
      <4> QED BY <4>1
    <3>2. (tail + i) % Ring = (w + i) % Ring
      <4>1. w \in Int
        OBVIOUS
      <4> QED BY <1>3, <4>1, ModSum, StreamSizes
    <3>3. w - l + k \in 1..w /\ w - l + k > w - nBufMax
      BY <1>1, StreamSizes
    <3>4. s.data[SampleAt(w - l + k)] = w - l + k
      BY <3>3 DEF Recorded
    <3> QED BY <3>1, <3>2, <3>4 DEF SampleAt
  <2>3. Stream!Taken(s.data, tail - l, l) = [k \in 1..l |-> s.data[(tail - l + k - 1) % Ring]]
    BY DEF Stream!Taken, Ring
  <2> QED BY <1>2, <2>1, <2>2, <2>3
<1>6. CASE Stream!Frame(s, d).id # d
  <2>1. Stream!ReadAll(s) = <<>>
    BY <1>6 DEF Stream!ReadAll
  <2>2. l = 0
    BY <1>1, <1>6
  <2> DEFINE none2 == [k \in 1..0 |-> w - 0 + k]
  <2>3. none2 \in Seq(Int) /\ Len(none2) = 0
    OBVIOUS
  <2> HIDE DEF none2
  <2>4. none2 = <<>>
    BY <2>3, EmptySeq
  <2> QED BY <1>2, <2>1, <2>2, <2>4 DEF none2
<1> QED BY <1>5, <1>6

LEMMA StreamHolds ==
  ASSUME StreamInv
  PROVE  Stream!TypeOK /\ Stream!SourceReads /\ Stream!CopyReads
<1>1. Stream!TypeOK
  <2>1. Stream!Max({nBufMax, MaxFrameSize}) = Longest
    BY StreamSizes, StreamMax DEF Longest
  <2>2. ASSUME NEW s \in StreamRecord
        PROVE  /\ s.nFrameId \in 0..MaxFrames
               /\ DOMAIN s.vFrames = 0..(nFrameCap - 1) /\ DOMAIN s.data = 0..(Ring - 1)
               /\ \A i \in DOMAIN s.vFrames :
                    LET f == s.vFrames[i]
                    IN /\ f.id \in 0..MaxFrames /\ {f.head, f.tail} \subseteq 0..(Ring - 1)
                       /\ f.size \in 0..MaxFrameSize /\ f.length \in 0..Longest
    <3>1. /\ s.nFrameId \in 0..MaxFrames /\ s.vFrames \in [0..(nFrameCap - 1) -> FrameRecord]
          /\ s.data \in [0..(Ring - 1) -> Int]
      BY <2>2 DEF StreamRecord
    <3>2. \A i \in 0..(nFrameCap - 1) : s.vFrames[i] \in FrameRecord
      BY <3>1
    <3>3. ASSUME NEW f \in FrameRecord
          PROVE  /\ f.id \in 0..MaxFrames /\ {f.head, f.tail} \subseteq 0..(Ring - 1)
                 /\ f.size \in 0..MaxFrameSize /\ f.length \in 0..Longest
      BY DEF FrameRecord
    <3> QED BY <3>1, <3>2, <3>3
  <2>3. src \in StreamRecord /\ dst \in StreamRecord
    BY DEF StreamInv, StreamTypes
  <2>4. /\ adding \in BOOLEAN /\ past \subseteq {"full", "cleared"}
        /\ reader.at \in {"idle", "full", "frame", "copy all", "copy", "store"}
        /\ Len(written) = src.nFrameId
    BY DEF StreamInv, StreamTypes, StreamSums
  <2> QED BY <2>1, <2>2, <2>3, <2>4 DEF Stream!TypeOK, Ring
<1>2. /\ src.nFrameId \in Nat /\ Sum(src.nFrameId) \in Nat
      /\ dst.nFrameId \in Nat /\ Sum(dst.nFrameId) \in Nat
  <2>1. src.nFrameId \in Int /\ dst.nFrameId \in Int /\ dst.nFrameId <= src.nFrameId
        /\ src.nFrameId <= src.nFrameId
    <3>1. dst.nFrameId <= src.nFrameId
      BY DEF StreamInv, StreamTypes
    <3>2. src.nFrameId \in Nat /\ dst.nFrameId \in Nat
      BY StreamNumbers DEF StreamInv
    <3> QED BY <3>1, <3>2
  <2>2. Sum(src.nFrameId) \in Nat /\ Sum(dst.nFrameId) \in Nat
    BY <2>1, SumsAre DEF StreamInv
  <2> QED BY <2>2, StreamNumbers DEF StreamInv
<1>3. src.data \in [0..(Ring - 1) -> Int] /\ dst.data \in [0..(Ring - 1) -> Int]
  BY DEF StreamInv, StreamTypes, StreamRecord
<1>4. Stream!SourceReads
  <2>1. PICK n \in Nat, w \in Nat : n = src.nFrameId /\ w = Sum(n)
    BY <1>2
  <2>2. /\ Right(Stream!Frame(src, n), w) /\ (Stream!Frame(src, n).id = n \/ w = 0)
        /\ Recorded(src.data, w, w + Pending - Ring)
    BY <2>1 DEF StreamInv, StreamNow, Right
  <2>3. Pending \in Nat /\ Pending <= MaxFrameSize
    <3>1. (n + 1) % nFrameCap \in 0..(nFrameCap - 1)
      BY FrameIndex
    <3>2. Fresh \in FrameRecord
      BY <2>1, <3>1 DEF StreamInv, StreamTypes, StreamRecord, Fresh, Stream!Frame
    <3> QED BY <3>2, StreamSizes DEF FrameRecord, Pending
  <2>4. Recorded(src.data, w, w - nBufMax)
    <3> SUFFICES ASSUME NEW s \in 1..w, s > w - nBufMax PROVE src.data[SampleAt(s)] = s
      BY DEF Recorded
    <3>1. s > w + Pending - Ring
      BY <2>3, StreamSizes
    <3> QED BY <2>2, <3>1 DEF Recorded
  <2> QED BY <1>3, <2>1, <2>2, <2>4, ReadRight DEF Stream!SourceReads
<1>5. Stream!CopyReads
  <2> SUFFICES ASSUME reader.at = "idle", past = {}
               PROVE  Stream!ReadAll(dst) = Stream!Latest(dst.nFrameId)
    BY DEF Stream!CopyReads
  <2>1. PICK d \in Nat, w \in Nat : d = dst.nFrameId /\ w = Sum(d)
    BY <1>2
  <2>2. /\ Right(Stream!Frame(dst, d), w) /\ Stream!Frame(dst, d).id = d
        /\ Recorded(dst.data, w, w - nBufMax)
    BY <2>1 DEF StreamInv, CopyState, Copied
  <2> QED BY <1>3, <2>1, <2>2, ReadRight
<1> QED BY <1>1, <1>4, <1>5

(* What holds of the port that the behaviour is about. *)
Ports == {"osc", "stream", "frames", "string", "path", "player", "events"}

PortsInv ==
  /\ port \in Ports
  /\ OscInv
  /\ port = "stream" => StreamInv
  /\ port = "frames" => RowsInv
  /\ port = "string" => TextInv
  /\ port = "path" => PathInv
  /\ port \in {"player", "events"} => PlayerInv
  /\ port = "events" /\ fails = 0 => Asked /\ FileKept

LEMMA PortsBegin == ASSUME PortsInit PROVE PortsInv
<1> USE PortsAssumption DEF PortsAssumption
<1>o. OscInv
  BY OscInit DEF PortsInit, StreamInit
<1>p. port \in Ports
  BY DEF PortsInit, StreamInit, Ports
<1>s. ASSUME port = "stream" PROVE StreamInv
  BY <1>s, StreamBegins DEF PortsInit, StreamInit
<1>1. ASSUME port = "frames" PROVE RowsInv
  BY <1>1, RowsInit DEF PortsInit, StreamInit
<1>2. ASSUME port = "string" PROVE TextInv
  BY <1>2, TextInit DEF PortsInit, StreamInit
<1>3. ASSUME port = "path" PROVE PathInv
  BY <1>3, PathsInit DEF PortsInit, StreamInit
<1>4. ASSUME port \in {"player", "events"} PROVE PlayerInv
  BY <1>4, PlayersInit DEF PortsInit, StreamInit
<1>5. ASSUME port = "events" PROVE Asked /\ FileKept
  BY <1>5, EventsInit DEF PortsInit, StreamInit
<1> QED BY <1>p, <1>o, <1>s, <1>1, <1>2, <1>3, <1>4, <1>5 DEF PortsInv

(* A step is one of the port that the behaviour is about.                  *)
LEMMA OfOnePort ==
  ASSUME [PortsNext]_<<vars, others>>
  PROVE  /\ port' = port /\ [Alternating]_vars
         /\ port = "stream" => [Stream!Next]_(Stream!vars)
         /\ port = "frames" => [Frames!Next]_(Frames!vars)
         /\ port = "string" => [String!Next]_(String!vars)
         /\ port = "path" => [Paths!Next]_(Paths!vars)
         /\ port \in {"player", "events"} => [Player!Next]_(Player!vars)
         /\ port = "events" => (Player!Next /\ ui' = "idle") \/ UNCHANGED Player!vars
<1>1. CASE UNCHANGED <<vars, others>>
  BY <1>1 DEF others, buffers, streamOnly, frameOnly, textOnly, pathOnly,
      playerOnly, Stream!vars, Frames!vars, String!vars, Paths!vars, Player!vars, Player!requestVars,
      Player!nameVars, Player!playVars, Player!gcVars
<1>2. CASE PortsNext
  BY <1>2 DEF PortsNext, StreamNext, pathOthers, playerOthers
<1> QED BY <1>1, <1>2

LEMMA PortsStep == ASSUME PortsInv, [PortsNext]_<<vars, others>> PROVE PortsInv'
<1> USE PortsAssumption DEF PortsAssumption
<1>o. OscInv'
  BY OfOnePort, OscStep DEF PortsInv
<1>p. port' \in Ports
  BY OfOnePort DEF PortsInv
<1>s. ASSUME port' = "stream" PROVE StreamInv'
  BY <1>s, OfOnePort, StreamStep DEF PortsInv
<1>1. ASSUME port' = "frames" PROVE RowsInv'
  BY <1>1, OfOnePort, RowsStep DEF PortsInv
<1>2. ASSUME port' = "string" PROVE TextInv'
  BY <1>2, OfOnePort, TextStep DEF PortsInv
<1>3. ASSUME port' = "path" PROVE PathInv'
  BY <1>3, OfOnePort, PathsStep DEF PortsInv
<1>4. ASSUME port' \in {"player", "events"} PROVE PlayerInv'
  BY <1>4, OfOnePort, PlayersNext DEF PortsInv
<1>5. ASSUME port' = "events", fails' = 0 PROVE Asked' /\ FileKept'
  <2>1. /\ port = "events" /\ PlayerInv /\ [Player!Next]_(Player!vars)
        /\ (Player!Next /\ ui' = "idle") \/ UNCHANGED Player!vars
    BY <1>5, OfOnePort DEF PortsInv
  <2>2. fails = 0 /\ Asked /\ FileKept
    BY <1>5, <2>1, FailsGrow DEF PortsInv
  <2>3. CASE Player!Next /\ ui' = "idle"
    BY <1>5, <2>1, <2>2, <2>3, EventsStep
  <2>4. CASE UNCHANGED Player!vars
    BY <2>2, <2>4 DEF Asked, FileKept, Holding, Player!vars, Player!requestVars,
        Player!nameVars, Player!playVars, Player!gcVars
  <2> QED BY <2>1, <2>3, <2>4
<1> QED BY <1>p, <1>o, <1>s, <1>1, <1>2, <1>3, <1>4, <1>5 DEF PortsInv

LEMMA PortsInvariance == PortsSpec => []PortsInv
<1>1. PortsInit => PortsInv
  BY PortsBegin
<1>2. PortsInv /\ [PortsNext]_<<vars, others>> => PortsInv'
  BY PortsStep
<1> QED BY <1>1, <1>2, PTL DEF PortsSpec

(* Each port keeps its types. *)
THEOREM PortsKeepTypes == PortsSpec => []PortsTypeOK
<1>1. PortsInv => PortsTypeOK
  <2> SUFFICES ASSUME PortsInv PROVE PortsTypeOK
    OBVIOUS
  <2>1. TypeOK
    BY OscTyped DEF PortsInv
  <2>2. port = "stream" => Stream!TypeOK
    BY StreamHolds DEF PortsInv
  <2>3. port = "frames" => Frames!TypeOK
    BY RowsHold, PortsAssumption DEF PortsAssumption, PortsInv
  <2>4. port = "string" => String!TypeOK
    BY DEF PortsInv, TextInv
  <2>5. port = "path" => Paths!TypeOK
    BY DEF PortsInv, PathInv
  <2>6. port \in {"player", "events"} => Player!TypeOK
    BY DEF PortsInv, PlayerInv
  <2>7. port \in Ports
    BY DEF PortsInv
  <2> QED BY <2>1, <2>2, <2>3, <2>4, <2>5, <2>6, <2>7 DEF PortsTypeOK, Ports
<1> QED BY <1>1, PortsInvariance, PTL

(* stream_t::read(): the plugin's stream gives the last samples that were  *)
(* committed, wherever the frames lie in the ring.                         *)
THEOREM SourceGivesLatest == PortsSpec => []SourceReads
<1>1. PortsInv => SourceReads
  BY StreamHolds DEF PortsInv, SourceReads
<1> QED BY <1>1, PortsInvariance, PTL

(* stream_t::sync(): what was copied frame by frame gives what the plugin  *)
(* had when the last sync() began.                                         *)
THEOREM CopyGivesLatest == PortsSpec => []CopyReads
<1>1. PortsInv => CopyReads
  BY StreamHolds DEF PortsInv, CopyReads
<1> QED BY <1>1, PortsInvariance, PTL

(* frame_buffer_t::sync(): no row of the picture is torn or out of place.  *)
THEOREM PictureStaysWhole == PortsSpec => []PictureWhole
<1>1. PortsInv => PictureWhole
  BY RowsHold, PortsAssumption DEF PortsAssumption, PortsInv, PictureWhole
<1> QED BY <1>1, PortsInvariance, PTL

(* frame_buffer_t::clear(): a picture that is up to date shows no row that *)
(* was cleared, and every other.                                           *)
THEOREM ClearIsShown == PortsSpec => []ClearShown
<1>1. PortsInv => ClearShown
  BY RowsHold, PortsAssumption DEF PortsAssumption, PortsInv, ClearShown
<1> QED BY <1>1, PortsInvariance, PTL

(* string_t: when nothing is on its way, the text in force is shown.       *)
THEOREM TextInForceShown == PortsSpec => []TextShown
<1>1. PortsInv => TextShown
  BY DEF PortsInv, TextInv, Shown, TextShown, String!TextShown, String!Settled,
      String!MainIdle
<1> QED BY <1>1, PortsInvariance, PTL

(* path_t: when nothing is on its way, the path requested last is loaded   *)
(* and shown.                                                              *)
THEOREM LastPathSettles == PortsSpec => []PathSettles
<1>1. PortsInv => PathSettles
  BY DEF PortsInv, PathInv, PathSettles, Paths!PathSettles, Served, PathServed,
      PathShown, PathLoaded
<1> QED BY <1>1, PortsInvariance, PTL

(* SamplePlayer: no sample is lost, none is destroyed while it is heard.   *)
THEOREM SamplesStayOwned == PortsSpec => []SamplesOwned
<1>1. PortsInv => SamplesOwned
  BY OnePlace DEF PortsInv, SamplesOwned
<1> QED BY <1>1, PortsInvariance, PTL

(* SamplePlayer::process_async_requests(): when files are requested in the *)
(* audio thread alone and no load fails, the file requested last is the    *)
(* one played, or is loaded to be.                                         *)
THEOREM RequestedIsPlayed == PortsSpec => []RequestedPlays
<1>1. PortsInv => RequestedPlays
  BY DEF PortsInv, Asked, FileKept, Holding, RequestedPlays, Player!RequestedPlays
<1> QED BY <1>1, PortsInvariance, PTL
=============================================================================
