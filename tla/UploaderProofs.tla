--------------------------- MODULE UploaderProofs ---------------------------
(***************************************************************************)
(* Proofs about Uploader and the PartWriter it is composed with, for files,*)
(* chunks, parts and bodies of any size, any client and any number of      *)
(* failures, where the requests for a file do not overlap.                 *)
(***************************************************************************)
EXTENDS Uploader, FiniteSetTheorems, TLAPS

\* The requests of the file come one after the other.
OneWriter == \A g, h \in Handlers : g = h

-----------------------------------------------------------------------------
(***************************************************************************)
(* The inductive invariant, in parts.                                      *)
(***************************************************************************)

\* The blob begins with n whole chunks of its own.
Good(b, n) ==
  /\ n \in 0..Len(b.cells)
  /\ \A j \in 1..n : b.cells[j] = Sealed(b.prefix, j - 1, FALSE, ChunkSize)

\* Every cell but the last is a whole chunk.
Shaped(b) ==
  \A j \in 1..Len(b.cells) : /\ b.cells[j].len <= ChunkSize
                             /\ j < Len(b.cells) => b.cells[j].len = ChunkSize

\* Length m of a file is in n whole chunks at the beginning of the blob.
Holds(b, m) ==
  \E n \in Nat : m = ChunkSize * n /\ Good(b, n) /\ (n > 0 => b.prefix # 0)

StoredOK ==
  /\ received < Size => Holds(blob, received)
  /\ received >= Size => Readable(blob, Size)

\* A request works at the acknowledged offset of an unfinished file.
HandOK(r) == r.pc # "idle" => received < Size /\ r.off = received

\* Before the writer is there.
OpenOK(r) ==
  r.pc \in {"open", "inspect"} =>
    /\ r.out = 0 /\ r.index = 0 /\ ~r.header
    /\ r.off + r.body <= Size
    /\ r.pc = "inspect" => /\ r.off > 0 /\ r.stat = WholeCells(blob)
                           /\ ~r.torn => IsAligned(blob)

\* The writer appends: what the blob holds is what it has sealed, after what it
\* found.
CopyOK(r) ==
  r.pc = "copy" =>
    /\ r.prefix # 0
    /\ r.off + r.out = ChunkSize * r.index
    /\ r.buf <= ChunkSize
    /\ r.body > 0 => r.buf = ChunkSize
    /\ r.buf = 0 => r.out = 0
    /\ NewLen(r) + r.body <= Size
    /\ Len(blob.cells) = r.index /\ Good(blob, r.index)
    /\ IF r.header THEN blob.prefix = r.prefix ELSE r.index = 0

\* The whole part is on disk and waits to be recorded.
SetOK(r) ==
  r.pc = "set" => IF NewLen(r) >= Size THEN Readable(blob, Size)
                                       ELSE Holds(blob, NewLen(r))

RequestOK(r) == HandOK(r) /\ OpenOK(r) /\ CopyOK(r) /\ SetOK(r)

PInv == /\ TypeOK /\ Shaped(blob) /\ StoredOK
        /\ \A h \in Handlers : RequestOK(req[h])

-----------------------------------------------------------------------------
(***************************************************************************)
(* Arithmetic of chunks.                                                   *)
(***************************************************************************)

\* Whole chunks and units.
LEMMA ChunkTimes ==
  ASSUME NEW m \in Nat, NEW n \in Nat
  PROVE  /\ ChunkSize * m \in Nat
         /\ ChunkSize * (m + 1) = ChunkSize * m + ChunkSize
         /\ ChunkSize * 0 = 0
         /\ ChunkSize * m <= ChunkSize * n => m <= n
         /\ ChunkSize * m = ChunkSize * n => m = n
         /\ m > 0 => ChunkSize * m > 0
<1>1. ChunkSize \in Nat /\ ChunkSize > 0
  BY SizesAssumption
<1>2. /\ ChunkSize * m \in Nat /\ ChunkSize * 0 = 0
      /\ ChunkSize * (m + 1) = ChunkSize * m + ChunkSize
  BY <1>1
<1>3. m > 0 => ChunkSize * m > 0
  BY <1>1
<1>4. ASSUME NEW a \in Nat, NEW b \in Nat, a < b
      PROVE  ChunkSize * a < ChunkSize * b
  <2>1. PICK d \in Nat : b = a + d /\ d > 0
    <3>1. b - a \in Nat /\ b = a + (b - a) /\ b - a > 0
      BY <1>4
    <3> QED
      BY <3>1
  <2>2. ChunkSize * b = ChunkSize * a + ChunkSize * d
    BY <1>1, <2>1
  <2>3. ChunkSize * d > 0
    BY <1>1, <2>1
  <2> QED
    BY <1>1, <2>2, <2>3
<1> QED
  BY <1>1, <1>2, <1>3, <1>4

\* The whole chunks in a length of whole chunks.
LEMMA ChunkDiv ==
  ASSUME NEW n \in Nat
  PROVE  (ChunkSize * n) \div ChunkSize = n
<1> DEFINE m == ChunkSize * n
           q == m \div ChunkSize
<1>1. ChunkSize \in Nat /\ ChunkSize > 0 /\ m \in Nat
  BY SizesAssumption, ChunkTimes
<1> HIDE DEF m
<1>2. q \in Nat /\ ChunkSize * q <= m /\ m < ChunkSize * q + ChunkSize
  BY <1>1
<1> HIDE DEF q
<1>3. q <= n
  BY <1>2, ChunkTimes DEF m
<1>4. ~(q + 1 <= n)
  <2> SUFFICES ASSUME q + 1 <= n PROVE FALSE
    OBVIOUS
  <2>1. PICK d \in Nat : n = (q + 1) + d
    <3>1. n - (q + 1) \in Nat /\ n = (q + 1) + (n - (q + 1))
      BY <1>2
    <3> QED
      BY <3>1
  <2>2. ChunkSize * n = ChunkSize * (q + 1) + ChunkSize * d /\ ChunkSize * d \in Nat
    BY <1>1, <1>2, <2>1
  <2> QED
    BY <1>1, <1>2, <2>2, ChunkTimes DEF m
<1> QED
  BY <1>2, <1>3, <1>4 DEF q, m

\* The smaller and the larger of two numbers.
LEMMA TwoOf ==
  ASSUME NEW a \in Nat, NEW b \in Nat
  PROVE  /\ Min({a, b}) = IF a <= b THEN a ELSE b
         /\ Max({a, b}) = IF a >= b THEN a ELSE b
  BY DEF Min, Max

-----------------------------------------------------------------------------
(***************************************************************************)
(* The blob.                                                               *)
(***************************************************************************)

\* Fewer chunks are good too.
LEMMA GoodLess ==
  ASSUME NEW b \in Blob, NEW m \in Nat, NEW n \in Nat, Good(b, m), n <= m
  PROVE  Good(b, n)
<1>1. Len(b.cells) \in Nat
  BY DEF Blob
<1> QED
  BY <1>1 DEF Good, Sealed

\* A good chunk is a whole one.
LEMMA GoodCells ==
  ASSUME NEW b \in Blob, NEW n \in Nat, Good(b, n), NEW j \in 1..n
  PROVE  b.cells[j].len = ChunkSize /\ b.cells[j].prefix = b.prefix
<1>1. b.cells[j] = Sealed(b.prefix, j - 1, FALSE, ChunkSize)
  BY Zenon DEF Good
<1> QED
  BY <1>1 DEF Sealed

\* The first cells of a blob decide how many are good.
LEMMA GoodSame ==
  ASSUME NEW b \in Blob, NEW c \in Blob, NEW n \in Nat, Good(b, n),
         n <= Len(c.cells), c.prefix = b.prefix,
         \A j \in 1..n : c.cells[j] = b.cells[j]
  PROVE  Good(c, n)
<1>1. Len(b.cells) \in Nat /\ Len(c.cells) \in Nat
  BY DEF Blob
<1> QED
  BY <1>1 DEF Good, Sealed

\* pwrite at the end of whole chunks appends.
LEMMA Appended ==
  ASSUME NEW b \in Blob, NEW n \in Nat, NEW c \in Cell, Good(b, n), Len(b.cells) = n
  PROVE  LET p == PutCell(b, n, c)
         IN  /\ p \in Blob /\ p.prefix = b.prefix /\ Len(p.cells) = n + 1
             /\ \A j \in 1..n : p.cells[j] = b.cells[j]
             /\ p.cells[n + 1] = c
<1> DEFINE Longer(j) == IF j < n THEN ChunkSize ELSE b.cells[j].len
           Cut(j) == j = n /\ b.cells[j].len < ChunkSize
           cells == [j \in 1..(n + 1) |->
                       IF j = n + 1
                       THEN IF j <= n /\ Longer(j) > c.len
                            THEN [Hole EXCEPT !.len = Longer(j)]
                            ELSE c
                       ELSE IF j > n \/ (Cut(j) /\ j <= n) THEN Hole
                       ELSE b.cells[j]]
<1>1. Max({n, n + 1}) = n + 1
  <2>1. n + 1 \in Nat /\ ~(n >= n + 1)
    OBVIOUS
  <2>2. Max({n, n + 1}) = IF n >= n + 1 THEN n ELSE n + 1
    BY <2>1, TwoOf
  <2> QED
    BY <2>1, <2>2
<1>2. PutCell(b, n, c) = [b EXCEPT !.header = TRUE, !.cells = cells]
  BY <1>1 DEF PutCell
<1>3. \A j \in 1..n : b.cells[j].len = ChunkSize /\ b.cells[j] \in Cell
  BY GoodCells DEF Blob
<1>4. ChunkSize \in Nat
  BY SizesAssumption
<1>5. cells[n + 1] = c
  OBVIOUS
<1>6. \A j \in 1..n : cells[j] = b.cells[j]
  BY <1>3, <1>4
<1>7. \A j \in 1..(n + 1) : cells[j] \in Cell
  <2> SUFFICES ASSUME NEW j \in 1..(n + 1) PROVE cells[j] \in Cell
    OBVIOUS
  <2>1. j = n + 1 \/ j \in 1..n
    OBVIOUS
  <2> HIDE DEF cells
  <2> QED
    BY <1>3, <1>5, <1>6, <2>1
<1>8. cells = [j \in 1..(n + 1) |-> cells[j]]
  OBVIOUS
<1> HIDE DEF cells
<1>9. cells \in Seq(Cell) /\ Len(cells) = n + 1
  BY <1>7, <1>8
<1>10. /\ PutCell(b, n, c) \in Blob /\ PutCell(b, n, c).prefix = b.prefix
       /\ PutCell(b, n, c).cells = cells
  BY <1>2, <1>9 DEF Blob
<1> QED
  BY <1>5, <1>6, <1>9, <1>10

\* Truncate keeps the first cells.
LEMMA Truncated ==
  ASSUME NEW b \in Blob, NEW n \in Nat, n <= Len(b.cells)
  PROVE  LET p == TruncateTo(b, n)
         IN  /\ p \in Blob /\ p.prefix = b.prefix /\ Len(p.cells) = n
             /\ \A j \in 1..n : p.cells[j] = b.cells[j]
<1> DEFINE cells == [j \in 1..n |-> IF j <= Len(b.cells) THEN b.cells[j] ELSE Hole]
<1>1. TruncateTo(b, n) = [b EXCEPT !.header = TRUE, !.cells = cells]
  BY DEF TruncateTo, Blob
<1>2. b.cells \in Seq(Cell) /\ Len(b.cells) \in Nat
  BY DEF Blob
<1>3. \A j \in 1..n : cells[j] = b.cells[j] /\ cells[j] \in Cell
  BY <1>2
<1>4. cells = [j \in 1..n |-> cells[j]]
  OBVIOUS
<1> HIDE DEF cells
<1>5. cells \in Seq(Cell) /\ Len(cells) = n
  BY <1>3, <1>4
<1>6. /\ TruncateTo(b, n) \in Blob /\ TruncateTo(b, n).prefix = b.prefix
      /\ TruncateTo(b, n).cells = cells
  BY <1>1, <1>5 DEF Blob
<1> QED
  BY <1>3, <1>5, <1>6

\* AlignDown drops at most the last cell, and none that is whole.
LEMMA WholeKept ==
  ASSUME NEW b \in Blob, Shaped(b)
  PROVE  /\ WholeCells(b) \in Nat /\ WholeCells(b) <= Len(b.cells)
         /\ \A n \in Nat : Good(b, n) => n <= WholeCells(b)
<1> DEFINE l == Len(b.cells)
           W == {j \in DOMAIN b.cells : b.cells[j].len = ChunkSize}
<1>1. l \in Nat /\ DOMAIN b.cells = 1..l
  BY DEF Blob
<1>2. CASE l = 0
  <2>1. W = {}
    BY <1>1, <1>2
  <2>2. WholeCells(b) = 0
    BY <2>1, FS_EmptySet DEF WholeCells
  <2> QED
    BY <1>2, <2>2 DEF Good, Sealed
<1>3. CASE l > 0 /\ b.cells[l].len = ChunkSize
  <2>1. W = 1..l
    BY <1>1, <1>3 DEF Shaped
  <2>2. WholeCells(b) = l
    <3>1. Cardinality(1..l) = l
      BY <1>1, <1>3, FS_Interval
    <3> QED
      BY <2>1, <3>1 DEF WholeCells
  <2> QED
    BY <1>1, <2>2 DEF Good, Sealed
<1>4. CASE l > 0 /\ b.cells[l].len # ChunkSize
  <2>1. W = 1..(l - 1)
    BY <1>1, <1>4 DEF Shaped
  <2>2. WholeCells(b) = l - 1
    <3>1. Cardinality(1..(l - 1)) = l - 1
      BY <1>1, <1>4, FS_Interval
    <3> QED
      BY <2>1, <3>1 DEF WholeCells
  <2>3. ASSUME NEW n \in Nat, Good(b, n)
        PROVE  n # l
    BY <1>1, <1>4, <2>3, GoodCells
  <2> QED
    BY <1>1, <1>4, <2>2, <2>3 DEF Good, Sealed
<1> QED
  BY <1>1, <1>2, <1>3, <1>4

\* One more good chunk.
LEMMA GoodMore ==
  ASSUME NEW b \in Blob, NEW n \in Nat, Good(b, n), n + 1 <= Len(b.cells),
         b.cells[n + 1] = Sealed(b.prefix, n, FALSE, ChunkSize)
  PROVE  Good(b, n + 1)
<1>1. Len(b.cells) \in Nat
  BY DEF Blob
<1>2. ASSUME NEW j \in 1..(n + 1)
      PROVE  b.cells[j] = Sealed(b.prefix, j - 1, FALSE, ChunkSize)
  <2>1. CASE j \in 1..n
    BY <2>1, Zenon DEF Good
  <2>2. CASE j = n + 1
    <3>1. j - 1 = n
      BY <2>2
    <3> QED
      BY <2>2, <3>1, Zenon
  <2>3. j \in 1..n \/ j = n + 1
    BY <1>1
  <2> QED
    BY <2>1, <2>2, <2>3, Zenon
<1>3. n + 1 \in 0..Len(b.cells)
  BY <1>1
<1> QED
  BY <1>2, <1>3, Zenon DEF Good

\* A blob of good chunks and a final one is the file.
LEMMA FinalReadable ==
  ASSUME NEW b \in Blob, NEW n \in Nat, Good(b, n), n + 1 <= Len(b.cells), b.prefix # 0,
         b.cells[n + 1] = Sealed(b.prefix, n, TRUE, Size - ChunkSize * n)
  PROVE  Readable(b, Size)
<1>1. Len(b.cells) \in Nat /\ n + 1 \in 1..Len(b.cells) /\ (n + 1) - 1 = n
  BY DEF Blob
<1>2. ASSUME NEW j \in 1..((n + 1) - 1)
      PROVE  b.cells[j] = Sealed(b.prefix, j - 1, FALSE, ChunkSize)
  <2>1. j \in 1..n
    BY <1>1
  <2> QED
    BY <2>1, Zenon DEF Good
<1>3. b.cells[n + 1] = Sealed(b.prefix, (n + 1) - 1, TRUE, Size - ChunkSize * ((n + 1) - 1))
  BY <1>1 DEF Sealed
<1> QED
  BY <1>1, <1>2, <1>3, Zenon DEF Readable

\* What the blob holds it still holds with more good chunks behind.
LEMMA HoldsFirst ==
  ASSUME NEW b \in Blob, NEW n \in Nat, NEW m \in Nat, Good(b, n),
         n > 0 => b.prefix # 0, m <= n
  PROVE  Holds(b, ChunkSize * m)
<1>1. Good(b, m)
  BY GoodLess
<1> QED
  BY <1>1 DEF Holds

\* What the Writer has after it has read on.
LEMMA FilledFacts ==
  ASSUME NEW r \in Request
  PROVE  /\ Filled(r) \in Request
         /\ Filled(r).pc = "copy"
         /\ Filled(r).off = r.off /\ Filled(r).out = r.out /\ Filled(r).index = r.index
         /\ Filled(r).prefix = r.prefix /\ Filled(r).header = r.header
         /\ Filled(r).buf <= ChunkSize
         /\ Filled(r).buf + Filled(r).body = r.body
         /\ Filled(r).body > 0 => Filled(r).buf = ChunkSize
         /\ r.body > 0 => Filled(r).buf > 0
<1>1. ChunkSize \in Nat /\ ChunkSize > 0 /\ r.body \in Nat
  BY SizesAssumption DEF Request
<1> DEFINE n == Min({ChunkSize, r.body})
<1>2. n = IF ChunkSize <= r.body THEN ChunkSize ELSE r.body
  BY <1>1, TwoOf
<1>3. n \in Nat /\ r.body - n \in Nat
  BY <1>1, <1>2
<1>4. Filled(r) = [r EXCEPT !.pc = "copy", !.buf = n, !.body = r.body - n]
  BY DEF Filled, Request
<1> HIDE DEF n
<1>5. /\ Filled(r) \in Request
      /\ Filled(r).pc = "copy" /\ Filled(r).buf = n /\ Filled(r).body = r.body - n
      /\ Filled(r).off = r.off /\ Filled(r).out = r.out /\ Filled(r).index = r.index
      /\ Filled(r).prefix = r.prefix /\ Filled(r).header = r.header
  BY <1>3, <1>4 DEF Request, Steps
<1>6. /\ n <= ChunkSize /\ n + (r.body - n) = r.body
      /\ r.body - n > 0 => n = ChunkSize
      /\ r.body > 0 => n > 0
  BY <1>1, <1>2
<1> QED
  BY <1>5, <1>6

-----------------------------------------------------------------------------
(***************************************************************************)
(* The steps of a request, one request at a time.                          *)
(***************************************************************************)

\* A step after which the request has r in hand.
LEMMA StepOK ==
  ASSUME PInv, OneWriter, NEW h \in Handlers, NEW r \in Request,
         req' = [req EXCEPT ![h] = r],
         received' \in Nat, faults' \in Nat, blob' \in Blob, Shaped(blob'),
         StoredOK', RequestOK(r)'
  PROVE  PInv'
<1>1. req' \in [Handlers -> Request]
  BY DEF PInv, TypeOK
<1>2. \A g \in Handlers : req'[g] = r
  BY DEF OneWriter, PInv, TypeOK
<1>3. ASSUME NEW g \in Handlers
      PROVE  RequestOK(req[g])'
  BY <1>2 DEF RequestOK, HandOK, OpenOK, CopyOK, SetOK, NewLen, Holds
<1>4. TypeOK'
  BY <1>1 DEF TypeOK
<1> QED
  BY <1>3, <1>4, Zenon DEF PInv

\* A step that ends the request.
LEMMA ReturnOK ==
  ASSUME PInv, OneWriter, NEW h \in Handlers, Return(h),
         received' \in Nat, faults' \in Nat, blob' \in Blob, Shaped(blob'), StoredOK'
  PROVE  PInv'
<1>1. Idle \in Request /\ Idle.pc = "idle"
  BY DEF Idle, Request, Steps
<1>2. RequestOK(Idle)'
  BY <1>1 DEF RequestOK, HandOK, OpenOK, CopyOK, SetOK
<1> QED
  BY <1>1, <1>2, StepOK DEF Return

\* WriteParts up to the open.
LEMMA WritePartsOK ==
  ASSUME PInv, OneWriter, NEW h \in Handlers, NEW off, NEW body \in Nat,
         WriteParts(h, off, body)
  PROVE  PInv'
<1>1. /\ off = received /\ received < Size
      /\ UNCHANGED <<received, blob, faults>>
      /\ req' = [req EXCEPT ![h] = [Idle EXCEPT !.pc = "open", !.off = off,
                                                !.body = Min({body, Size - off})]]
  BY DEF WriteParts, Accepts
<1>2. /\ received \in Nat /\ faults \in Nat /\ blob \in Blob /\ Shaped(blob) /\ StoredOK
      /\ Size \in Nat
  BY SizesAssumption DEF PInv, TypeOK
<1>3. PICK n \in Nat : n = Min({body, Size - off}) /\ off + n <= Size
  <2>1. Size - off \in Nat
    BY <1>1, <1>2
  <2>2. Min({body, Size - off}) = IF body <= Size - off THEN body ELSE Size - off
    BY <2>1, TwoOf
  <2> QED
    BY <1>1, <1>2, <2>1, <2>2
<1>4. PICK r \in Request : /\ r = [Idle EXCEPT !.pc = "open", !.off = off, !.body = n]
                           /\ r.pc = "open" /\ r.off = off /\ r.body = n
                           /\ r.out = 0 /\ r.index = 0 /\ ~r.header
  <2> DEFINE s == [Idle EXCEPT !.pc = "open", !.off = off, !.body = n]
  <2>1. s \in Request
    BY <1>1, <1>2 DEF Idle, Request, Steps
  <2>2. /\ s.pc = "open" /\ s.off = off /\ s.body = n
        /\ s.out = 0 /\ s.index = 0 /\ ~s.header
    BY DEF Idle
  <2> HIDE DEF s
  <2> QED
    BY <2>1, <2>2 DEF s
<1>5. RequestOK(r)'
  BY <1>1, <1>2, <1>3, <1>4 DEF RequestOK, HandOK, OpenOK, CopyOK, SetOK
<1>6. StoredOK' = StoredOK /\ Shaped(blob') = Shaped(blob)
  BY <1>1 DEF StoredOK
<1> QED
  BY <1>1, <1>2, <1>3, <1>4, <1>5, <1>6, StepOK

\* writerAt at offset 0.
LEMMA NewWriterOK ==
  ASSUME PInv, OneWriter, NEW h \in Handlers, NewWriter(h)
  PROVE  PInv'
<1>1. PICK p \in Prefixes : req' = [req EXCEPT ![h] = [Filled(@) EXCEPT !.prefix = p]]
  BY DEF NewWriter
<1>2. /\ req[h].pc = "open" /\ req[h].off = 0 /\ blob' = Empty
      /\ UNCHANGED <<received, faults>>
  BY DEF NewWriter, At
<1>3. /\ received \in Nat /\ faults \in Nat /\ req \in [Handlers -> Request]
      /\ req[h] \in Request /\ RequestOK(req[h])
      /\ Size \in Nat /\ ChunkSize \in Nat /\ ChunkSize * 0 = 0
  BY SizesAssumption, ChunkTimes DEF PInv, TypeOK
<1>4. /\ received = 0 /\ received < Size /\ req[h].out = 0 /\ req[h].index = 0
      /\ ~req[h].header /\ req[h].off + req[h].body <= Size
  BY <1>2, <1>3 DEF RequestOK, HandOK, OpenOK
<1>5. PICK f \in Request : /\ f = Filled(req[h]) /\ f.pc = "copy"
                           /\ f.off = 0 /\ f.out = 0 /\ f.index = 0 /\ ~f.header
                           /\ f.buf <= ChunkSize
                           /\ f.buf + f.body = req[h].body
                           /\ f.body > 0 => f.buf = ChunkSize
  BY <1>2, <1>3, <1>4, FilledFacts
<1>6. PICK r \in Request : /\ r = [f EXCEPT !.prefix = p]
                           /\ r.pc = "copy" /\ r.prefix = p
                           /\ r.off = 0 /\ r.out = 0 /\ r.index = 0 /\ ~r.header
                           /\ r.buf = f.buf /\ r.body = f.body
  <2> DEFINE s == [f EXCEPT !.prefix = p]
  <2>1. s \in Request
    BY DEF Request
  <2>2. /\ s.pc = "copy" /\ s.prefix = p
        /\ s.off = 0 /\ s.out = 0 /\ s.index = 0 /\ ~s.header
        /\ s.buf = f.buf /\ s.body = f.body
    BY <1>5 DEF Request
  <2> HIDE DEF s
  <2> QED
    BY <2>1, <2>2 DEF s
<1>7. req' = [req EXCEPT ![h] = r]
  BY <1>1, <1>3, <1>5, <1>6
<1>8. p # 0 /\ f.buf \in Nat /\ f.body \in Nat /\ req[h].body \in Nat
  BY <1>3, <1>5, PrefixesAssumption DEF Request
<1>9. /\ Empty \in Blob /\ Len(Empty.cells) = 0
  BY DEF Empty, Blob
<1>10. Good(Empty, 0) /\ Shaped(Empty) /\ Holds(Empty, 0)
  <2>1. Good(Empty, 0)
    BY <1>9 DEF Good, Sealed
  <2>2. Shaped(Empty)
    BY <1>9 DEF Shaped
  <2> QED
    BY <1>3, <2>1, <2>2 DEF Holds
<1>11. StoredOK'
  BY <1>2, <1>3, <1>4, <1>10 DEF StoredOK
<1>12. HandOK(r)' /\ OpenOK(r)' /\ SetOK(r)'
  BY <1>2, <1>3, <1>4, <1>6 DEF HandOK, OpenOK, SetOK
<1>13. NewLen(r) + r.body <= Size
  BY <1>2, <1>3, <1>4, <1>5, <1>6, <1>8 DEF NewLen
<1>14. CopyOK(r)'
  BY <1>2, <1>3, <1>5, <1>6, <1>8, <1>9, <1>10, <1>13 DEF CopyOK, NewLen
<1> QED
  BY <1>2, <1>3, <1>6, <1>7, <1>9, <1>10, <1>11, <1>12, <1>14, StepOK DEF RequestOK

\* writerAt at another offset: Stat.
LEMMA StatBlobOK ==
  ASSUME PInv, OneWriter, NEW h \in Handlers, StatBlob(h)
  PROVE  PInv'
<1>1. /\ req[h].pc = "open" /\ req[h].off > 0
      /\ req' = [req EXCEPT ![h].pc = "inspect", ![h].stat = WholeCells(blob),
                             ![h].torn = ~IsAligned(blob)]
      /\ UNCHANGED <<received, blob, faults>>
  BY DEF StatBlob, At
<1>2. /\ received \in Nat /\ faults \in Nat /\ blob \in Blob /\ Shaped(blob) /\ StoredOK
      /\ req \in [Handlers -> Request] /\ req[h] \in Request /\ RequestOK(req[h])
  BY DEF PInv, TypeOK
<1>3. PICK w \in Nat : w = WholeCells(blob)
  BY <1>2, WholeKept
<1> DEFINE t == ~IsAligned(blob)
<1>4. PICK r \in Request : /\ req' = [req EXCEPT ![h] = r]
                           /\ r.pc = "inspect" /\ r.stat = w /\ r.off = req[h].off
                           /\ r.out = req[h].out /\ r.index = req[h].index
                           /\ r.header = req[h].header /\ r.body = req[h].body
                           /\ r.torn = t
  <2> DEFINE s == [req[h] EXCEPT !.pc = "inspect", !.stat = w, !.torn = t]
  <2>1. s \in Request
    BY <1>2 DEF Request, Steps
  <2>2. /\ s.pc = "inspect" /\ s.stat = w /\ s.off = req[h].off
        /\ s.out = req[h].out /\ s.index = req[h].index
        /\ s.header = req[h].header /\ s.body = req[h].body /\ s.torn = t
    BY <1>2 DEF Request
  <2>3. req' = [req EXCEPT ![h] = s]
    BY <1>1, <1>2, <1>3
  <2> HIDE DEF s
  <2> QED
    BY <2>1, <2>2, <2>3
<1>5. WholeCells(blob)' = w /\ (~r.torn => IsAligned(blob)')
  BY <1>1, <1>3, <1>4
<1>6. RequestOK(r)'
  BY <1>1, <1>2, <1>4, <1>5 DEF RequestOK, HandOK, OpenOK, CopyOK, SetOK
<1>7. StoredOK' = StoredOK /\ Shaped(blob') = Shaped(blob)
  BY <1>1 DEF StoredOK
<1> QED
  BY <1>1, <1>2, <1>4, <1>6, <1>7, StepOK

\* Cutting the blob to whole chunks, no fewer than the acknowledged ones.
LEMMA CutBack ==
  ASSUME PInv, received < Size, NEW n \in Nat, n <= Len(blob.cells),
         ChunkSize * n >= received, blob' = TruncateTo(blob, n), UNCHANGED received
  PROVE  /\ blob' \in Blob /\ Shaped(blob') /\ StoredOK'
         /\ blob'.prefix = blob.prefix /\ Len(blob'.cells) = n
         /\ ChunkSize * n = received => Good(blob', n) /\ (n > 0 => blob.prefix # 0)
<1>1. received \in Nat /\ blob \in Blob /\ Shaped(blob) /\ Len(blob.cells) \in Nat
  BY DEF PInv, TypeOK, Blob
<1>2. PICK m \in Nat : received = ChunkSize * m /\ Good(blob, m) /\ (m > 0 => blob.prefix # 0)
  BY DEF PInv, StoredOK, Holds
<1>3. m <= n
  BY <1>2, ChunkTimes
<1>4. /\ blob' \in Blob /\ blob'.prefix = blob.prefix /\ Len(blob'.cells) = n
      /\ \A j \in 1..n : blob'.cells[j] = blob.cells[j]
  BY <1>1, Truncated
<1>5. Shaped(blob')
  BY <1>1, <1>4 DEF Shaped
<1>6. Good(blob', m)
  BY <1>1, <1>2, <1>3, <1>4, GoodSame
<1>7. StoredOK'
  <2>1. Holds(blob', received)
    BY <1>2, <1>4, <1>6, Zenon DEF Holds
  <2> QED
    BY <1>1, <2>1, SizesAssumption DEF StoredOK
<1>8. ChunkSize * n = received => n = m
  BY <1>2, ChunkTimes
<1> QED
  BY <1>2, <1>4, <1>5, <1>6, <1>7, <1>8

\* A blob of whole chunks is not changed by cutting it to all of them.
LEMMA WholeTruncated ==
  ASSUME NEW b \in Blob, b.header
  PROVE  TruncateTo(b, Len(b.cells)) = b
<1>1. b.cells \in Seq(Cell) /\ b.header \in BOOLEAN
  BY DEF Blob
<1>2. [j \in 1..Len(b.cells) |-> IF j <= Len(b.cells) THEN b.cells[j] ELSE Hole] = b.cells
  BY <1>1
<1>3. TruncateTo(b, Len(b.cells)) = [b EXCEPT !.header = TRUE, !.cells = b.cells]
  BY <1>2 DEF TruncateTo, Blob
<1> QED
  BY <1>1, <1>3 DEF Blob

\* A torn tail is cut off, and the Writer goes on or the request ends.
LEMMA ResumeWriterOK ==
  ASSUME PInv, OneWriter, NEW h \in Handlers, ResumeWriter(h)
  PROVE  PInv'
<1>1. /\ req[h].pc = "inspect"
      /\ blob' = IF req[h].torn THEN TruncateTo(blob, req[h].stat) ELSE blob
      /\ UNCHANGED <<received, faults>>
  BY DEF ResumeWriter, At
<1>2. /\ received \in Nat /\ faults \in Nat /\ blob \in Blob /\ Shaped(blob) /\ StoredOK
      /\ req \in [Handlers -> Request] /\ req[h] \in Request /\ RequestOK(req[h])
      /\ Size \in Nat /\ ChunkSize \in Nat
  BY SizesAssumption DEF PInv, TypeOK
<1>3. /\ received < Size /\ req[h].off = received
      /\ req[h].out = 0 /\ req[h].off + req[h].body <= Size
      /\ req[h].off > 0 /\ req[h].stat = WholeCells(blob)
      /\ ~req[h].torn => IsAligned(blob)
  BY <1>1, <1>2 DEF RequestOK, HandOK, OpenOK
<1>4. PICK w \in Nat : w = req[h].stat /\ w <= Len(blob.cells) /\ ChunkSize * w >= received
  <2>1. PICK m \in Nat : received = ChunkSize * m /\ Good(blob, m)
    BY <1>2, <1>3 DEF StoredOK, Holds
  <2>2. /\ WholeCells(blob) \in Nat /\ WholeCells(blob) <= Len(blob.cells)
        /\ m <= WholeCells(blob)
    BY <1>2, <2>1, WholeKept
  <2>3. ASSUME NEW w \in Nat, m <= w
        PROVE  ChunkSize * w >= ChunkSize * m
    BY <2>3, ChunkTimes
  <2> QED
    BY <1>3, <2>1, <2>2, <2>3
<1>a. blob' = TruncateTo(blob, w)
  <2>1. CASE ~req[h].torn
    <3>1. blob.header /\ w = Len(blob.cells) /\ blob' = blob
      BY <1>1, <1>3, <1>4, <2>1 DEF IsAligned
    <3> QED
      BY <1>2, <3>1, WholeTruncated
  <2> QED
    BY <1>1, <1>2, <1>4, <2>1 DEF Request
<1>5. /\ blob' \in Blob /\ Shaped(blob') /\ StoredOK'
      /\ blob'.prefix = blob.prefix /\ Len(blob'.cells) = w
      /\ ChunkSize * w = received => Good(blob', w) /\ (w > 0 => blob.prefix # 0)
  BY <1>1, <1>a, <1>3, <1>4, CutBack
<1>6. CASE Return(h)
  BY <1>1, <1>2, <1>5, <1>6, ReturnOK
<1>7. CASE /\ Resumable(w, req[h].off)
           /\ req' = [req EXCEPT ![h] = [Filled(@) EXCEPT !.prefix = blob.prefix,
                                                          !.index = w,
                                                          !.header = TRUE]]
  <2>1. blob.prefix # 0 /\ ChunkSize * w = received /\ blob.prefix \in Prefixes \cup {0}
    BY <1>2, <1>3, <1>7 DEF Resumable, Blob
  <2>2. PICK f \in Request : /\ f = Filled(req[h]) /\ f.pc = "copy"
                             /\ f.off = req[h].off /\ f.out = 0
                             /\ f.buf <= ChunkSize
                             /\ f.buf + f.body = req[h].body
                             /\ f.body > 0 => f.buf = ChunkSize
    BY <1>2, <1>3, FilledFacts
  <2>3. PICK r \in Request : /\ r = [f EXCEPT !.prefix = blob.prefix, !.index = w,
                                              !.header = TRUE]
                             /\ r.pc = "copy" /\ r.prefix = blob.prefix
                             /\ r.off = f.off /\ r.out = 0 /\ r.index = w /\ r.header
                             /\ r.buf = f.buf /\ r.body = f.body
    <3> DEFINE s == [f EXCEPT !.prefix = blob.prefix, !.index = w, !.header = TRUE]
    <3>1. s \in Request
      BY <2>1 DEF Request
    <3>2. /\ s.pc = "copy" /\ s.prefix = blob.prefix
          /\ s.off = f.off /\ s.out = 0 /\ s.index = w /\ s.header
          /\ s.buf = f.buf /\ s.body = f.body
      BY <2>2 DEF Request
    <3> HIDE DEF s
    <3> QED
      BY <3>1, <3>2 DEF s
  <2>4. req' = [req EXCEPT ![h] = r]
    BY <1>2, <1>7, <2>2, <2>3
  <2>5. f.buf \in Nat /\ f.body \in Nat /\ f.off \in Nat /\ req[h].body \in Nat
    BY <1>2 DEF Request
  <2>6. NewLen(r) + r.body <= Size
    BY <1>2, <1>3, <2>2, <2>3, <2>5 DEF NewLen
  <2>7. r.off + r.out = ChunkSize * w
    BY <1>2, <1>3, <2>1, <2>2, <2>3, <2>5
  <2>8. CopyOK(r)'
    BY <1>5, <2>1, <2>2, <2>3, <2>6, <2>7 DEF CopyOK, NewLen
  <2>9. HandOK(r)' /\ OpenOK(r)' /\ SetOK(r)'
    BY <1>1, <1>3, <2>2, <2>3 DEF HandOK, OpenOK, SetOK
  <2> QED
    BY <1>1, <1>2, <1>5, <2>3, <2>4, <2>8, <2>9, StepOK DEF RequestOK
<1> QED
  BY <1>4, <1>6, <1>7 DEF ResumeWriter

\* The header goes out.
LEMMA WriteHeaderOK ==
  ASSUME PInv, OneWriter, NEW h \in Handlers, WriteHeader(h)
  PROVE  PInv'
<1>1. /\ req[h].pc = "copy" /\ ~req[h].header
      /\ blob' = [blob EXCEPT !.header = TRUE, !.prefix = req[h].prefix]
      /\ req' = [req EXCEPT ![h].header = TRUE]
      /\ UNCHANGED <<received, faults>>
  BY DEF WriteHeader, At
<1>2. /\ received \in Nat /\ faults \in Nat /\ blob \in Blob /\ Shaped(blob)
      /\ req \in [Handlers -> Request] /\ req[h] \in Request /\ RequestOK(req[h])
      /\ ChunkSize \in Nat
  BY SizesAssumption DEF PInv, TypeOK
<1>3. /\ blob' \in Blob /\ blob'.prefix = req[h].prefix /\ blob'.cells = blob.cells
  BY <1>1, <1>2 DEF Blob, Request
<1>4. /\ received < Size /\ req[h].off = received
      /\ req[h].index = 0 /\ Len(blob.cells) = 0 /\ req[h].off + req[h].out = ChunkSize * 0
  BY <1>1, <1>2 DEF RequestOK, HandOK, CopyOK
<1>5. received = 0 /\ ChunkSize * 0 = 0
  BY <1>2, <1>4 DEF Request
<1>6. Good(blob', 0) /\ Shaped(blob')
  BY <1>2, <1>3, <1>4 DEF Good, Sealed, Shaped
<1>7. StoredOK'
  <2>1. Holds(blob', received)
    BY <1>5, <1>6 DEF Holds
  <2> QED
    BY <1>1, <1>2, <1>4, <2>1, SizesAssumption DEF StoredOK
<1>8. PICK r \in Request : /\ req' = [req EXCEPT ![h] = r]
                           /\ r.pc = "copy" /\ r.header /\ r.prefix = req[h].prefix
                           /\ r.off = req[h].off /\ r.out = req[h].out
                           /\ r.index = req[h].index /\ r.buf = req[h].buf
                           /\ r.body = req[h].body
  <2> DEFINE s == [req[h] EXCEPT !.header = TRUE]
  <2>1. s \in Request
    BY <1>2 DEF Request
  <2>2. /\ s.pc = "copy" /\ s.header /\ s.prefix = req[h].prefix
        /\ s.off = req[h].off /\ s.out = req[h].out
        /\ s.index = req[h].index /\ s.buf = req[h].buf /\ s.body = req[h].body
    BY <1>1, <1>2 DEF Request
  <2>3. req' = [req EXCEPT ![h] = s]
    BY <1>1, <1>2
  <2> HIDE DEF s
  <2> QED
    BY <2>1, <2>2, <2>3
<1>9. CopyOK(r)'
  BY <1>1, <1>2, <1>3, <1>4, <1>6, <1>8 DEF RequestOK, CopyOK, NewLen
<1>10. HandOK(r)' /\ OpenOK(r)' /\ SetOK(r)'
  BY <1>1, <1>4, <1>8 DEF HandOK, OpenOK, SetOK
<1> QED
  BY <1>1, <1>2, <1>3, <1>6, <1>7, <1>8, <1>9, <1>10, StepOK DEF RequestOK

\* A chunk, or a torn one, goes behind what the Writer has sealed.
LEMMA Extends ==
  ASSUME PInv, NEW h \in Handlers, req[h].pc = "copy", req[h].header,
         NEW c \in Cell, c.len <= ChunkSize,
         blob' = PutCell(blob, req[h].index, c), UNCHANGED received
  PROVE  /\ blob' \in Blob /\ Shaped(blob') /\ StoredOK'
         /\ blob'.prefix = req[h].prefix /\ req[h].prefix # 0
         /\ Len(blob'.cells) = req[h].index + 1 /\ Good(blob', req[h].index)
         /\ blob'.cells[req[h].index + 1] = c
<1>1. /\ received \in Nat /\ blob \in Blob /\ req[h] \in Request /\ RequestOK(req[h])
      /\ ChunkSize \in Nat
  BY SizesAssumption DEF PInv, TypeOK
<1>2. PICK n \in Nat : n = req[h].index
  BY <1>1 DEF Request
<1>3. /\ received < Size /\ req[h].off = received
      /\ req[h].prefix # 0 /\ blob.prefix = req[h].prefix
      /\ Len(blob.cells) = n /\ Good(blob, n)
      /\ req[h].off + req[h].out = ChunkSize * n
  BY <1>1, <1>2 DEF RequestOK, HandOK, CopyOK
<1>4. /\ blob' \in Blob /\ blob'.prefix = blob.prefix /\ Len(blob'.cells) = n + 1
      /\ \A j \in 1..n : blob'.cells[j] = blob.cells[j]
      /\ blob'.cells[n + 1] = c
  <2>1. blob' = PutCell(blob, n, c)
    BY <1>2
  <2> QED
    BY <1>1, <1>3, <2>1, Appended
<1>5. Good(blob', n)
  <2>1. n <= Len(blob'.cells)
    BY <1>4
  <2> QED
    BY <1>1, <1>3, <1>4, <2>1, GoodSame, Zenon
<1>6. Shaped(blob')
  <2> SUFFICES ASSUME NEW j \in 1..(n + 1)
               PROVE  /\ blob'.cells[j].len <= ChunkSize
                      /\ j < n + 1 => blob'.cells[j].len = ChunkSize
    BY <1>4 DEF Shaped
  <2>1. CASE j \in 1..n
    BY <1>1, <1>4, <1>5, <2>1, GoodCells
  <2>2. CASE j = n + 1
    BY <1>4, <2>2
  <2> QED
    BY <2>1, <2>2
<1>7. StoredOK'
  <2>1. PICK m \in Nat : received = ChunkSize * m
    BY <1>3 DEF PInv, StoredOK, Holds
  <2>2. m <= n
    <3>1. req[h].out \in Nat
      BY <1>1 DEF Request
    <3>2. ChunkSize * m <= ChunkSize * n
      BY <1>1, <1>3, <2>1, <3>1
    <3> QED
      BY <3>2, ChunkTimes
  <2>3. Holds(blob', received)
    BY <1>3, <1>4, <1>5, <2>1, <2>2, HoldsFirst
  <2> QED
    BY <1>1, <1>3, <2>3, SizesAssumption DEF StoredOK
<1> QED
  BY <1>2, <1>3, <1>4, <1>5, <1>6, <1>7

\* The cell that the Writer seals next belongs where it puts it.
LEMMA NextCellFacts ==
  ASSUME PInv, NEW h \in Handlers, req[h].pc = "copy"
  PROVE  LET r == req[h]
         IN  /\ NextCell(r) \in Cell /\ NextCell(r).len <= ChunkSize
             /\ ~EndsFile(r) /\ r.buf = ChunkSize =>
                  NextCell(r) = Sealed(r.prefix, r.index, FALSE, ChunkSize)
             /\ EndsFile(r) =>
                  NextCell(r) = Sealed(r.prefix, r.index, TRUE, Size - ChunkSize * r.index)
<1> DEFINE r == req[h]
<1>1. r \in Request /\ RequestOK(r) /\ ChunkSize \in Nat /\ Size \in Nat
  BY SizesAssumption DEF PInv, TypeOK
<1>2. /\ r.off + r.out = ChunkSize * r.index /\ r.buf <= ChunkSize
      /\ NewLen(r) + r.body <= Size
  BY <1>1 DEF RequestOK, CopyOK
<1>3. /\ r.off \in Nat /\ r.out \in Nat /\ r.buf \in Nat /\ r.body \in Nat
      /\ r.index \in Nat /\ r.prefix \in Prefixes \cup {0}
  BY <1>1 DEF Request
<1>4. EndsFile(r) \in BOOLEAN /\ r.off + r.out \in Nat
  BY <1>3 DEF EndsFile, EndsPart
<1>5. NextCell(r) \in Cell /\ NextCell(r).len <= ChunkSize
  BY <1>2, <1>3, <1>4 DEF NextCell, Cell
<1>6. NextCell(r) = Sealed(r.prefix, r.index, EndsFile(r), r.buf)
  BY <1>2, Zenon DEF NextCell, Sealed
<1>7. ~EndsFile(r) /\ r.buf = ChunkSize =>
        NextCell(r) = Sealed(r.prefix, r.index, FALSE, ChunkSize)
  <2>1. ASSUME ~EndsFile(r) PROVE EndsFile(r) = FALSE
    BY <1>4, <2>1, Zenon
  <2> QED
    BY <1>6, <2>1, Zenon
<1>8. EndsFile(r) => r.buf = Size - ChunkSize * r.index
  <2>1. ChunkSize * r.index \in Nat
    BY <1>3, ChunkTimes
  <2>2. NewLen(r) = ChunkSize * r.index + r.buf
    BY <1>2 DEF NewLen
  <2>3. EndsFile(r) => r.body = 0 /\ NewLen(r) >= Size
    BY DEF EndsFile, EndsPart
  <2> QED
    BY <1>1, <1>2, <1>3, <2>1, <2>2, <2>3
<1>9. EndsFile(r) =>
        NextCell(r) = Sealed(r.prefix, r.index, TRUE, Size - ChunkSize * r.index)
  <2>1. ASSUME EndsFile(r) PROVE EndsFile(r) = TRUE
    BY <1>4, <2>1, Zenon
  <2> QED
    BY <1>6, <1>8, <2>1, Zenon
<1> QED
  BY <1>5, <1>7, <1>9, Zenon

\* flush of a chunk that more of the body follows.
LEMMA FlushChunkOK ==
  ASSUME PInv, OneWriter, NEW h \in Handlers, FlushChunk(h)
  PROVE  PInv'
<1> DEFINE r == req[h]
           n == r.index
<1>1. /\ r.pc = "copy" /\ r.header /\ r.body # 0
      /\ blob' = PutCell(blob, n, NextCell(r))
      /\ req' = [req EXCEPT ![h] = Filled([r EXCEPT !.index = n + 1,
                                                    !.out = r.out + ChunkSize])]
      /\ UNCHANGED <<received, faults>>
  <2>1. req' = [req EXCEPT ![h] = Filled([r EXCEPT !.index = n + 1,
                                                   !.out = r.out + ChunkSize])]
    BY DEF FlushChunk
  <2>2. /\ r.pc = "copy" /\ r.header /\ r.body # 0
        /\ blob' = PutCell(blob, n, NextCell(r))
        /\ UNCHANGED <<received, faults>>
    BY DEF FlushChunk, At, EndsPart
  <2> QED
    BY <2>1, <2>2
<1>2. /\ received \in Nat /\ faults \in Nat /\ blob \in Blob
      /\ req \in [Handlers -> Request] /\ r \in Request /\ RequestOK(r)
      /\ ChunkSize \in Nat /\ Size \in Nat
  BY SizesAssumption DEF PInv, TypeOK
<1>3. /\ r.off \in Nat /\ r.out \in Nat /\ r.buf \in Nat /\ r.body \in Nat
      /\ r.index \in Nat
  BY <1>2 DEF Request
<1>4. /\ received < Size /\ r.off = received /\ r.prefix # 0
      /\ r.off + r.out = ChunkSize * n /\ r.buf = ChunkSize
      /\ NewLen(r) + r.body <= Size
  BY <1>1, <1>2, <1>3 DEF RequestOK, HandOK, CopyOK
<1>5. ~EndsFile(r)
  BY <1>1 DEF EndsFile, EndsPart
<1>6. /\ NextCell(r) \in Cell /\ NextCell(r).len <= ChunkSize
      /\ NextCell(r) = Sealed(r.prefix, n, FALSE, ChunkSize)
  BY <1>1, <1>4, <1>5, NextCellFacts, Zenon
<1>7. /\ blob' \in Blob /\ Shaped(blob') /\ StoredOK'
      /\ blob'.prefix = r.prefix /\ Len(blob'.cells) = n + 1 /\ Good(blob', n)
      /\ blob'.cells[n + 1] = NextCell(r)
  <2> HIDE DEF r, n
  <2>1. NextCell(r) \in Cell /\ NextCell(r).len <= ChunkSize
    BY <1>6
  <2> QED
    BY <1>1, <2>1, Extends DEF r, n
<1>8. Good(blob', n + 1)
  <2>1. blob'.cells[n + 1] = Sealed(blob'.prefix, n, FALSE, ChunkSize)
    BY <1>6, <1>7, Zenon
  <2>2. n + 1 <= Len(blob'.cells)
    BY <1>3, <1>7
  <2> QED
    BY <1>3, <1>7, <2>1, <2>2, GoodMore, Zenon
<1>9. PICK g \in Request : /\ g = [r EXCEPT !.index = n + 1, !.out = r.out + ChunkSize]
                           /\ g.off = r.off /\ g.out = r.out + ChunkSize
                           /\ g.index = n + 1 /\ g.prefix = r.prefix /\ g.header
                           /\ g.body = r.body
  <2> DEFINE s == [r EXCEPT !.index = n + 1, !.out = r.out + ChunkSize]
  <2>0. n + 1 \in Nat /\ r.out + ChunkSize \in Nat
    BY <1>2, <1>3
  <2>1. s \in Request
    BY <1>2, <2>0 DEF Request
  <2>2. /\ s.off = r.off /\ s.out = r.out + ChunkSize
        /\ s.index = n + 1 /\ s.prefix = r.prefix /\ s.header
        /\ s.body = r.body
    BY <1>1, <1>2 DEF Request
  <2> HIDE DEF s
  <2> QED
    BY <2>1, <2>2 DEF s
<1>10. PICK f \in Request : /\ f = Filled(g) /\ f.pc = "copy"
                            /\ f.off = g.off /\ f.out = g.out /\ f.index = g.index
                            /\ f.prefix = g.prefix /\ f.header
                            /\ f.buf <= ChunkSize
                            /\ f.buf + f.body = g.body
                            /\ f.body > 0 => f.buf = ChunkSize
                            /\ f.buf > 0
  <2>1. g.body > 0
    BY <1>1, <1>3, <1>9
  <2> QED
    BY <1>9, <2>1, FilledFacts
<1>11. f.buf \in Nat /\ f.body \in Nat
  BY DEF Request
<1>12. ChunkSize * (n + 1) = ChunkSize * n + ChunkSize /\ ChunkSize * n \in Nat
  BY <1>3, ChunkTimes
<1>13. /\ f.off + f.out = ChunkSize * (n + 1)
       /\ NewLen(f) + f.body <= Size
  BY <1>2, <1>3, <1>4, <1>9, <1>10, <1>11, <1>12 DEF NewLen
<1>14. CopyOK(f)'
  BY <1>4, <1>7, <1>8, <1>9, <1>10, <1>11, <1>13 DEF CopyOK, NewLen
<1>15. HandOK(f)' /\ OpenOK(f)' /\ SetOK(f)'
  BY <1>1, <1>4, <1>9, <1>10 DEF HandOK, OpenOK, SetOK
<1>16. req' = [req EXCEPT ![h] = f]
  BY <1>1, <1>9, <1>10
<1> QED
  BY <1>1, <1>2, <1>7, <1>14, <1>15, <1>16, StepOK DEF RequestOK

\* The end of the body: the part, or the file, is sealed.
LEMMA SealPartOK ==
  ASSUME PInv, OneWriter, NEW h \in Handlers, SealPart(h)
  PROVE  PInv'
<1> DEFINE r == req[h]
<1>1. /\ r.pc = "copy" /\ r.header /\ r.body = 0
      /\ EndsFile(r) \/ r.buf \in {0, ChunkSize}
      /\ blob' = IF r.buf = 0 THEN blob ELSE PutCell(blob, r.index, NextCell(r))
      /\ req' = [req EXCEPT ![h].pc = "set"]
      /\ UNCHANGED <<received, faults>>
  BY DEF SealPart, At, Goto, EndsPart, Aligned
<1>2. /\ received \in Nat /\ faults \in Nat /\ blob \in Blob /\ Shaped(blob) /\ StoredOK
      /\ req \in [Handlers -> Request] /\ r \in Request /\ RequestOK(r)
      /\ ChunkSize \in Nat /\ ChunkSize > 0 /\ Size \in Nat
  BY SizesAssumption DEF PInv, TypeOK
<1>3. PICK n \in Nat : n = r.index
  BY <1>2 DEF Request
<1>4. /\ r.off \in Nat /\ r.out \in Nat /\ r.buf \in Nat
      /\ ChunkSize * n \in Nat /\ ChunkSize * (n + 1) = ChunkSize * n + ChunkSize
  BY <1>2, ChunkTimes DEF Request
<1>5. /\ received < Size /\ r.off = received /\ r.prefix # 0
      /\ r.off + r.out = ChunkSize * n /\ (r.buf = 0 => r.out = 0)
  BY <1>1, <1>2, <1>3 DEF RequestOK, HandOK, CopyOK
<1>6. PICK s \in Request : /\ req' = [req EXCEPT ![h] = s]
                           /\ s.pc = "set" /\ s.off = r.off /\ NewLen(s) = NewLen(r)
  <2> DEFINE t == [r EXCEPT !.pc = "set"]
  <2>1. t \in Request
    BY <1>2 DEF Request, Steps
  <2>2. t.pc = "set" /\ t.off = r.off /\ t.out = r.out /\ t.buf = r.buf
    BY <1>2 DEF Request
  <2>3. req' = [req EXCEPT ![h] = t]
    BY <1>1, <1>2
  <2> HIDE DEF t
  <2> QED
    BY <2>1, <2>2, <2>3 DEF NewLen
<1>7. PICK l \in Nat : l = NewLen(r) /\ l = ChunkSize * n + r.buf
  BY <1>4, <1>5 DEF NewLen
<1>8. CASE r.buf = 0
  <2>1. blob' = blob /\ l = received
    BY <1>1, <1>4, <1>5, <1>7, <1>8
  <2>2. Holds(blob, l)
    BY <1>2, <1>5, <2>1 DEF StoredOK
  <2>3. StoredOK' = StoredOK /\ Shaped(blob')
    BY <1>1, <1>2, <2>1 DEF StoredOK
  <2>4. SetOK(s)'
    BY <1>2, <1>5, <1>6, <1>7, <2>1, <2>2 DEF SetOK, NewLen
  <2>5. HandOK(s)' /\ OpenOK(s)' /\ CopyOK(s)'
    BY <1>1, <1>5, <1>6 DEF HandOK, OpenOK, CopyOK
  <2> QED
    BY <1>1, <1>2, <1>6, <2>1, <2>3, <2>4, <2>5, StepOK DEF RequestOK
<1>9. CASE r.buf # 0
  <2> DEFINE c == NextCell(r)
  <2>1. /\ c \in Cell /\ c.len <= ChunkSize
        /\ ~EndsFile(r) /\ r.buf = ChunkSize => c = Sealed(r.prefix, n, FALSE, ChunkSize)
        /\ EndsFile(r) => c = Sealed(r.prefix, n, TRUE, Size - ChunkSize * n)
    BY <1>1, <1>3, NextCellFacts, Zenon
  <2>2. c \in Cell /\ c.len <= ChunkSize /\ blob' = PutCell(blob, r.index, c)
    BY <1>1, <1>9, <2>1, Zenon
  <2> HIDE DEF c
  <2>3. /\ blob' \in Blob /\ Shaped(blob') /\ StoredOK'
        /\ blob'.prefix = r.prefix /\ Len(blob'.cells) = n + 1 /\ Good(blob', n)
        /\ blob'.cells[n + 1] = c
    BY <1>1, <1>3, <2>2, Extends
  <2>4. n + 1 <= Len(blob'.cells)
    BY <2>3
  <2>5. IF l >= Size THEN Readable(blob', Size) ELSE Holds(blob', l)
    <3>1. CASE l >= Size
      <4>1. EndsFile(r)
        BY <1>1, <1>7, <3>1 DEF EndsFile, EndsPart
      <4>2. blob'.cells[n + 1] = Sealed(blob'.prefix, n, TRUE, Size - ChunkSize * n)
        BY <2>1, <2>3, <4>1, Zenon
      <4>3. blob'.prefix # 0
        BY <1>5, <2>3
      <4>4. Readable(blob', Size)
        BY <2>3, <2>4, <4>2, <4>3, FinalReadable, Zenon
      <4> QED
        BY <3>1, <4>4
    <3>2. CASE ~(l >= Size)
      <4>1. ~EndsFile(r) /\ r.buf = ChunkSize
        BY <1>1, <1>7, <1>9, <3>2 DEF EndsFile
      <4>2. blob'.cells[n + 1] = Sealed(blob'.prefix, n, FALSE, ChunkSize)
        BY <2>1, <2>3, <4>1, Zenon
      <4>3. Good(blob', n + 1)
        BY <2>3, <2>4, <4>2, GoodMore, Zenon
      <4>4. Holds(blob', ChunkSize * (n + 1))
        <5>1. n + 1 \in Nat /\ n + 1 <= n + 1 /\ blob'.prefix # 0
          BY <1>5, <2>3
        <5> QED
          BY <2>3, <4>3, <5>1, HoldsFirst
      <4>5. l = ChunkSize * (n + 1)
        BY <1>4, <1>7, <4>1
      <4> QED
        BY <3>2, <4>4, <4>5
    <3> QED
      BY <3>1, <3>2
  <2>6. NewLen(s)' = l
    BY <1>6, <1>7 DEF NewLen
  <2>7. SetOK(s)'
    BY <2>5, <2>6, Zenon DEF SetOK
  <2>8. HandOK(s)' /\ OpenOK(s)' /\ CopyOK(s)'
    BY <1>1, <1>5, <1>6 DEF HandOK, OpenOK, CopyOK
  <2> QED
    BY <1>1, <1>2, <1>6, <2>3, <2>7, <2>8, StepOK DEF RequestOK
<1> QED
  BY <1>8, <1>9

\* A part that ends inside a chunk, or whose last write fails, is cut off again.
LEMMA RolledBackOK ==
  ASSUME PInv, OneWriter, NEW h \in Handlers, req[h].pc = "copy",
         blob' = TruncateTo(blob, req[h].off \div ChunkSize),
         Return(h), UNCHANGED received, faults' \in Nat
  PROVE  PInv'
<1>1. /\ req[h].pc = "copy" /\ blob' = TruncateTo(blob, req[h].off \div ChunkSize)
      /\ Return(h) /\ UNCHANGED received /\ faults' \in Nat
  OBVIOUS
<1>2. /\ received \in Nat /\ faults \in Nat /\ blob \in Blob /\ StoredOK
      /\ RequestOK(req[h]) /\ req[h] \in Request
  BY DEF PInv, TypeOK
<1>3. received < Size /\ req[h].off = received
  BY <1>1, <1>2 DEF RequestOK, HandOK
<1>4. PICK m \in Nat : received = ChunkSize * m /\ Good(blob, m)
  BY <1>2, <1>3 DEF StoredOK, Holds
<1>5. m <= Len(blob.cells)
  BY <1>2, <1>4 DEF Good, Sealed, Blob
<1>6. blob' = TruncateTo(blob, m)
  BY <1>1, <1>3, <1>4, ChunkDiv
<1>7. ChunkSize * m >= received
  BY <1>2, <1>4
<1>8. blob' \in Blob /\ Shaped(blob') /\ StoredOK'
  BY <1>1, <1>3, <1>5, <1>6, <1>7, CutBack
<1> QED
  BY <1>1, <1>2, <1>8, ReturnOK

\* A part that is refused.
LEMMA RejectPartOK ==
  ASSUME PInv, OneWriter, NEW h \in Handlers, RejectPart(h)
  PROVE  PInv'
<1>1. faults \in Nat
  BY DEF PInv, TypeOK
<1> QED
  BY <1>1, RolledBackOK DEF RejectPart, At

\* The new length is recorded.
LEMMA SetReceivedOK ==
  ASSUME PInv, OneWriter, NEW h \in Handlers, SetReceived(h)
  PROVE  PInv'
<1>1. /\ req[h].pc = "set" /\ received' = NewLen(req[h])
      /\ Return(h) /\ UNCHANGED <<blob, faults>>
  BY DEF SetReceived, At
<1>2. /\ faults \in Nat /\ blob \in Blob /\ Shaped(blob)
      /\ RequestOK(req[h]) /\ req[h] \in Request
  BY DEF PInv, TypeOK
<1>3. PICK l \in Nat : l = NewLen(req[h])
  BY <1>2 DEF NewLen, Request
<1>4. IF l >= Size THEN Readable(blob, Size) ELSE Holds(blob, l)
  BY <1>1, <1>2, <1>3, Zenon DEF RequestOK, SetOK
<1>5. StoredOK'
  BY <1>1, <1>3, <1>4, SizesAssumption DEF StoredOK
<1> QED
  BY <1>1, <1>2, <1>3, <1>5, ReturnOK

\* Failures.
LEMMA FailsOK ==
  ASSUME PInv, OneWriter, NEW h \in Handlers, Fails(h)
  PROVE  PInv'
<1>1. /\ received \in Nat /\ faults \in Nat /\ blob \in Blob /\ Shaped(blob) /\ StoredOK
      /\ ChunkSize \in Nat
  BY SizesAssumption DEF PInv, TypeOK
<1>2. Return(h) /\ UNCHANGED received /\ faults' \in Nat
  BY <1>1 DEF Fails, BodyFails, WriteTears, FlushFails, SetFails, Fault
<1>3. CASE UNCHANGED blob
  BY <1>1, <1>2, <1>3, ReturnOK DEF StoredOK
<1>4. CASE WriteTears(h)
  <2>1. /\ req[h].pc = "copy" /\ req[h].header
        /\ blob' = PutCell(blob, req[h].index, Torn)
    BY <1>4 DEF WriteTears, At
  <2>2. Torn \in Cell /\ Torn.len <= ChunkSize
    <3>1. Hole \in Cell
      BY <1>1 DEF Hole, Cell
    <3>2. Torn \in Cell /\ Torn.len = 0
      BY <3>1 DEF Torn, Cell
    <3> QED
      BY <1>1, <3>2
  <2>3. blob' \in Blob /\ Shaped(blob') /\ StoredOK'
    BY <1>2, <2>1, <2>2, Extends
  <2> QED
    BY <1>1, <1>2, <2>3, ReturnOK
<1>5. CASE FlushFails(h)
  BY <1>2, <1>5, RolledBackOK DEF FlushFails, At
<1> QED
  BY <1>3, <1>4, <1>5 DEF Fails, BodyFails, SetFails

\* A step that leaves the file and its requests alone keeps the invariant.
LEMMA CalmOK ==
  ASSUME PInv, UNCHANGED <<received, blob, req>>, faults' \in Nat
  PROVE  PInv'
<1>1. TypeOK /\ Shaped(blob) /\ StoredOK /\ \A h \in Handlers : RequestOK(req[h])
  BY DEF PInv
<1>2. Shaped(blob)' /\ StoredOK'
  BY <1>1 DEF StoredOK
<1>3. TypeOK'
  BY <1>1 DEF TypeOK
<1>4. \A h \in Handlers : RequestOK(req[h])'
  BY <1>1 DEF RequestOK, HandOK, OpenOK, CopyOK, SetOK, NewLen
<1> QED
  BY <1>2, <1>3, <1>4 DEF PInv

\* The server is killed: the requests are gone, the file is as it was.
LEMMA CrashOK ==
  ASSUME PInv, Crash
  PROVE  PInv'
<1>1. TypeOK /\ Shaped(blob) /\ StoredOK
  BY DEF PInv
<1>2. UNCHANGED <<received, blob>> /\ req' = [h \in Handlers |-> Idle] /\ faults' \in Nat
  BY <1>1 DEF Crash, Fault, TypeOK
<1>3. Shaped(blob)' /\ StoredOK'
  BY <1>1, <1>2 DEF StoredOK
<1>4. Idle \in Request /\ Idle.pc = "idle"
  BY DEF Idle, Request, Steps
<1>5. TypeOK'
  BY <1>1, <1>2, <1>4 DEF TypeOK
<1>6. \A h \in Handlers : RequestOK(req[h])'
  BY <1>2, <1>4 DEF RequestOK, HandOK, OpenOK, CopyOK, SetOK
<1> QED
  BY <1>3, <1>5, <1>6 DEF PInv

\* What a request does next.
LEMMA ProceedOK ==
  ASSUME PInv, OneWriter, NEW h \in Handlers, Proceed(h)
  PROVE  PInv'
  BY NewWriterOK, StatBlobOK, ResumeWriterOK, WriteHeaderOK, FlushChunkOK, SealPartOK,
     RejectPartOK, SetReceivedOK DEF Proceed

-----------------------------------------------------------------------------
(***************************************************************************)
(* The composition.  What a client is told and does changes nothing on the *)
(* server, except through WriteParts.                                      *)
(***************************************************************************)

\* The file of a client that was told "done" counts as complete.
UInv == PInv /\ (state = "done" => received >= Size)

\* An upload begins with nothing on disk.
LEMMA UploadInitOK == UploadInit => UInv
<1> SUFFICES ASSUME UploadInit PROVE UInv
  OBVIOUS
<1>1. /\ received = 0 /\ blob = Empty /\ req = [h \in Handlers |-> Idle] /\ faults = 0
      /\ state = "sending"
  BY DEF UploadInit, Init
<1>2. Idle \in Request /\ Idle.pc = "idle"
  BY DEF Idle, Request, Steps
<1>3. Empty \in Blob /\ Len(Empty.cells) = 0
  BY DEF Empty, Blob
<1>4. TypeOK
  BY <1>1, <1>2, <1>3 DEF TypeOK
<1>5. Shaped(blob)
  BY <1>1, <1>3 DEF Shaped
<1>6. Good(Empty, 0) /\ ChunkSize * 0 = 0
  BY <1>3, ChunkTimes DEF Good, Sealed
<1>7. Holds(Empty, 0)
  BY <1>6 DEF Holds
<1>8. StoredOK
  BY <1>1, <1>7, SizesAssumption DEF StoredOK
<1>9. \A h \in Handlers : RequestOK(req[h])
  BY <1>1, <1>2 DEF RequestOK, HandOK, OpenOK, CopyOK, SetOK
<1> QED
  BY <1>1, <1>4, <1>5, <1>8, <1>9 DEF UInv, PInv

\* A complete file is left alone.
LEMMA CompleteStays ==
  ASSUME PInv, received >= Size, NEW h \in Handlers
  PROVE  At(h, "idle")
<1>1. received \in Nat /\ RequestOK(req[h])
  BY DEF PInv, TypeOK
<1> QED
  BY <1>1, SizesAssumption DEF RequestOK, HandOK, At

\* Every step keeps the invariant.
LEMMA UploadNextOK ==
  ASSUME UInv, OneWriter, [UploadNext]_allVars
  PROVE  UInv'
<1>1. PInv /\ received \in Nat /\ faults \in Nat /\ req \in [Handlers -> Request]
  BY DEF UInv, PInv, TypeOK
<1>2. ASSUME NEW h \in Handlers, SendPart(h) \/ SendAny(h) \/ ServePart(h)
      PROVE  PInv'
  <2>1. CASE Proceed(h)
    BY <1>1, <2>1, ProceedOK
  <2>2. ASSUME NEW off, NEW body \in Nat, WriteParts(h, off, body)
        PROVE  PInv'
    BY <1>1, <2>2, WritePartsOK
  <2>3. CASE UNCHANGED vars
    BY <1>1, <2>3, CalmOK DEF vars
  <2> QED
    BY <1>2, <2>1, <2>2, <2>3, SizesAssumption, ClientAssumption
       DEF SendPart, SendAny, ServePart
<1>3. ASSUME PartFails PROVE PInv'
  <2>1. CASE Crash
    BY <1>1, <2>1, CrashOK
  <2>2. ASSUME NEW h \in Handlers, Fails(h)
        PROVE  PInv'
    BY <1>1, <2>2, FailsOK
  <2>3. Crash \/ \E h \in Handlers : Fails(h)
    BY <1>3 DEF PartFails
  <2> QED
    BY <2>1, <2>2, <2>3
<1>4. ASSUME LoseAnswer PROVE PInv'
  <2>1. UNCHANGED <<received, blob, req>> /\ faults' \in Nat
    BY <1>1, <1>4 DEF LoseAnswer, Fault
  <2> QED
    BY <1>1, <2>1, CalmOK
<1>5. ASSUME ClientStep \/ UNCHANGED allVars PROVE PInv'
  <2>1. UNCHANGED <<received, blob, req>> /\ faults' \in Nat
    BY <1>1, <1>5 DEF ClientStep, vars, allVars
  <2> QED
    BY <1>1, <2>1, CalmOK
<1>6. PInv'
  <2>1. \/ \E h \in Handlers : SendPart(h) \/ SendAny(h) \/ ServePart(h)
        \/ PartFails \/ LoseAnswer \/ ClientStep \/ UNCHANGED allVars
    BY DEF UploadNext
  <2> QED
    BY <1>2, <1>3, <1>4, <1>5, <2>1
<1>7. received >= Size => UNCHANGED received
  <2> SUFFICES ASSUME received >= Size PROVE UNCHANGED received
    OBVIOUS
  <2>1. \A h \in Handlers : ~SetReceived(h)
    BY <1>1, CompleteStays DEF SetReceived, At
  <2>2. \A h \in Handlers : Proceed(h) => UNCHANGED received
    BY <2>1 DEF Proceed, NewWriter, StatBlob, ResumeWriter, WriteHeader, FlushChunk,
       SealPart, RejectPart
  <2>3. \A h \in Handlers : SendPart(h) \/ SendAny(h) => UNCHANGED received
    BY DEF SendPart, SendAny, WriteParts, vars
  <2>4. PartFails \/ LoseAnswer \/ ClientStep \/ UNCHANGED allVars => UNCHANGED received
    BY DEF PartFails, Crash, Fails, BodyFails, WriteTears, FlushFails, SetFails, LoseAnswer,
       ClientStep, vars, allVars
  <2> QED
    BY <2>2, <2>3, <2>4 DEF UploadNext, ServePart
<1>8. state' = "done" => state = "done" \/ received >= Size
  BY DEF UploadNext, SendPart, SendAny, ServePart, PartFails, LoseAnswer, ClientStep,
     Resynced, Advanced, Answered, Retry, FinishUpload, GoOn, GiveUp, allVars
<1> QED
  BY <1>6, <1>7, <1>8 DEF UInv

\* The invariant of the upload, for one request at a time.
THEOREM UploadInvariance == OneWriter => (UploadSpec => []UInv)
<1> SUFFICES ASSUME OneWriter PROVE UploadSpec => []UInv
  OBVIOUS
<1>1. UInv /\ [UploadNext]_allVars => UInv'
  BY UploadNextOK
<1> QED
  BY <1>1, UploadInitOK, PTL DEF UploadSpec
\* Every variable of the server's side keeps its type through every request,
\* failure and restart.
THEOREM UploadTypes == OneWriter => (UploadSpec => []TypeOK)
<1>1. UInv => TypeOK
  BY DEF UInv, PInv
<1> QED
  BY <1>1, UploadInvariance, PTL

\* What WriteParts has acknowledged is on disk, in whole chunks of the blob's own
\* prefix and in order, whatever was refused, torn, interrupted or killed since:
\* what writerAt finds there is what the next part appends to.
THEOREM AcknowledgedIsStored == OneWriter => (UploadSpec => []ReceivedIsStored)
<1>1. UInv => ReceivedIsStored
  <2> SUFFICES ASSUME UInv, received < Size,
                      NEW j \in 1..(received \div ChunkSize)
               PROVE  /\ j <= Len(blob.cells)
                      /\ blob.cells[j] = Sealed(blob.prefix, j - 1, FALSE, ChunkSize)
    BY DEF ReceivedIsStored
  <2>1. Holds(blob, received) /\ blob \in Blob
    BY DEF UInv, PInv, StoredOK, TypeOK
  <2>2. PICK n \in Nat : received = ChunkSize * n /\ Good(blob, n)
    BY <2>1 DEF Holds
  <2>3. j \in 1..n
    BY <2>2, ChunkDiv
  <2>4. n \in 0..Len(blob.cells) /\ Len(blob.cells) \in Nat
    BY <2>1, <2>2 DEF Good, Blob
  <2>5. j <= Len(blob.cells)
    BY <2>3, <2>4
  <2>6. blob.cells[j] = Sealed(blob.prefix, j - 1, FALSE, ChunkSize)
    BY <2>2, <2>3, Zenon DEF Good
  <2> QED
    BY <2>5, <2>6
<1> QED
  BY <1>1, UploadInvariance, PTL

\* A file whose received length lets Finalize publish it can be read back whole.
THEOREM CompleteIsWhole == OneWriter => (UploadSpec => []CompleteIsReadable)
<1>1. UInv => CompleteIsReadable
  BY DEF UInv, PInv, StoredOK, CompleteIsReadable
<1> QED
  BY <1>1, UploadInvariance, PTL

\* A client that FinishUpload has answered with success has the whole of its file
\* on the server's disk.
THEOREM DoneIsWhole == OneWriter => (UploadSpec => []DoneIsReadable)
<1>1. UInv => DoneIsReadable
  BY DEF UInv, PInv, StoredOK, DoneIsReadable
<1> QED
  BY <1>1, UploadInvariance, PTL

=============================================================================
