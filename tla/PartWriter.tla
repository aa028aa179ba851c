----------------------------- MODULE PartWriter -----------------------------
(***************************************************************************)
(* One file of an upload: WriteParts and writerAt of internal/service over *)
(* the sealing Writer, InspectPartial and AlignDown of internal/cryptobox. *)
(*                                                                         *)
(* Every PATCH runs in a goroutine of its own.  It takes one step per      *)
(* system call on the blob and one per SQL statement, and it can be cut    *)
(* short between them: the body stops, a write tears, SetReceived fails    *)
(* because the client is gone, or the process is killed.                   *)
(*                                                                         *)
(* Lengths are in units of which ChunkSize make one chunk.  A blob is its  *)
(* header, which holds the nonce prefix, and a sequence of cells, one per  *)
(* sealed chunk: every cell but the last is ChunkSize long, so cells and   *)
(* byte offsets stand for each other.  A cell's contents are given by the  *)
(* nonce it was sealed with and by where in the client's file its bytes    *)
(* come from.                                                              *)
(***************************************************************************)
EXTENDS Naturals, Sequences, FiniteSetsExt

CONSTANTS
  Handlers,   \* concurrent PATCH requests for the file
  ChunkSize,  \* cryptobox.ChunkSize
  Size,       \* file.Size
  Bodies,     \* lengths of the bodies the clients send
  Prefixes,   \* nonce prefixes, of which 0 is none
  MaxFaults   \* bound: failures of any kind

ASSUME SizesAssumption == /\ ChunkSize \in Nat \ {0}
                          /\ Size \in Nat \ {0}
                          /\ Bodies \subseteq Nat
                          /\ MaxFaults \in Nat
ASSUME PrefixesAssumption == Prefixes \subseteq Nat \ {0}

VARIABLES
  received,   \* files.received
  blob,       \* the file on disk
  req,        \* the requests being served
  faults      \* failures so far

vars == <<received, blob, req, faults>>

-----------------------------------------------------------------------------
(***************************************************************************)
(* The blob.  A cell with prefix 0 authenticates under no key: a hole, a   *)
(* torn write, or the mixture two writers leave.                           *)
(***************************************************************************)
Cell == [prefix : Prefixes \cup {0}, index : Nat, final : BOOLEAN,
         from : Nat, len : Nat]

Hole == [prefix |-> 0, index |-> 0, final |-> FALSE, from |-> 0, len |-> ChunkSize]
Torn == [Hole EXCEPT !.len = 0]

\* The cell that belongs at index i of a blob with this prefix.
Sealed(p, i, f, n) ==
  [prefix |-> p, index |-> i, final |-> f, from |-> ChunkSize * i, len |-> n]

Blob == [header : BOOLEAN, prefix : Prefixes \cup {0}, cells : Seq(Cell)]
Empty == [header |-> FALSE, prefix |-> 0, cells |-> <<>>]

\* pwrite of a cell at index i: what lies between the end of the file and i
\* reads as zeros, and a cell shorter than what it overwrites leaves a mixture.
PutCell(b, i, c) ==
  LET old == Len(b.cells)
      Longer(j) == IF j < old THEN ChunkSize ELSE b.cells[j].len
      Cut(j) == j = old /\ b.cells[j].len < ChunkSize
  IN  [b EXCEPT
        !.header = TRUE,
        !.cells = [j \in 1..Max({old, i + 1}) |->
                     IF j = i + 1
                     THEN IF j <= old /\ Longer(j) > c.len
                          THEN [Hole EXCEPT !.len = Longer(j)]
                          ELSE c
                     ELSE IF j > old \/ (Cut(j) /\ j <= i) THEN Hole
                     ELSE b.cells[j]]]

\* The whole chunks of a blob: what AlignDown keeps of its length.
WholeCells(b) == Cardinality({j \in DOMAIN b.cells : b.cells[j].len = ChunkSize})

\* aligned == info.Size(): AlignDown would keep all of the blob.
IsAligned(b) == b.header /\ WholeCells(b) = Len(b.cells)

\* Truncate to n whole chunks after the header.  A file shorter than its header
\* grows to that length, with zeros in it.
TruncateTo(b, n) ==
  [b EXCEPT !.header = TRUE,
            !.cells = [j \in 1..n |-> IF j <= Len(@) THEN @[j] ELSE Hole]]

\* What Reader yields for the blob is the whole file, of n units: every chunk
\* authenticates under the header's prefix and its own index, and the last one
\* carries the final flag.
Readable(b, n) ==
  /\ b.prefix # 0
  /\ \E last \in 1..Len(b.cells) :
       /\ \A j \in 1..(last - 1) :
            b.cells[j] = Sealed(b.prefix, j - 1, FALSE, ChunkSize)
       /\ b.cells[last] = Sealed(b.prefix, last - 1, TRUE,
                                 n - ChunkSize * (last - 1))

-----------------------------------------------------------------------------
(***************************************************************************)
(* A request: its Upload-Offset, the units of its body not yet read, and   *)
(* the Writer it makes (buffered units, units sealed, next index, prefix,  *)
(* and whether the header is on disk).  stat is the length writerAt has    *)
(* seen, in whole chunks, and torn that it was not AlignDown's.            *)
(***************************************************************************)
Idle == [pc |-> "idle", off |-> 0, body |-> 0, buf |-> 0, out |-> 0, index |-> 0,
         prefix |-> 0, header |-> FALSE, stat |-> 0, torn |-> FALSE]

Steps == {"idle", "open", "inspect", "copy", "set"}

Request == [pc : Steps, off : Nat, body : Nat, buf : Nat, out : Nat, index : Nat,
            prefix : Prefixes \cup {0}, header : BOOLEAN, stat : Nat, torn : BOOLEAN]

At(h, step) == req[h].pc = step
Goto(h, step) == req' = [req EXCEPT ![h].pc = step]
Return(h) == req' = [req EXCEPT ![h] = Idle]

\* Mutant of Filled: the buffer is filled past the end of the body.
FilledPastEnd(r) ==
  [r EXCEPT !.pc = "copy", !.buf = ChunkSize, !.body = @ - ChunkSize]

\* The Writer reads the body into its buffer, up to a whole chunk.
Filled(r) ==
  LET n == Min({ChunkSize, r.body})
  IN  [r EXCEPT !.pc = "copy", !.buf = n, !.body = @ - n]

\* newLen, once the body is read: offset + n.
NewLen(r) == r.off + r.out + r.buf

Init ==
  /\ received = 0
  /\ blob = Empty
  /\ req = [h \in Handlers |-> Idle]
  /\ faults = 0

\* Mutant of Accepts: the offset is not compared with the stored length.
AcceptsAnyOffset(off) == received < Size

\* A complete file is only acknowledged, and OffsetMismatch answers an offset
\* other than the stored length.
Accepts(off) == received < Size /\ off = received

\* WriteParts up to the open.  The body is capped at what the file still needs.
WriteParts(h, off, body) ==
  /\ At(h, "idle")
  /\ Accepts(off)
  /\ req' = [req EXCEPT ![h] = [Idle EXCEPT !.pc = "open", !.off = off,
                                            !.body = Min({body, Size - off})]]
  /\ UNCHANGED <<received, blob, faults>>

\* writerAt at offset 0: truncate, and a Writer with a prefix of its own.
NewWriter(h) ==
  /\ At(h, "open")
  /\ req[h].off = 0
  /\ \E p \in Prefixes :
       /\ p # blob.prefix
       /\ \A j \in DOMAIN blob.cells : p # blob.cells[j].prefix
       /\ \A g \in Handlers : p # req[g].prefix
       /\ req' = [req EXCEPT ![h] = [Filled(@) EXCEPT !.prefix = p]]
  /\ blob' = Empty
  /\ UNCHANGED <<received, faults>>

\* writerAt at another offset: Stat.
StatBlob(h) ==
  /\ At(h, "open")
  /\ req[h].off > 0
  /\ req' = [req EXCEPT ![h].pc = "inspect", ![h].stat = WholeCells(blob),
                         ![h].torn = ~IsAligned(blob)]
  /\ UNCHANGED <<received, blob, faults>>

\* Mutant of Resumable: the length on disk is not compared with the offset.
ResumableAnyLength(n, off) == blob.prefix # 0

\* What InspectPartial says of a blob cut to n whole chunks.
Resumable(n, off) == blob.prefix # 0 /\ ChunkSize * n = off

\* ... a torn tail that Stat has shown is cut off, InspectPartial reads the prefix back and the
\* length is compared with the offset: OffsetMismatch and ErrCorrupt end the
\* request, otherwise NewResumeWriter goes on.
ResumeWriter(h) ==
  /\ At(h, "inspect")
  /\ blob' = IF req[h].torn THEN TruncateTo(blob, req[h].stat) ELSE blob
  /\ IF Resumable(req[h].stat, req[h].off)
     THEN req' = [req EXCEPT ![h] = [Filled(@) EXCEPT !.prefix = blob.prefix,
                                                      !.index = req[h].stat,
                                                      !.header = TRUE]]
     ELSE Return(h)
  /\ UNCHANGED <<received, faults>>

\* What Writer seals next, and whether that ends the part: a full buffer goes
\* out only when more data follows; the end of the file is sealed by Close, with
\* the final flag, and the end of a part by FlushFull, which wants whole chunks.
EndsPart(r) == r.body = 0
EndsFile(r) == EndsPart(r) /\ NewLen(r) >= Size
Aligned(r) == r.buf \in {0, ChunkSize}

\* Mutant of NextCell: no chunk is sealed as the last one.
NextCellNeverFinal(r) ==
  [prefix |-> r.prefix, index |-> r.index, final |-> FALSE,
   from |-> r.off + r.out, len |-> r.buf]

NextCell(r) == [prefix |-> r.prefix, index |-> r.index, final |-> EndsFile(r),
                from |-> r.off + r.out, len |-> r.buf]

\* The header goes out before the first chunk.
WriteHeader(h) ==
  /\ At(h, "copy")
  /\ ~req[h].header
  /\ EndsPart(req[h]) => EndsFile(req[h]) \/ Aligned(req[h])
  /\ blob' = [blob EXCEPT !.header = TRUE, !.prefix = req[h].prefix]
  /\ req' = [req EXCEPT ![h].header = TRUE]
  /\ UNCHANGED <<received, faults>>

\* flush of a chunk that more of the body follows.
FlushChunk(h) ==
  /\ At(h, "copy")
  /\ req[h].header
  /\ ~EndsPart(req[h])
  /\ blob' = PutCell(blob, req[h].index, NextCell(req[h]))
  /\ req' = [req EXCEPT ![h] = Filled([req[h] EXCEPT !.index = @ + 1,
                                                     !.out = @ + ChunkSize])]
  /\ UNCHANGED <<received, faults>>

\* The end of the body: Close for the end of the file, FlushFull for a part of
\* whole chunks, and then Sync.
SealPart(h) ==
  /\ At(h, "copy")
  /\ req[h].header
  /\ EndsPart(req[h])
  /\ EndsFile(req[h]) \/ Aligned(req[h])
  /\ blob' = IF req[h].buf = 0 THEN blob
             ELSE PutCell(blob, req[h].index, NextCell(req[h]))
  /\ Goto(h, "set")
  /\ UNCHANGED <<received, faults>>

\* A part that ends inside a chunk and not at the end of the file is refused,
\* and the blob is cut back to what it held before.
RejectPart(h) ==
  /\ At(h, "copy")
  /\ EndsPart(req[h])
  /\ ~EndsFile(req[h])
  /\ ~Aligned(req[h])
  /\ blob' = TruncateTo(blob, req[h].off \div ChunkSize)
  /\ Return(h)
  /\ UNCHANGED <<received, faults>>

\* The new length is recorded, and acknowledged to the client.
SetReceived(h) ==
  /\ At(h, "set")
  /\ received' = NewLen(req[h])
  /\ Return(h)
  /\ UNCHANGED <<blob, faults>>

-----------------------------------------------------------------------------
(***************************************************************************)
(* Failures.                                                               *)
(***************************************************************************)
Fault == faults < MaxFaults /\ faults' = faults + 1

\* The body stops before its end: io.Copy returns the error, and what has been
\* sealed stays.
BodyFails(h) ==
  /\ Fault
  /\ At(h, "copy")
  /\ Return(h)
  /\ UNCHANGED <<received, blob>>

\* A chunk is written in part, and stays so: the disk is full while io.Copy or
\* Close writes, or the process is killed.
WriteTears(h) ==
  /\ Fault
  /\ At(h, "copy")
  /\ req[h].header
  /\ req[h].buf > 0
  /\ blob' = PutCell(blob, req[h].index, Torn)
  /\ Return(h)
  /\ UNCHANGED received

\* A write of FlushFull fails, for want of space: the blob is cut back as for a
\* part that is refused.
FlushFails(h) ==
  /\ Fault
  /\ At(h, "copy")
  /\ EndsPart(req[h]) /\ ~EndsFile(req[h]) /\ Aligned(req[h])
  /\ blob' = TruncateTo(blob, req[h].off \div ChunkSize)
  /\ Return(h)
  /\ UNCHANGED received

\* Sync fails, or SetReceived does because the client has gone away.
SetFails(h) ==
  /\ Fault
  /\ At(h, "set")
  /\ Return(h)
  /\ UNCHANGED <<received, blob>>

\* The server process is killed and started again.
Crash ==
  /\ Fault
  /\ \E h \in Handlers : ~At(h, "idle")
  /\ req' = [h \in Handlers |-> Idle]
  /\ UNCHANGED <<received, blob>>

-----------------------------------------------------------------------------
Proceed(h) ==
  \/ NewWriter(h) \/ StatBlob(h) \/ ResumeWriter(h)
  \/ WriteHeader(h) \/ FlushChunk(h) \/ SealPart(h) \/ RejectPart(h)
  \/ SetReceived(h)

Fails(h) == BodyFails(h) \/ WriteTears(h) \/ FlushFails(h) \/ SetFails(h)

\* Clients may send any body at any offset at any time.
Next ==
  \/ \E h \in Handlers :
       \/ \E off \in 0..Size, body \in Bodies : WriteParts(h, off, body)
       \/ Proceed(h)
       \/ Fails(h)
  \/ Crash

Spec == Init /\ [][Next]_vars

-----------------------------------------------------------------------------
(***************************************************************************)
(* Properties.                                                             *)
(***************************************************************************)

\* Every variable keeps its type.
TypeOK ==
  /\ received \in Nat
  /\ blob \in Blob
  /\ req \in [Handlers -> Request]
  /\ faults \in Nat

\* What the server has acknowledged is on disk: whatever was refused, torn,
\* interrupted or killed since, the chunks that received counts are the first
\* ones of the blob, sealed under its own prefix and in order, so that a
\* resumed upload appends to a good stream (WriteParts, writerAt).
ReceivedIsStored ==
  received < Size =>
    \A j \in 1..(received \div ChunkSize) :
      /\ j <= Len(blob.cells)
      /\ blob.cells[j] = Sealed(blob.prefix, j - 1, FALSE, ChunkSize)

\* A file that counts as complete, which is all that Finalize asks, can be read
\* back whole: it is never a half-uploaded one.
CompleteIsReadable == received >= Size => Readable(blob, Size)

=============================================================================
