--------------------------- MODULE RangeDownload ----------------------------
(***************************************************************************)
(* One GET of a file: handleDownload and parseRange of internal/httpd over *)
(* OpenAt and Reader of internal/cryptobox.                                *)
(*                                                                         *)
(* The blob may have lost its tail, at a chunk boundary or inside a chunk, *)
(* and one of its chunks may have been damaged.  Lengths are in units of   *)
(* which ChunkSize make one chunk; sent holds the positions of the file    *)
(* whose bytes the client has been given.                                  *)
(***************************************************************************)
EXTENDS Integers, FiniteSetsExt

CONSTANTS
  ChunkSize,  \* cryptobox.ChunkSize
  Sizes,      \* sizes of the files that are asked for
  MaxPos      \* bound: the largest number in a Range header

ASSUME RangeAssumption == /\ ChunkSize \in Nat \ {0}
                          /\ Sizes \subseteq Nat
                          /\ MaxPos \in Nat

VARIABLES
  range,    \* the Range header
  size,     \* file.Size
  kept,     \* how many chunks of the blob are left, from its start
  damaged,  \* the chunks that do not authenticate any more
  pc,       \* "parse", "open", "copy", or how the response ended
  start,    \* the range that parseRange found
  end,
  next,     \* Reader.index
  out,      \* the positions Reader has decrypted and not yet handed on
  sent

vars == <<range, size, kept, damaged, pc, start, end, next, out, sent>>

\* The headers parseRange refuses by their form: a unit other than bytes, several
\* ranges, and what Cut and ParseInt cannot read, numbers of more than 63 bits
\* included.
Unsupported == {"otherUnit", "several", "unparseable"}

\* The Range header: absent, "bytes=a-b", "bytes=a-", "bytes=-a", or unsupported.
Header == [kind : {"absent"} \cup Unsupported, a : {0}, b : {0}]
          \cup [kind : {"first-last"}, a : 0..MaxPos, b : 0..MaxPos]
          \cup [kind : {"from", "suffix"}, a : 0..MaxPos, b : {0}]

\* The number of chunks of a file: CiphertextSize.
Chunks(n) == n \div ChunkSize + (IF n % ChunkSize # 0 \/ n = 0 THEN 1 ELSE 0)

\* The positions that chunk i holds.
Positions(i) == ChunkSize * i .. Min({ChunkSize * (i + 1), size}) - 1

Final(i) == i = Chunks(size) - 1

Init ==
  /\ range \in Header
  /\ size \in Sizes
  /\ kept \in 0..Chunks(size)
  /\ damaged \in {{}} \cup {{i} : i \in 0..(kept - 1)}
  /\ pc = "parse"
  /\ start = 0 /\ end = 0 /\ next = 0
  /\ out = {} /\ sent = {}

-----------------------------------------------------------------------------
\* Mutant of ParseRange: the end of a range is not cut to the size of the file.
ParseRangeLongEnd ==
  CASE range.kind = "absent" -> <<0, Max({size - 1, 0})>>
    [] range.kind = "suffix" /\ range.a > 0 ->
         <<size - Min({range.a, size}), size - 1>>
    [] range.kind = "from" /\ range.a < size -> <<range.a, size - 1>>
    [] range.kind = "first-last" /\ range.a < size /\ range.b >= range.a ->
         <<range.a, range.b>>
    [] OTHER -> <<>>

\* Mutant of ParseRange: a range that starts at the last byte is refused.
ParseRangeShort ==
  CASE range.kind = "absent" -> <<0, Max({size - 1, 0})>>
    [] range.kind = "suffix" /\ range.a > 0 ->
         <<size - Min({range.a, size}), size - 1>>
    [] range.kind = "from" /\ range.a < size - 1 -> <<range.a, size - 1>>
    [] range.kind = "first-last" /\ range.a < size - 1 /\ range.b >= range.a ->
         <<range.a, Min({range.b, size - 1})>>
    [] OTHER -> <<>>

\* parseRange: the inclusive range to send, or nothing for an error.
ParseRange ==
  CASE range.kind = "absent" -> <<0, Max({size - 1, 0})>>
    [] range.kind = "suffix" /\ range.a > 0 ->
         <<size - Min({range.a, size}), size - 1>>
    [] range.kind = "from" /\ range.a < size -> <<range.a, size - 1>>
    [] range.kind = "first-last" /\ range.a < size /\ range.b >= range.a ->
         <<range.a, Min({range.b, size - 1})>>
    [] OTHER -> <<>>

\* handleDownload up to OpenTicket.
Parse ==
  /\ pc = "parse"
  /\ \/ /\ ParseRange = <<>>
        /\ pc' = "refused"
        /\ UNCHANGED <<start, end>>
     \/ /\ ParseRange # <<>>
        /\ start' = ParseRange[1]
        /\ end' = ParseRange[2]
        /\ pc' = "open"
  /\ UNCHANGED <<range, size, kept, damaged, next, out, sent>>

\* Reader.fill decrypts chunk i, if it is there and authenticates.
Fills(i) == i < kept /\ i \notin damaged

\* Mutant of Open: the part of the chunk before the offset is not dropped.
OpenWithoutDiscard ==
  /\ pc = "open"
  /\ next' = start \div ChunkSize
  /\ pc' = "copy"
  /\ UNCHANGED <<range, size, kept, damaged, start, end, out, sent>>

\* OpenAt: seek to the chunk of the offset, and decrypt and drop what comes
\* before it.  An error is still answered with an error page.
Open ==
  /\ pc = "open"
  /\ LET i == start \div ChunkSize
     IN  \/ /\ start % ChunkSize = 0
            /\ next' = i
            /\ pc' = "copy"
            /\ UNCHANGED out
         \/ /\ start % ChunkSize # 0
            /\ Fills(i)
            /\ next' = i + 1
            /\ out' = {p \in Positions(i) : p >= start}
            /\ pc' = "copy"
         \/ /\ start % ChunkSize # 0
            /\ ~Fills(i)
            /\ pc' = "failed"
            /\ UNCHANGED <<next, out>>
  /\ UNCHANGED <<range, size, kept, damaged, start, end, sent>>

\* Mutant of Length: the last byte of the range is forgotten.
LengthShort == end - start

\* Content-Length, and what CopyN has yet to hand on.
Length == end - start + 1
Left == Length - Cardinality(sent)

\* The first n of a set of positions.
FirstOf(n, s) == {p \in s : Cardinality({q \in s : q < p}) < n}

\* CopyN hands on what Reader holds.
Copy ==
  /\ pc = "copy"
  /\ Left > 0
  /\ out # {}
  /\ sent' = sent \cup FirstOf(Left, out)
  /\ out' = {}
  /\ UNCHANGED <<range, size, kept, damaged, pc, start, end, next>>

\* Reader.fill for the next chunk.  A stream that ends without its final chunk,
\* and a chunk that does not authenticate, are errors; so is the end of the
\* stream while CopyN still wants bytes.  The headers are gone by now: the
\* transfer is cut.
Fill ==
  /\ pc = "copy"
  /\ Left > 0
  /\ out = {}
  /\ IF next < Chunks(size) /\ Fills(next)
     THEN /\ out' = Positions(next)
          /\ next' = next + 1
          /\ pc' = IF Final(next) /\ Positions(next) = {} THEN "cut" ELSE "copy"
     ELSE pc' = "cut" /\ UNCHANGED <<out, next>>
  /\ UNCHANGED <<range, size, kept, damaged, start, end, sent>>

\* CopyN has handed on Content-Length bytes.
Done ==
  /\ pc = "copy"
  /\ Left = 0
  /\ pc' = "done"
  /\ UNCHANGED <<range, size, kept, damaged, start, end, next, out, sent>>

Next == Parse \/ Open \/ Copy \/ Fill \/ Done

Spec == Init /\ [][Next]_vars /\ WF_vars(Next)

-----------------------------------------------------------------------------
\* What the absent header and a single range of bytes ask for, as HTTP defines it.
Asked ==
  {p \in 0..(size - 1) :
     \/ range.kind = "absent"
     \/ range.kind = "from" /\ p >= range.a
     \/ range.kind = "suffix" /\ p >= size - range.a
     \/ range.kind = "first-last" /\ p >= range.a /\ p <= range.b}

\* A download that ends well has given the client exactly the bytes it asked
\* for, and announced as many, whatever the blob has lost: a stream cut short
\* never passes for a shorter file (parseRange, OpenAt, Reader).
DoneIsExact ==
  pc = "done" => sent = Asked /\ Length = Cardinality(Asked)

\* Until then it has given nothing else, and nothing from a chunk that does not
\* authenticate.
NothingElseSent ==
  sent \subseteq Asked \ UNION {Positions(i) : i \in damaged}

\* A single range of bytes that parseRange can read is refused with 416 only if
\* no byte of the file is in it, and a request without a Range header never is.
\* (It refuses every header it does not support, those that HTTP allows, and the
\* ones its comment calls ignorable, included.)
RefusedIsEmpty ==
  pc = "refused" /\ range.kind \notin Unsupported
    => range.kind # "absent" /\ Asked = {}

\* A file whose blob is whole is never cut off: every download of it ends well
\* or is refused, but for the empty file asked for without a Range header, which
\* parseRange makes one byte long.
WholeFileCompletes ==
  kept = Chunks(size) /\ damaged = {} /\ ~(size = 0 /\ range.kind = "absent")
    => <>(pc \in {"done", "refused"})

=============================================================================
