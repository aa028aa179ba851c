------------------------ MODULE RangeDownloadProofs -------------------------
(***************************************************************************)
(* Proofs about RangeDownload, for files, chunks and ranges of any size    *)
(* and any damage.                                                         *)
(***************************************************************************)
EXTENDS RangeDownload, FiniteSetTheorems, TLAPS

\* Where chunk i begins, or the file ends.
Bound(i) == IF ChunkSize * i < size THEN ChunkSize * i ELSE size

\* How far the client has been served.
Cursor == start + Cardinality(sent)

\* A set of positions holds nothing of a chunk that does not authenticate.
Clean(s) == \A i \in damaged : s \cap Positions(i) = {}

TypeInv ==
  /\ range \in Header
  /\ size \in Nat /\ kept \in Nat /\ damaged \subseteq Nat
  /\ pc \in {"parse", "open", "copy", "refused", "failed", "cut", "done"}
  /\ start \in Nat /\ end \in Int /\ next \in Nat

\* What parseRange has found is what the header asks for, except that it finds
\* one byte in an empty file.
Overlong == size = 0 /\ start = 0 /\ end = 0
RangeOK ==
  \/ Overlong
  \/ start <= end + 1 /\ end < size /\ Asked = start..end

\* The client has the first bytes of the range and nothing else.
SentOK ==
  /\ sent = start..(Cursor - 1)
  /\ Cursor \in Nat
  /\ Cursor <= end + 1
  /\ Overlong => sent = {}
  /\ Clean(sent)

\* Reader holds what follows, up to the chunk it reads next; it has thrown the
\* rest away once CopyN has enough.
OutOK ==
  /\ \/ Cursor <= Bound(next) /\ out = Cursor..(Bound(next) - 1)
     \/ Cursor = end + 1 /\ out = {}
  /\ Clean(out)

IInv ==
  /\ TypeInv
  /\ RefusedIsEmpty
  /\ pc \in {"parse", "refused", "open", "failed"} => sent = {} /\ out = {}
  /\ pc \in {"open", "copy", "cut", "done"} => RangeOK
  /\ pc \in {"copy", "cut", "done"} => SentOK
  /\ pc = "copy" => OutOK
  /\ pc = "done" => Length = Cardinality(sent)

-----------------------------------------------------------------------------
(***************************************************************************)
(* Arithmetic.                                                             *)
(***************************************************************************)

\* The smaller and the larger of two numbers.
LEMMA MinMax ==
  ASSUME NEW a \in Int, NEW b \in Int
  PROVE  /\ Min({a, b}) = IF a <= b THEN a ELSE b
         /\ Max({a, b}) = IF a <= b THEN b ELSE a
  BY DEF Min, Max

\* A chunk ends where the next one begins, at the latest.
LEMMA ChunkOrder ==
  ASSUME NEW i \in Nat, NEW j \in Nat, i < j
  PROVE  /\ ChunkSize * i \in Nat
         /\ ChunkSize * (i + 1) = ChunkSize * i + ChunkSize
         /\ ChunkSize * (i + 1) <= ChunkSize * j
<1> USE RangeAssumption
<1>1. ChunkSize * i \in Nat /\ ChunkSize * (i + 1) = ChunkSize * i + ChunkSize
  OBVIOUS
<1>2. PICK d \in Nat : j = i + 1 + d
  <2>1. j - (i + 1) \in Nat /\ j = i + 1 + (j - (i + 1))
    OBVIOUS
  <2> QED
    BY <2>1
<1>3. ChunkSize * j = ChunkSize * (i + 1) + ChunkSize * d /\ ChunkSize * d \in Nat
  BY <1>2
<1> QED
  BY <1>1, <1>3

\* The positions of a chunk lie between two bounds.
LEMMA PositionsFacts ==
  ASSUME size \in Nat, NEW i \in Nat
  PROVE  /\ Positions(i) = ChunkSize * i .. (Bound(i + 1) - 1)
         /\ Bound(i) \in Nat /\ Bound(i) <= size
         /\ Bound(i) <= Bound(i + 1)
<1> USE RangeAssumption
<1>1. /\ ChunkSize * i \in Nat /\ ChunkSize * (i + 1) \in Nat
      /\ ChunkSize * (i + 1) = ChunkSize * i + ChunkSize
  OBVIOUS
<1>2. Min({ChunkSize * (i + 1), size}) = Bound(i + 1)
  BY <1>1, MinMax DEF Bound
<1> QED
  BY <1>1, <1>2 DEF Positions, Bound

\* No position is in two chunks.
LEMMA ChunksDisjoint ==
  ASSUME size \in Nat, NEW i \in Nat, NEW j \in Nat, i # j
  PROVE  Positions(i) \cap Positions(j) = {}
<1>1. ASSUME NEW a \in Nat, NEW b \in Nat, a < b
      PROVE  Positions(a) \cap Positions(b) = {}
  <2>1. /\ Positions(a) = ChunkSize * a .. (Bound(a + 1) - 1)
        /\ Positions(b) = ChunkSize * b .. (Bound(b + 1) - 1)
        /\ Bound(a + 1) \in Nat /\ Bound(b + 1) \in Nat
    <3>1. a + 1 \in Nat /\ b + 1 \in Nat
      OBVIOUS
    <3>2. Bound(a + 1) \in Nat /\ Bound(b + 1) \in Nat
      BY <3>1, PositionsFacts
    <3> QED
      BY <3>2, PositionsFacts
  <2>2. ChunkSize * a \in Nat /\ ChunkSize * b \in Nat /\ ChunkSize * (a + 1) \in Nat
    BY RangeAssumption
  <2>3. ChunkSize * (a + 1) <= ChunkSize * b
    BY <1>1, ChunkOrder
  <2>4. Bound(a + 1) <= ChunkSize * (a + 1)
    BY <2>2 DEF Bound
  <2> QED
    BY <2>1, <2>2, <2>3, <2>4
<1> QED
  BY <1>1

\* The chunk of a position, and where in it the position lies.
LEMMA Division ==
  ASSUME NEW n \in Nat
  PROVE  /\ n \div ChunkSize \in Nat
         /\ ChunkSize * (n \div ChunkSize) \in Nat
         /\ ChunkSize * (n \div ChunkSize) <= n
         /\ n < ChunkSize * (n \div ChunkSize) + ChunkSize
         /\ n % ChunkSize = n - ChunkSize * (n \div ChunkSize)
<1> USE RangeAssumption
<1>1. n \div ChunkSize \in Nat
  OBVIOUS
<1>2. ChunkSize * (n \div ChunkSize) \in Nat
  BY <1>1
<1>3. ChunkSize * (n \div ChunkSize) <= n
  OBVIOUS
<1>4. n < ChunkSize * (n \div ChunkSize) + ChunkSize
  OBVIOUS
<1>5. n % ChunkSize = n - ChunkSize * (n \div ChunkSize)
  OBVIOUS
<1> QED
  BY <1>1, <1>2, <1>3, <1>4, <1>5

\* The first n positions of an interval.
LEMMA FirstOfInterval ==
  ASSUME NEW a \in Nat, NEW b \in Nat, NEW n \in Nat, a <= b
  PROVE  FirstOf(n, a..(b - 1)) = IF b <= a + n THEN a..(b - 1) ELSE a..(a + n - 1)
<1>1. \A p \in a..(b - 1) : Cardinality({q \in a..(b - 1) : q < p}) = p - a
  <2> SUFFICES ASSUME NEW p \in a..(b - 1)
               PROVE  Cardinality({q \in a..(b - 1) : q < p}) = p - a
    OBVIOUS
  <2>1. {q \in a..(b - 1) : q < p} = a..(p - 1)
    OBVIOUS
  <2>2. p - 1 \in Int /\ a <= p
    OBVIOUS
  <2>3. Cardinality(a..(p - 1)) = IF a > p - 1 THEN 0 ELSE (p - 1) - a + 1
    BY <2>2, FS_Interval
  <2>4. Cardinality(a..(p - 1)) = p - a
    BY <2>2, <2>3
  <2> QED
    BY <2>1, <2>4
<1>2. FirstOf(n, a..(b - 1)) = {p \in a..(b - 1) : p - a < n}
  BY <1>1 DEF FirstOf
<1>3. CASE b <= a + n
  <2>1. {p \in a..(b - 1) : p - a < n} = a..(b - 1)
    BY <1>3
  <2> QED
    BY <1>2, <1>3, <2>1
<1>4. CASE ~(b <= a + n)
  <2>1. {p \in a..(b - 1) : p - a < n} = a..(a + n - 1)
    BY <1>4
  <2> QED
    BY <1>2, <1>4, <2>1
<1> QED
  BY <1>3, <1>4

-----------------------------------------------------------------------------
(***************************************************************************)
(* parseRange.                                                             *)
(***************************************************************************)

\* The range is refused only if it is unsupported or asks for nothing; otherwise
\* what is found is what is asked for.
LEMMA ParseRangeOK ==
  ASSUME TypeInv
  PROVE  \/ /\ ParseRange = <<>>
            /\ range.kind \in Unsupported \/ (range.kind # "absent" /\ Asked = {})
         \/ \E s \in Nat, e \in Int :
              /\ ParseRange = <<s, e>>
              /\ \/ size = 0 /\ s = 0 /\ e = 0
                 \/ s <= e + 1 /\ e < size /\ Asked = s..e
<1>1. /\ size \in Nat
      /\ range.kind \in {"absent", "first-last", "from", "suffix"} \cup Unsupported
      /\ range.a \in Nat /\ range.b \in Nat
  BY RangeAssumption DEF TypeInv, Header
<1>2. CASE range.kind = "absent"
  <2>1. ParseRange = <<0, IF size = 0 THEN 0 ELSE size - 1>>
    <3>1. Max({size - 1, 0}) = IF size = 0 THEN 0 ELSE size - 1
      <4>1. size - 1 \in Int /\ 0 \in Int
        BY <1>1
      <4>2. Max({size - 1, 0}) = IF size - 1 <= 0 THEN 0 ELSE size - 1
        BY <4>1, MinMax
      <4> QED
        BY <1>1, <4>2
    <3> QED
      BY <1>2, <3>1 DEF ParseRange
  <2>2. Asked = 0..(size - 1)
    BY <1>2 DEF Asked
  <2> QED
    BY <1>1, <2>1, <2>2
<1>3. CASE range.kind \in Unsupported
  <2>1. range.kind \notin {"absent", "suffix", "from", "first-last"}
    BY <1>3 DEF Unsupported
  <2>2. ParseRange = <<>>
    BY <2>1 DEF ParseRange
  <2>3. range.kind \in Unsupported
    BY <1>3
  <2> QED
    BY <2>2, <2>3
<1>4. CASE range.kind = "suffix"
  <2>1. Asked = {p \in 0..(size - 1) : p >= size - range.a}
    BY <1>4 DEF Asked
  <2>2. CASE range.a > 0
    <3> DEFINE s == size - (IF range.a <= size THEN range.a ELSE size)
    <3>1. ParseRange = <<s, size - 1>>
      BY <1>1, <1>4, <2>2, MinMax DEF ParseRange
    <3>2. s \in Nat /\ s <= size /\ Asked = s..(size - 1)
      BY <1>1, <2>1, <2>2
    <3> HIDE DEF s
    <3> QED
      BY <1>1, <3>1, <3>2
  <2>3. CASE range.a = 0
    BY <1>1, <1>4, <2>1, <2>3 DEF ParseRange
  <2> QED
    BY <1>1, <2>2, <2>3
<1>5. CASE range.kind = "from"
  <2>1. Asked = {p \in 0..(size - 1) : p >= range.a}
    BY <1>5 DEF Asked
  <2>2. CASE range.a < size
    <3>1. ParseRange = <<range.a, size - 1>>
      BY <1>1, <1>5, <2>2 DEF ParseRange
    <3>2. Asked = range.a..(size - 1)
      BY <1>1, <2>1, <2>2
    <3> QED
      BY <1>1, <2>2, <3>1, <3>2
  <2>3. CASE range.a >= size
    BY <1>1, <1>5, <2>1, <2>3 DEF ParseRange
  <2> QED
    BY <1>1, <2>2, <2>3
<1>6. CASE range.kind = "first-last"
  <2>1. Asked = {p \in 0..(size - 1) : p >= range.a /\ p <= range.b}
    BY <1>6 DEF Asked
  <2>2. CASE range.a < size /\ range.b >= range.a
    <3> DEFINE e == IF range.b <= size - 1 THEN range.b ELSE size - 1
    <3>1. ParseRange = <<range.a, e>>
      BY <1>1, <1>6, <2>2, MinMax DEF ParseRange
    <3>2. e \in Int /\ e < size /\ range.a <= e + 1 /\ Asked = range.a..e
      BY <1>1, <2>1, <2>2
    <3> HIDE DEF e
    <3> QED
      BY <1>1, <3>1, <3>2
  <2>3. CASE ~(range.a < size /\ range.b >= range.a)
    <3>1. ParseRange = <<>>
      BY <1>1, <1>6, <2>3 DEF ParseRange
    <3>2. Asked = {}
      BY <1>1, <2>1, <2>3
    <3> QED
      BY <1>6, <3>1, <3>2
  <2> QED
    BY <2>2, <2>3
<1> QED
  BY <1>1, <1>2, <1>3, <1>4, <1>5, <1>6

-----------------------------------------------------------------------------
(***************************************************************************)
(* The steps.                                                              *)
(***************************************************************************)

\* The number of positions from a to b.
LEMMA IntervalSize ==
  ASSUME NEW a \in Nat, NEW b \in Int, a <= b + 1
  PROVE  Cardinality(a..b) = b + 1 - a
  BY FS_Interval

\* A request that starts has sent and found nothing.
LEMMA InitOK ==
  Init => IInv
<1> SUFFICES ASSUME Init
             PROVE  IInv
  OBVIOUS
<1>1. Chunks(size) \in Nat
  <2>1. size \in Nat
    BY RangeAssumption DEF Init
  <2>2. size \div ChunkSize \in Nat
    BY <2>1, Division
  <2> QED
    BY <2>2 DEF Chunks
<1>2. kept \in Nat /\ damaged \subseteq Nat
  BY <1>1 DEF Init
<1> QED
  BY <1>2, RangeAssumption DEF Init, IInv, TypeInv, RefusedIsEmpty

\* parseRange refuses the request or finds what it asks for.
LEMMA ParseStep ==
  IInv /\ Parse => IInv'
<1> SUFFICES ASSUME IInv, Parse
             PROVE  IInv'
  OBVIOUS
<1>1. /\ TypeInv /\ sent = {} /\ out = {} /\ pc = "parse"
      /\ UNCHANGED <<range, size, kept, damaged, next, out, sent>>
  BY DEF IInv, Parse
<1>2. Asked' = Asked
  BY <1>1 DEF Asked
<1>3. CASE ParseRange = <<>>
  <2>1. pc' = "refused" /\ start' = start /\ end' = end
    BY <1>3 DEF Parse
  <2>2. range.kind \in Unsupported \/ (range.kind # "absent" /\ Asked = {})
    BY <1>1, <1>3, ParseRangeOK
  <2> QED
    BY <1>1, <1>2, <2>1, <2>2 DEF IInv, TypeInv, RefusedIsEmpty
<1>4. CASE ParseRange # <<>>
  <2>1. PICK s \in Nat, e \in Int :
              /\ ParseRange = <<s, e>>
              /\ \/ size = 0 /\ s = 0 /\ e = 0
                 \/ s <= e + 1 /\ e < size /\ Asked = s..e
    BY <1>1, <1>4, ParseRangeOK
  <2>2. pc' = "open" /\ start' = s /\ end' = e
    BY <1>4, <2>1 DEF Parse
  <2>3. RangeOK'
    BY <1>1, <1>2, <2>1, <2>2 DEF RangeOK, Overlong
  <2> QED
    BY <1>1, <2>1, <2>2, <2>3 DEF IInv, TypeInv, RefusedIsEmpty
<1> QED
  BY <1>3, <1>4

\* What a step that leaves the request, the file and the range alone keeps.
LEMMA Kept ==
  ASSUME UNCHANGED <<range, size, kept, damaged, start, end>>
  PROVE  /\ Asked' = Asked /\ RangeOK' = RangeOK /\ Overlong' = Overlong
         /\ \A i \in Nat : Positions(i)' = Positions(i)
         /\ \A i \in Nat : Bound(i)' = Bound(i)
<1>1. Asked' = Asked
  BY DEF Asked
<1>2. Overlong' = Overlong
  BY DEF Overlong
<1> QED
  BY <1>1, <1>2 DEF RangeOK, Positions, Bound

\* OpenAt leaves Reader at the start of the range.
LEMMA OpenStep ==
  IInv /\ Open => IInv'
<1> SUFFICES ASSUME IInv, Open
             PROVE  IInv'
  OBVIOUS
<1> DEFINE i == start \div ChunkSize
<1>1. /\ TypeInv /\ sent = {} /\ out = {} /\ pc = "open" /\ RangeOK
      /\ UNCHANGED <<range, size, kept, damaged, start, end, sent>>
  BY DEF IInv, Open
<1>2. /\ i \in Nat /\ ChunkSize * i \in Nat /\ ChunkSize * i <= start
      /\ start < ChunkSize * i + ChunkSize
      /\ start % ChunkSize = start - ChunkSize * i
      /\ start \in Nat /\ size \in Nat /\ end \in Int /\ damaged \subseteq Nat
  BY <1>1, Division DEF TypeInv
<1>3. RangeOK'
  BY <1>1, Kept
<1>4. start <= size /\ start <= end + 1
  BY <1>1, <1>2 DEF RangeOK, Overlong
<1>5. Cardinality(sent) = 0 /\ Cardinality(sent)' = 0
  BY <1>1, FS_EmptySet
<1>6. Cursor = start /\ Cursor' = start
  BY <1>1, <1>2, <1>5 DEF Cursor
<1>7. SentOK'
  <2>1. Clean(sent)'
    BY <1>1 DEF Clean
  <2>2. sent' = start'..(Cursor' - 1)
    BY <1>1, <1>2, <1>6
  <2> QED
    BY <1>1, <1>2, <1>4, <1>6, <2>1, <2>2 DEF SentOK
<1> HIDE DEF i
<1>8. CASE start % ChunkSize = 0
  <2>1. next' = i /\ pc' = "copy" /\ out' = {}
    BY <1>1, <1>8 DEF Open, i
  <2>2. Bound(next)' = start
    BY <1>1, <1>2, <1>4, <1>8, <2>1 DEF Bound
  <2>3. OutOK'
    BY <1>2, <1>6, <2>1, <2>2 DEF OutOK, Clean
  <2> QED
    BY <1>1, <1>2, <1>3, <1>7, <2>1, <2>3 DEF IInv, TypeInv, RefusedIsEmpty
<1>9. CASE start % ChunkSize # 0 /\ Fills(i)
  <2>1. next' = i + 1 /\ pc' = "copy" /\ out' = {p \in Positions(i) : p >= start}
    BY <1>9 DEF Open, i
  <2>2. i + 1 \in Nat /\ Bound(i + 1) \in Nat
    BY <1>2, PositionsFacts
  <2>3. Positions(i) = ChunkSize * i .. (Bound(i + 1) - 1)
    BY <1>2, PositionsFacts
  <2>4. ChunkSize * (i + 1) = ChunkSize * i + ChunkSize
    BY <1>2, RangeAssumption
  <2>5. start <= Bound(i + 1)
    BY <1>2, <1>4, <2>4, RangeAssumption DEF Bound
  <2>6. Bound(next)' = Bound(i + 1)
    BY <1>1, <2>1 DEF Bound
  <2>7. out' = start..(Bound(i + 1) - 1)
    BY <1>2, <2>1, <2>2, <2>3
  <2>8. Clean(out)'
    <3> SUFFICES ASSUME NEW d \in damaged
                 PROVE  out' \cap Positions(d)' = {}
      BY <1>1 DEF Clean
    <3>1. d \in Nat /\ d # i
      BY <1>2, <1>9 DEF Fills
    <3>2. Positions(i) \cap Positions(d) = {}
      BY <1>2, <3>1, ChunksDisjoint
    <3> QED
      BY <1>1, <2>1, <3>1, <3>2, Kept
  <2>9. OutOK'
    BY <1>6, <2>5, <2>6, <2>7, <2>8 DEF OutOK
  <2> QED
    BY <1>1, <1>3, <1>7, <2>1, <2>2, <2>9 DEF IInv, TypeInv, RefusedIsEmpty
<1>10. CASE start % ChunkSize # 0 /\ ~Fills(i)
  <2>1. pc' = "failed" /\ next' = next /\ out' = out
    BY <1>10 DEF Open, i
  <2> QED
    BY <1>1, <2>1 DEF IInv, TypeInv, RefusedIsEmpty
<1> QED
  BY <1>8, <1>9, <1>10

\* While bytes are being copied, what is left is what lies between the cursor
\* and the end of the range.
LEMMA CopyFacts ==
  ASSUME IInv, pc = "copy"
  PROVE  /\ TypeInv /\ RangeOK /\ SentOK /\ OutOK
         /\ start \in Nat /\ end \in Int /\ next \in Nat /\ size \in Nat
         /\ damaged \subseteq Nat
         /\ Cursor \in Nat /\ start <= Cursor
         /\ Cardinality(sent) = Cursor - start
         /\ Left = end + 1 - Cursor
         /\ Bound(next) \in Nat
<1>1. /\ TypeInv /\ RangeOK /\ SentOK /\ OutOK
      /\ start \in Nat /\ end \in Int /\ next \in Nat /\ size \in Nat
      /\ damaged \subseteq Nat /\ Cursor \in Nat
  BY DEF IInv, TypeInv, SentOK
<1>2. IsFiniteSet(sent)
  <2>1. sent = start..(Cursor - 1)
    BY <1>1 DEF SentOK
  <2> QED
    BY <1>1, <2>1, FS_Interval
<1>3. Cardinality(sent) \in Nat
  BY <1>2, FS_CardinalityType
<1>4. Bound(next) \in Nat
  BY <1>1, PositionsFacts
<1> QED
  BY <1>1, <1>3, <1>4 DEF Cursor, Left, Length

\* CopyN hands on a prefix of what Reader holds, at most to the end of the range.
LEMMA CopyStep ==
  IInv /\ Copy => IInv'
<1> SUFFICES ASSUME IInv, Copy
             PROVE  IInv'
  OBVIOUS
<1>1. /\ pc = "copy" /\ Left > 0 /\ out # {}
      /\ sent' = sent \cup FirstOf(Left, out) /\ out' = {}
      /\ UNCHANGED <<range, size, kept, damaged, pc, start, end, next>>
  BY DEF Copy
<1>2. /\ TypeInv /\ RangeOK /\ SentOK /\ OutOK
      /\ start \in Nat /\ end \in Int /\ next \in Nat /\ size \in Nat
      /\ damaged \subseteq Nat
      /\ Cursor \in Nat /\ start <= Cursor
      /\ Cardinality(sent) = Cursor - start
      /\ Left = end + 1 - Cursor
      /\ Bound(next) \in Nat
  BY <1>1, CopyFacts
<1> DEFINE b == Bound(next)
           c == IF b <= end + 1 THEN b ELSE end + 1
<1>3. /\ out = Cursor..(b - 1) /\ Cursor <= b
      /\ sent = start..(Cursor - 1) /\ Clean(out) /\ Clean(sent)
  BY <1>1, <1>2 DEF OutOK, SentOK
<1>4. ~Overlong
  <2> SUFFICES ASSUME Overlong
               PROVE  FALSE
    OBVIOUS
  <2>1. b = 0
    BY <1>2 DEF Bound, Overlong
  <2> QED
    BY <1>1, <1>2, <1>3, <2>1
<1>5. b \in Nat /\ c \in Nat /\ Cursor <= c /\ c <= end + 1 /\ Left \in Nat
  BY <1>1, <1>2, <1>3
<1>6. FirstOf(Left, out) = Cursor..(c - 1)
  <2>1. FirstOf(Left, Cursor..(b - 1))
          = IF b <= Cursor + Left THEN Cursor..(b - 1) ELSE Cursor..(Cursor + Left - 1)
    BY <1>2, <1>3, <1>5, FirstOfInterval
  <2>2. Cursor + Left = end + 1
    BY <1>2
  <2> QED
    BY <1>2, <1>3, <2>1, <2>2
<1>7. Clean(sent')
  BY <1>1, <1>3 DEF Clean, FirstOf
<1>8. sent' = start..(c - 1)
  BY <1>1, <1>2, <1>3, <1>5, <1>6
<1>9. Cursor' = c
  <2>1. c - 1 \in Int /\ start <= (c - 1) + 1
    BY <1>2, <1>5
  <2>2. Cardinality(start..(c - 1)) = (c - 1) + 1 - start
    BY <1>2, <2>1, IntervalSize
  <2>3. Cardinality(sent') = c - start
    BY <1>2, <1>5, <1>8, <2>2
  <2> QED
    BY <1>1, <1>2, <1>5, <2>3 DEF Cursor
<1>10. Bound(next)' = b
  BY <1>1 DEF Bound
<1>11. RangeOK' /\ ~Overlong'
  BY <1>1, <1>2, <1>4, Kept
<1>12. SentOK'
  <2>1. Clean(sent)'
    BY <1>1, <1>2, <1>7, Kept DEF Clean
  <2> QED
    BY <1>1, <1>5, <1>8, <1>9, <1>11, <2>1 DEF SentOK
<1>13. OutOK'
  <2>1. Clean(out)'
    BY <1>1 DEF Clean
  <2> QED
    BY <1>1, <1>2, <1>5, <1>9, <1>10, <2>1 DEF OutOK
<1> QED
  BY <1>1, <1>2, <1>11, <1>12, <1>13 DEF IInv, TypeInv, RefusedIsEmpty

\* Reader fills with the chunk that begins at the cursor, or the transfer is cut.
LEMMA FillStep ==
  IInv /\ Fill => IInv'
<1> SUFFICES ASSUME IInv, Fill
             PROVE  IInv'
  OBVIOUS
<1>1. /\ pc = "copy" /\ Left > 0 /\ out = {} /\ pc' \in {"cut", "copy"}
      /\ UNCHANGED <<range, size, kept, damaged, start, end, sent>>
  BY DEF Fill
<1>2. /\ TypeInv /\ RangeOK /\ SentOK /\ OutOK
      /\ start \in Nat /\ end \in Int /\ next \in Nat /\ size \in Nat
      /\ damaged \subseteq Nat
      /\ Cursor \in Nat /\ start <= Cursor
      /\ Cardinality(sent) = Cursor - start
      /\ Left = end + 1 - Cursor
      /\ Bound(next) \in Nat
  BY <1>1, CopyFacts
<1>3. Cursor = Bound(next)
  <2>1. Cursor # end + 1
    BY <1>1, <1>2
  <2>2. Cursor <= Bound(next) /\ {} = Cursor..(Bound(next) - 1)
    BY <1>1, <1>2, <2>1 DEF OutOK
  <2> QED
    BY <1>2, <2>2
<1>4. RangeOK' /\ Cursor' = Cursor
  BY <1>1, <1>2, Kept DEF Cursor
<1>5. SentOK'
  <2>1. Clean(sent) /\ sent = start..(Cursor - 1) /\ Cursor <= end + 1
        /\ (Overlong => sent = {})
    BY <1>2 DEF SentOK
  <2>2. Clean(sent)'
    BY <1>1, <1>2, <2>1, Kept DEF Clean
  <2>3. Overlong' = Overlong
    BY <1>1, Kept
  <2> QED
    BY <1>1, <1>2, <1>4, <2>1, <2>2, <2>3 DEF SentOK
<1>6. CASE ~(next < Chunks(size) /\ Fills(next))
  <2>1. pc' = "cut" /\ out' = out /\ next' = next
    BY <1>6 DEF Fill
  <2> QED
    BY <1>1, <1>2, <1>4, <1>5, <2>1 DEF IInv, TypeInv, RefusedIsEmpty
<1>7. CASE next < Chunks(size) /\ Fills(next)
  <2>1. out' = Positions(next) /\ next' = next + 1
    BY <1>7 DEF Fill
  <2>2. next + 1 \in Nat /\ Bound(next + 1) \in Nat /\ Bound(next) <= Bound(next + 1)
        /\ Positions(next) = ChunkSize * next .. (Bound(next + 1) - 1)
    <3>1. next + 1 \in Nat
      BY <1>2
    <3> QED
      BY <1>2, <3>1, PositionsFacts
  <2>3. Bound(next)' = Bound(next + 1)
    BY <1>1, <2>1 DEF Bound
  <2>4. out' = Cursor..(Bound(next + 1) - 1)
    <3>1. ChunkSize * next \in Nat
      BY <1>2, RangeAssumption
    <3>2. CASE Overlong
      <4>1. Bound(next + 1) = 0
        BY <1>2, <2>2, <3>2 DEF Bound, Overlong
      <4> QED
        BY <1>2, <2>1, <2>2, <3>1, <4>1
    <3>3. CASE ~Overlong
      <4>1. Cursor < size
        BY <1>1, <1>2, <3>3 DEF RangeOK
      <4>2. Bound(next) = ChunkSize * next
        BY <1>2, <1>3, <3>1, <4>1 DEF Bound
      <4> QED
        BY <1>3, <2>1, <2>2, <4>2
    <3> QED
      BY <3>2, <3>3
  <2>5. Clean(out)'
    <3> SUFFICES ASSUME NEW d \in damaged
                 PROVE  out' \cap Positions(d)' = {}
      BY <1>1 DEF Clean
    <3>1. d \in Nat /\ d # next
      BY <1>2, <1>7 DEF Fills
    <3>2. Positions(next) \cap Positions(d) = {}
      BY <1>2, <3>1, ChunksDisjoint
    <3> QED
      BY <1>1, <2>1, <3>1, <3>2, Kept
  <2>6. OutOK'
    BY <1>3, <1>4, <2>2, <2>3, <2>4, <2>5 DEF OutOK
  <2> QED
    BY <1>1, <1>2, <1>4, <1>5, <2>1, <2>2, <2>6 DEF IInv, TypeInv, RefusedIsEmpty
<1> QED
  BY <1>6, <1>7

\* CopyN returns when it has handed on as many bytes as were announced.
LEMMA DoneStep ==
  IInv /\ Done => IInv'
<1> SUFFICES ASSUME IInv, Done
             PROVE  IInv'
  OBVIOUS
<1>1. /\ pc = "copy" /\ Left = 0 /\ pc' = "done"
      /\ UNCHANGED <<range, size, kept, damaged, start, end, next, out, sent>>
  BY DEF Done
<1>2. /\ TypeInv /\ RangeOK /\ SentOK
      /\ start \in Nat /\ end \in Int /\ Cursor \in Nat
      /\ Cardinality(sent) = Cursor - start
      /\ damaged \subseteq Nat
  BY <1>1, CopyFacts
<1>3. Length' = Cardinality(sent')
  BY <1>1, <1>2 DEF Left, Length
<1>4. RangeOK' /\ Cursor' = Cursor /\ Overlong' = Overlong
  BY <1>1, <1>2, Kept DEF Cursor
<1>5. Clean(sent)'
  BY <1>1, <1>2, Kept DEF Clean, SentOK
<1>6. SentOK'
  BY <1>1, <1>2, <1>4, <1>5 DEF SentOK
<1> QED
  BY <1>1, <1>2, <1>3, <1>4, <1>6 DEF IInv, TypeInv, RefusedIsEmpty

-----------------------------------------------------------------------------
(***************************************************************************)
(* The theorems.                                                           *)
(***************************************************************************)

\* A step that changes nothing keeps the invariant.
LEMMA StutterStep ==
  IInv /\ UNCHANGED vars => IInv'
<1> SUFFICES ASSUME IInv, UNCHANGED vars
             PROVE  IInv'
  OBVIOUS
<1>1. UNCHANGED <<range, size, kept, damaged, pc, start, end, next, out, sent>>
  BY DEF vars
<1>2. TypeInv' /\ RefusedIsEmpty'
  BY <1>1 DEF IInv, TypeInv, RefusedIsEmpty, Asked
<1>3. RangeOK' = RangeOK /\ Cursor' = Cursor /\ Overlong' = Overlong
      /\ Bound(next)' = Bound(next) /\ Length' = Length
  BY <1>1, Kept DEF Cursor, Bound, Length
<1>4. Clean(sent)' = Clean(sent) /\ Clean(out)' = Clean(out)
  BY <1>1 DEF Clean, Positions
<1>5. SentOK' = SentOK /\ OutOK' = OutOK
  BY <1>1, <1>3, <1>4 DEF SentOK, OutOK
<1> QED
  BY <1>1, <1>2, <1>3, <1>5 DEF IInv

\* Wherever the download is, the client has a prefix of the range that the
\* header asks for, and Reader stands where the prefix ends.
THEOREM Invariance ==
  Spec => []IInv
<1>1. Init => IInv
  BY InitOK
<1>2. IInv /\ [Next]_vars => IInv'
  BY ParseStep, OpenStep, CopyStep, FillStep, DoneStep, StutterStep DEF Next
<1> QED
  BY <1>1, <1>2, PTL DEF Spec

\* A download that ends well has sent exactly what was asked for and announced
\* as much, for every file, chunk size and header and whatever the blob lost.
THEOREM DownloadIsExact ==
  Spec => []DoneIsExact
<1>1. IInv => DoneIsExact
  <2> SUFFICES ASSUME IInv, pc = "done"
               PROVE  sent = Asked /\ Length = Cardinality(Asked)
    BY DEF DoneIsExact
  <2>1. /\ RangeOK /\ SentOK /\ Length = Cardinality(sent)
        /\ start \in Nat /\ end \in Int
    BY DEF IInv, TypeInv
  <2>2. ~Overlong
    <3> SUFFICES ASSUME Overlong
                 PROVE  FALSE
      OBVIOUS
    <3>1. Cardinality(sent) = 0
      BY <2>1, FS_EmptySet DEF SentOK
    <3> QED
      BY <2>1, <3>1 DEF Overlong, Length
  <2>3. Cursor = end + 1
    BY <2>1 DEF Cursor, Length
  <2>4. sent = Asked
    BY <2>1, <2>2, <2>3 DEF RangeOK, SentOK
  <2> QED
    BY <2>1, <2>4
<1> QED
  BY <1>1, Invariance, PTL

\* At no time has a download sent a byte that was not asked for, or one of a
\* chunk that does not authenticate.
THEOREM NothingElse ==
  Spec => []NothingElseSent
<1>1. IInv => NothingElseSent
  <2> SUFFICES ASSUME IInv
               PROVE  NothingElseSent
    OBVIOUS
  <2>1. CASE sent = {}
    BY <2>1 DEF NothingElseSent
  <2>2. CASE sent # {}
    <3>1. /\ RangeOK /\ SentOK /\ ~Overlong
          /\ start \in Nat /\ end \in Int
      BY <2>2 DEF IInv, TypeInv, SentOK
    <3>2. sent \subseteq Asked
      BY <3>1 DEF RangeOK, SentOK
    <3>3. \A i \in damaged : sent \cap Positions(i) = {}
      BY <3>1 DEF SentOK, Clean
    <3> QED
      BY <3>2, <3>3 DEF NothingElseSent
  <2> QED
    BY <2>1, <2>2
<1> QED
  BY <1>1, Invariance, PTL

\* A single range that parseRange can read is refused only if no byte of the file
\* is in it.
THEOREM RefusedAsksNothing ==
  Spec => []RefusedIsEmpty
<1>1. IInv => RefusedIsEmpty
  BY DEF IInv
<1> QED
  BY <1>1, Invariance, PTL

=============================================================================
