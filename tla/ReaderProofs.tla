---------------------------- MODULE ReaderProofs ----------------------------
(***************************************************************************)
(* Proofs about Reader for files of every size, segments, chunks, windows  *)
(* and buffers of every length, and every order in which fetches answer.   *)
(***************************************************************************)
EXTENDS Reader, SumLemmas, FiniteSetTheorems, TLAPS

(***************************************************************************)
(* The invariant ties the sequence the client has received, the position of*)
(* the stream, the data at hand and the chunks in flight together: however *)
(* far the reader has come, what it takes next is what the file holds next.*)
(***************************************************************************)

\* The file and the request stay as they are; no document is longer than its
\* segment.
FileFits ==
  /\ kept \in [size : Nat, docs : [1..SegmentCount(kept.size) -> Nat], pending : BOOLEAN]
  /\ \A i \in 1..SegmentCount(kept.size) : kept.docs[i] <= SegmentSize(kept.size, i)
  /\ ask \in [segment : Nat, range : RangeHeaders]

Answers == [phase : {"idle", "queued", "leased", "copying", "cut", "gone", "over"},
            status : Nat, promised : Int, start : Int, stop : Int,
            body : Seq(Nat), text : BOOLEAN]

Served ==
  \/ answer.phase \in {"queued", "leased", "copying", "cut", "gone"}
  \/ answer.status \in {200, 206}

\* What ServeBegin has settled stays settled.
FrameFits ==
  Served =>
    /\ Asked.ok
    /\ ask.segment <= SegmentCount(kept.size)
    /\ answer.promised = IF Full THEN AskedWindow.length ELSE Asked.stop - Asked.start + 1
    /\ answer.start = AskedWindow.offset + Asked.start
    /\ answer.stop = AskedWindow.offset + Asked.stop
    /\ AskedWindow.length > 0 \/ (answer.phase = "over" /\ answer.body = <<>>)

\* The body is the file from the first byte of the answer on.
BodyFits ==
  /\ answer.phase \in {"queued", "leased"} => answer.body = <<>>
  /\ Len(answer.body) <= answer.stop - answer.start + 1
  /\ \A i \in 1..Len(answer.body) : answer.body[i] = answer.start + i - 1

Plans == [size : Nat \ {0}, base : Nat, count : Nat \ {0}, leftCut : Nat,
          length : Nat \ {0}]
Windows == [seg : Nat \ {0}, plan : Plans, remain : Nat \ {0}, data : Seq(Nat),
            next : Nat, cancelled : BOOLEAN, closed : BOOLEAN]
Outcomes == [is : {"pending", "data", "failed", "eof", "short"}, data : Seq(Nat)]

StreamFits ==
  /\ stream \in [pos : Nat, window : Nat \ {0}]
  /\ Copying => stream.pos = answer.start + Len(answer.body)
  /\ chunks \in Windows \cup {NoChunks}
  /\ ~Copying => chunks = NoChunks
  /\ chunks = NoChunks => futures = <<>> /\ result = <<>>
  /\ faults \in Nat

\* Where the open window begins and ends in its segment, and the segment in
\* the file.
Origin == (chunks.seg - 1) * SegSize
Doc == kept.docs[chunks.seg]
First == chunks.plan.base + chunks.plan.leftCut
Beyond == First + chunks.plan.length

WindowFits ==
  /\ chunks.seg <= SegmentCount(kept.size)
  /\ chunks.plan.leftCut < chunks.plan.size
  /\ Beyond <= chunks.plan.base + chunks.plan.count * chunks.plan.size
  /\ Beyond <= SegSize
  /\ Origin + Beyond <= kept.size
  /\ answer.start <= Origin + First
  /\ Origin + First <= stream.pos
  /\ stream.pos + chunks.remain = Origin + Beyond
  /\ chunks.cancelled => faults > 0 \/ Doc <= First

\* How far into the document the first t chunks lead.
Reach(t) ==
  IF t = 0 THEN First
  ELSE Smaller(chunks.plan.base + t * chunks.plan.size, Doc)

\* The reader has taken the first t chunks.
Taken(t) ==
  /\ DOMAIN result = 0..(t + Len(futures) - 1)
  /\ futures \in Seq(Nat)
  /\ \A k \in 1..Len(futures) : futures[k] = t + k - 1
  /\ IF chunks.closed
     THEN chunks.next = chunks.plan.count
          /\ (chunks.cancelled \/ t + Len(futures) = chunks.plan.count)
     ELSE chunks.next = t + Len(futures)
  /\ stream.pos + Len(chunks.data) \in {Origin + Reach(t), Origin + Beyond}

OutcomeFits(i) ==
  /\ result[i] \in Outcomes
  /\ IF result[i].is = "data" THEN result[i].data = Fetched(i)
     ELSE result[i].data = <<>>
  /\ result[i].is \in {"failed", "eof", "short"} => chunks.cancelled

PipeFits ==
  chunks # NoChunks =>
    /\ WindowFits
    /\ \A k \in 1..Len(chunks.data) : chunks.data[k] = stream.pos + k - 1
    /\ \A i \in DOMAIN result : OutcomeFits(i)
    /\ \E t \in Nat : Taken(t)

ReaderIInv ==
  /\ FileFits
  /\ answer \in Answers
  /\ FrameFits
  /\ BodyFits
  /\ StreamFits
  /\ PipeFits
  /\ CutHasCause

-----------------------------------------------------------------------------
\* Division.
LEMMA Quotient ==
  ASSUME NEW n \in Nat, NEW d \in Nat \ {0}
  PROVE  /\ n \div d \in Nat
         /\ n % d \in 0..(d - 1)
         /\ n = (n \div d) * d + (n % d)
  <1>1. n \div d \in Nat
    OBVIOUS
  <1>2. n % d \in 0..(d - 1)
    OBVIOUS
  <1>3. n = (n \div d) * d + (n % d)
    OBVIOUS
  <1> QED  BY <1>1, <1>2, <1>3

\* A product grows with its factor.
LEMMA ProductMonotone ==
  ASSUME NEW a \in Int, NEW b \in Int, NEW d \in Nat, a <= b
  PROVE  a * d <= b * d
  OBVIOUS

\* The next multiple of d is d further on.
LEMMA NextProduct ==
  ASSUME NEW a \in Int, NEW d \in Int
  PROVE  (a + 1) * d = a * d + d /\ a * d \in Int
  OBVIOUS

\* A quotient is known by the multiples of d next to n.
LEMMA QuotientIs ==
  ASSUME NEW n \in Nat, NEW d \in Nat \ {0}, NEW q \in Nat
  PROVE  n \div d = q <=> (q * d <= n /\ n < q * d + d)
  <1>1. n \div d \in Nat /\ n % d \in 0..(d - 1) /\ n = (n \div d) * d + (n % d)
    BY Quotient
  <1> DEFINE p == n \div d
  <1>2. p \in Nat /\ p * d \in Int /\ q * d \in Int /\ p * d <= n /\ n < p * d + d
    BY <1>1
  <1> HIDE DEF p
  <1>3. p <= q - 1 => p * d <= (q - 1) * d
    BY <1>2, ProductMonotone, q - 1 \in Int
  <1>4. q <= p - 1 => q * d <= (p - 1) * d
    BY <1>2, ProductMonotone, p - 1 \in Int
  <1>5. (q - 1) * d = q * d - d /\ (p - 1) * d = p * d - d
    BY <1>2, NextProduct, q - 1 \in Int, p - 1 \in Int
  <1>6. p = q <=> (q * d <= n /\ n < q * d + d)
    BY <1>2, <1>3, <1>4, <1>5
  <1> QED  BY <1>6 DEF p

\* A quotient is at least q when q times d fits into n.
LEMMA QuotientAbove ==
  ASSUME NEW n \in Nat, NEW d \in Nat \ {0}, NEW q \in Nat
  PROVE  q <= n \div d <=> q * d <= n
  <1> DEFINE p == n \div d
  <1>1. p \in Nat /\ p * d \in Int /\ q * d \in Int /\ p * d <= n /\ n < p * d + d
    BY Quotient, QuotientIs
  <1> HIDE DEF p
  <1>2. q <= p => q * d <= p * d
    BY <1>1, ProductMonotone
  <1>3. p + 1 <= q => (p + 1) * d <= q * d
    BY <1>1, ProductMonotone, p + 1 \in Int
  <1>4. (p + 1) * d = p * d + d
    BY <1>1, NextProduct
  <1>5. q <= p <=> q * d <= n
    BY <1>1, <1>2, <1>3, <1>4
  <1> QED  BY <1>5 DEF p

\* A segment of the file begins before its end.
LEMMA SegmentBegins ==
  ASSUME NEW size \in Nat, NEW seg \in Nat \ {0}, ReaderAssumption
  PROVE  seg <= SegmentCount(size) <=> (seg - 1) * SegSize < size
  <1> SegSize \in Nat \ {0} /\ size + SegSize - 1 \in Nat
    BY DEF ReaderAssumption
  <1>1. seg <= SegmentCount(size) <=> seg * SegSize <= size + SegSize - 1
    BY QuotientAbove DEF SegmentCount
  <1>2. seg * SegSize = (seg - 1) * SegSize + SegSize /\ (seg - 1) * SegSize \in Int
    BY NextProduct, seg - 1 \in Int, (seg - 1) + 1 = seg
  <1> QED  BY <1>1, <1>2

\* A file has a natural number of segments.
LEMMA SegmentCountNat ==
  ASSUME NEW size \in Nat, ReaderAssumption
  PROVE  SegmentCount(size) \in Nat
  BY Quotient, size + SegSize - 1 \in Nat DEF SegmentCount, ReaderAssumption

\* The bytes from i to j of a content that begins at base, in order.
LEMMA BytesAre ==
  ASSUME NEW base \in Int, NEW i \in Int, NEW j \in Int, base + i \in Nat
  PROVE  /\ Bytes(base, i, j) \in Seq(Nat)
         /\ Len(Bytes(base, i, j)) = IF i <= j THEN j - i + 1 ELSE 0
         /\ \A k \in 1..Len(Bytes(base, i, j)) : Bytes(base, i, j)[k] = base + i + k - 1
  <1> DEFINE n == IF i <= j THEN j - i + 1 ELSE 0
  <1>1. n \in Nat /\ 1..(j - i + 1) = 1..n
    OBVIOUS
  <1>2. \A k \in 1..n : base + i + k - 1 \in Nat
    OBVIOUS
  <1>3. Bytes(base, i, j) = [k \in 1..n |-> base + i + k - 1]
    BY <1>1 DEF Bytes
  <1> HIDE DEF n
  <1> DEFINE s == [k \in 1..n |-> base + i + k - 1]
  <1>4. s \in Seq(Nat) /\ Len(s) = n
    BY <1>1, <1>2
  <1>5. \A k \in 1..n : s[k] = base + i + k - 1
    OBVIOUS
  <1>6. Len(Bytes(base, i, j)) = n /\ Bytes(base, i, j) \in Seq(Nat)
    BY <1>3, <1>4
  <1> QED  BY <1>3, <1>5, <1>6 DEF n

\* The size of the chunks of a window is positive (chunk.go: chunkSize).
LEMMA ChunkPositive ==
  ASSUME NEW start \in Int, NEW end \in Int, ReaderAssumption
  PROVE  ChunkSize(start, end) \in Nat \ {0}
  <1> DEFINE pow(s) == \E k \in 0..20 : s * 2^k = MaxChunk
             fits == {s \in MinChunk..MaxChunk : pow(s) /\ s <= end - start}
             best == CHOOSE s \in fits : \A t \in fits : t <= s
  <1>1. MinChunk \in Nat \ {0} /\ MaxChunk \in Nat \ {0}
    BY DEF ReaderAssumption
  <1>2. ChunkSize(start, end) = IF fits = {} THEN MinChunk ELSE best
    BY DEF ChunkSize
  <1> HIDE DEF pow
  <1>3. IsFiniteSet(fits) /\ \A s \in fits : s \in Nat \ {0}
    <2>1. IsFiniteSet(MinChunk..MaxChunk)
      BY <1>1, FS_Interval
    <2>2. fits \subseteq MinChunk..MaxChunk
      OBVIOUS
    <2>3. IsFiniteSet(fits)
      BY <2>1, <2>2, FS_Subset
    <2> QED  BY <1>1, <2>2, <2>3
  <1>4. ASSUME fits # {} PROVE best \in Nat \ {0}
    <2>1. \E s \in fits : \A t \in fits : t <= s
      <3> HIDE DEF fits
      <3>1. \A s \in fits : s \in Nat
        BY <1>3
      <3>2. Max(fits) \in fits /\ \A t \in fits : t <= Max(fits)
        BY <1>3, <1>4, <3>1, GreatestElement
      <3> QED  BY <3>2
    <2>2. best \in fits
      BY <2>1
    <2> QED  BY <2>2, <1>3
  <1> QED  BY <1>1, <1>2, <1>4

-----------------------------------------------------------------------------
\* What a request asks for.
LEMMA LeastOfInterval ==
  ASSUME NEW a \in Int, NEW b \in Int, a <= b
  PROVE  Least(a..b) = a
  <1>1. a \in a..b /\ \A p \in a..b : a <= p
    OBVIOUS
  <1>2. \A o \in a..b : (\A p \in a..b : o <= p) => o = a
    BY <1>1
  <1> QED  BY <1>1, <1>2 DEF Least

\* A set of integers with a least and a greatest member and no gap.
LEMMA IntervalIs ==
  ASSUME NEW a \in Int, NEW b \in Int, NEW S, S \subseteq Int,
         \A o \in Int : o \in S <=> (a <= o /\ o <= b)
  PROVE  S = a..b
  <1>1. \A o : o \in S => o \in a..b
    OBVIOUS
  <1>2. \A o : o \in a..b => o \in S
    OBVIOUS
  <1> QED  BY <1>1, <1>2

\* The smaller of two offsets.
LEMMA SmallerIs ==
  ASSUME NEW a \in Int, NEW b \in Int
  PROVE  /\ Smaller(a, b) \in Int
         /\ Smaller(a, b) <= a /\ Smaller(a, b) <= b
         /\ Smaller(a, b) = a \/ Smaller(a, b) = b
         /\ \A o \in Int : o <= Smaller(a, b) <=> (o <= a /\ o <= b)
  BY DEF Smaller

\* The bytes of the view, of a whole file or of one segment, are one piece of it.
LEMMA WindowBytesAre ==
  ASSUME ReaderAssumption, FileFits, ask.segment <= SegmentCount(kept.size),
         AskedWindow.length > 0
  PROVE  /\ AskedWindow.offset \in Nat /\ AskedWindow.length \in Nat \ {0}
         /\ AskedWindow.offset + AskedWindow.length <= kept.size
         /\ WindowBytes = AskedWindow.offset..(AskedWindow.offset + AskedWindow.length - 1)
  <1>1. kept.size \in Nat /\ ask.segment \in Nat /\ SegSize \in Nat \ {0}
    BY DEF FileFits, ReaderAssumption
  <1>2. CASE ask.segment = 0
    BY <1>1, <1>2 DEF AskedWindow, Window, WindowBytes, InWindow
  <1>3. CASE ask.segment # 0
    <2> DEFINE q == ask.segment - 1
               b == q * SegSize
    <2>1. q \in Nat /\ b \in Nat /\ b < kept.size
      <3>1. q \in Nat
        BY <1>1, <1>3
      <3>2. b < kept.size
        BY <1>1, <1>3, SegmentBegins
      <3>3. b \in Nat
        <4> HIDE DEF q
        <4> QED  BY <1>1, <3>1
      <3> QED  BY <3>1, <3>2, <3>3
    <2>2. AskedWindow = [offset |-> b, length |-> Smaller(SegSize, kept.size - b)]
      BY <1>1, <1>3, <2>1 DEF AskedWindow, Window, SegmentSize
    <2>3. \A o \in 0..(kept.size - 1) : InWindow(o) <=> (b <= o /\ o < b + SegSize)
      <3> SUFFICES ASSUME NEW o \in 0..(kept.size - 1)
                   PROVE  InWindow(o) <=> (b <= o /\ o < b + SegSize)
        OBVIOUS
      <3>1. o \in Nat
        BY <1>1
      <3>2. o \div SegSize = q <=> (b <= o /\ o < b + SegSize)
        <4> HIDE DEF q
        <4> QED  BY <1>1, <2>1, <3>1, QuotientIs
      <3>3. o \div SegSize \in Nat
        BY <1>1, <3>1, Quotient
      <3>4. InWindow(o) <=> o \div SegSize = q
        BY <1>1, <1>3, <3>3 DEF InWindow
      <3> QED  BY <3>2, <3>4
    <2> HIDE DEF b, q
    <2>4. WindowBytes = {o \in 0..(kept.size - 1) : b <= o /\ o < b + SegSize}
      BY <2>3 DEF WindowBytes
    <2>5. WindowBytes = b..(b + Smaller(SegSize, kept.size - b) - 1)
      <3> DEFINE e == b + Smaller(SegSize, kept.size - b) - 1
      <3>1. e \in Int /\ WindowBytes \subseteq Int
        BY <1>1, <2>1, <2>4 DEF Smaller
      <3>2. \A o \in Int : o \in WindowBytes <=> (b <= o /\ o <= e)
        BY <1>1, <2>1, <2>4 DEF Smaller
      <3> HIDE DEF e
      <3>3. WindowBytes = b..e
        BY <2>1, <3>1, <3>2, b \in Int, IntervalIs
      <3>4. b..(b + Smaller(SegSize, kept.size - b) - 1) = b..e
        BY DEF e
      <3> QED  BY <3>3, <3>4
    <2> DEFINE n == Smaller(SegSize, kept.size - b)
    <2>6. n \in Nat \ {0} /\ n <= kept.size - b
      BY <1>1, <2>1 DEF Smaller
    <2> HIDE DEF n
    <2>7. AskedWindow = [offset |-> b, length |-> n] /\ WindowBytes = b..(b + n - 1)
      BY <2>2, <2>5 DEF n
    <2> QED  BY <1>1, <2>1, <2>6, <2>7
  <1> QED  BY <1>2, <1>3

\* A range that is not refused lies in its window.
LEMMA RangeLies ==
  ASSUME NEW h \in RangeHeaders, NEW size \in Nat \ {0}, ParseRange(h, size).ok, ReaderAssumption
  PROVE  LET r == ParseRange(h, size)
         IN  /\ r.start \in Nat /\ r.stop \in Nat
             /\ r.start <= r.stop /\ r.stop < size
             /\ ~r.ranged => r.start = 0 /\ r.stop = size - 1
  <1>1. MaxOffset \in Nat
    BY DEF ReaderAssumption
  <1>2. CASE h.kind \in {"none", "malformed"}
    BY <1>2 DEF ParseRange, Span, Unsatisfiable
  <1>3. CASE h \in [kind : {"from"}, first : 0..MaxOffset]
    BY <1>1, <1>3 DEF ParseRange, Span, Unsatisfiable
  <1>4. CASE h \in [kind : {"between"}, first : 0..MaxOffset, last : 0..MaxOffset]
    BY <1>1, <1>4 DEF ParseRange, Span, Unsatisfiable, Smaller
  <1>5. CASE h \in [kind : {"suffix"}, count : 0..MaxOffset]
    BY <1>1, <1>5 DEF ParseRange, Span, Unsatisfiable, Smaller
  <1> QED  BY <1>2, <1>3, <1>4, <1>5 DEF RangeHeaders

\* The bytes a request asks for lie between the ends of its range.
LEMMA WantedIs ==
  ASSUME ReaderAssumption, FileFits, ask.segment <= SegmentCount(kept.size),
         AskedWindow.length > 0, Asked.ok
  PROVE  Wanted = (AskedWindow.offset + Asked.start)..(AskedWindow.offset + Asked.stop)
  <1> DEFINE off  == AskedWindow.offset
             size == AskedWindow.length
             h    == ask.range
             W    == off..(off + size - 1)
  <1>1. off \in Nat /\ size \in Nat \ {0} /\ WindowBytes = W
    BY WindowBytesAre
  <1>2. Least(W) = off
    BY <1>1, LeastOfInterval
  <1>3. h \in RangeHeaders /\ Asked = ParseRange(h, size)
    BY DEF FileFits, Asked
  <1>4. MaxOffset \in Nat
    BY DEF ReaderAssumption
  <1> HIDE DEF off, size
  <1>5. CASE h.kind \in {"none", "malformed"}
    <2>1. Wanted = W
      BY <1>1, <1>5 DEF Wanted
    <2>2. Asked.start = 0 /\ Asked.stop = size - 1
      BY <1>1, <1>3, <1>5 DEF ParseRange, Span, Unsatisfiable
    <2> QED  BY <1>1, <2>1, <2>2 DEF off
  <1>6. CASE h \in [kind : {"from"}, first : 0..MaxOffset]
    <2>1. Wanted = {o \in W : o - off >= h.first}
      BY <1>1, <1>2, <1>6 DEF Wanted
    <2>2. Asked.start = h.first /\ Asked.stop = size - 1
      BY <1>1, <1>3, <1>4, <1>6 DEF ParseRange, Span, Unsatisfiable
    <2>3. {o \in W : o - off >= h.first} = (off + h.first)..(off + size - 1)
      <3> DEFINE a == off + h.first
                 b == off + size - 1
                 S == {o \in W : o - off >= h.first}
      <3>1. a \in Int /\ b \in Int /\ S \subseteq Int
        BY <1>1, <1>4, <1>6
      <3>2. \A o \in Int : o \in S <=> (a <= o /\ o <= b)
        BY <1>1, <1>4, <1>6
      <3> HIDE DEF a, b, S
      <3>3. S = a..b
        BY <3>1, <3>2, IntervalIs
      <3> QED  BY <3>3 DEF a, b, S
    <2> QED  BY <1>1, <2>1, <2>2, <2>3 DEF off
  <1>7. CASE h \in [kind : {"between"}, first : 0..MaxOffset, last : 0..MaxOffset]
    <2>0. h.first \in Nat /\ h.last \in Nat
      BY <1>4, <1>7
    <2> DEFINE m == Smaller(h.last, size - 1)
    <2>m. m \in Int /\ \A o \in Int : o <= m <=> (o <= h.last /\ o <= size - 1)
      <3> HIDE DEF h
      <3>1. h.last \in Int /\ size - 1 \in Int
        BY <1>1, <2>0
      <3> QED  BY <3>1, SmallerIs
    <2> HIDE DEF m
    <2>1. Wanted = {o \in W : o - off >= h.first /\ o - off <= h.last}
      BY <1>1, <1>2, <1>7 DEF Wanted
    <2>2. Asked.start = h.first /\ Asked.stop = m
      BY <1>1, <1>3, <1>4, <1>7 DEF m, ParseRange, Span, Unsatisfiable
    <2>3. {o \in W : o - off >= h.first /\ o - off <= h.last}
          = (off + h.first)..(off + m)
      <3> DEFINE a == off + h.first
                 b == off + m
                 S == {o \in W : o - off >= h.first /\ o - off <= h.last}
      <3>1. a \in Int /\ b \in Int /\ S \subseteq Int
        BY <1>1, <2>0, <2>m, SMTT(60)
      <3>2. \A o \in Int : o \in S <=> (a <= o /\ o <= b)
        <4> HIDE DEF h
        <4> SUFFICES ASSUME NEW o \in Int PROVE o \in S <=> (a <= o /\ o <= b)
          OBVIOUS
        <4>1. o - off \in Int /\ (o <= b <=> o - off <= m)
          BY <1>1, <2>m
        <4>2. o - off <= m <=> (o - off <= h.last /\ o - off <= size - 1)
          BY <2>m, <4>1
        <4> QED  BY <1>1, <2>0, <4>1, <4>2
      <3> HIDE DEF a, b, S
      <3>3. S = a..b
        BY <3>1, <3>2, IntervalIs
      <3> QED  BY <3>3 DEF a, b, S
    <2> QED  BY <1>1, <2>1, <2>2, <2>3 DEF off
  <1>8. CASE h \in [kind : {"suffix"}, count : 0..MaxOffset]
    <2>0. h.count \in Nat
      BY <1>4, <1>8
    <2> DEFINE m == Smaller(h.count, size)
    <2>m. m \in Int /\ m <= size /\ \A o \in Int : o <= m <=> (o <= h.count /\ o <= size)
      <3> HIDE DEF h
      <3>1. h.count \in Int /\ size \in Int
        BY <1>1, <2>0
      <3> QED  BY <3>1, SmallerIs
    <2> HIDE DEF m
    <2>1. Wanted = {o \in W : Cardinality({p \in W : p >= o}) <= h.count}
      BY <1>1, <1>2, <1>8 DEF Wanted
    <2>2. Asked.start = size - m /\ Asked.stop = size - 1
      BY <1>1, <1>3, <1>4, <1>8 DEF m, ParseRange, Span, Unsatisfiable
    <2>3. ASSUME NEW o \in W
          PROVE  Cardinality({p \in W : p >= o}) = off + size - o
      <3>1. {p \in W : p >= o} = o..(off + size - 1)
        BY <1>1
      <3>2. Cardinality(o..(off + size - 1)) = off + size - o
        BY <1>1, FS_Interval
      <3> QED  BY <3>1, <3>2
    <2>4. Wanted = {o \in W : off + size - o <= h.count}
      BY <2>1, <2>3
    <2>5. {o \in W : off + size - o <= h.count}
          = (off + (size - m))..(off + size - 1)
      <3> DEFINE a == off + (size - m)
                 b == off + size - 1
                 S == {o \in W : off + size - o <= h.count}
      <3>1. a \in Int /\ b \in Int /\ S \subseteq Int
        BY <1>1, <2>0, <2>m
      <3>2. \A o \in Int : o \in S <=> (a <= o /\ o <= b)
        <4> HIDE DEF h
        <4> QED  BY <1>1, <2>0, <2>m
      <3> HIDE DEF a, b, S
      <3>3. S = a..b
        BY <3>1, <3>2, IntervalIs
      <3> QED  BY <3>3 DEF a, b, S
    <2> QED  BY <1>1, <2>2, <2>4, <2>5 DEF off
  <1> QED  BY <1>3, <1>5, <1>6, <1>7, <1>8 DEF RangeHeaders

\* Of an empty view there is nothing to ask for.
LEMMA NothingWanted ==
  ASSUME ReaderAssumption, FileFits, ask.segment <= SegmentCount(kept.size),
         ~(AskedWindow.length > 0)
  PROVE  Wanted = {} /\ AskedWindow.length = 0
  <1>1. kept.size \in Nat /\ ask.segment \in Nat /\ SegSize \in Nat \ {0}
    BY DEF FileFits, ReaderAssumption
  <1>2. ask.segment = 0
    <2> SUFFICES ASSUME ask.segment # 0 PROVE FALSE
      OBVIOUS
    <2>1. (ask.segment - 1) * SegSize < kept.size
      BY <1>1, SegmentBegins
    <2>2. (ask.segment - 1) * SegSize \in Int
      BY <1>1
    <2>3. AskedWindow.length = Smaller(SegSize, kept.size - (ask.segment - 1) * SegSize)
      BY <1>1, <2>1, <2>2 DEF AskedWindow, Window, SegmentSize
    <2> QED  BY <1>1, <2>1, <2>2, <2>3 DEF Smaller
  <1>3. AskedWindow = [offset |-> 0, length |-> kept.size]
    BY <1>2 DEF AskedWindow, Window
  <1>4. kept.size = 0
    BY <1>1, <1>3
  <1>5. WindowBytes = {}
    BY <1>4 DEF WindowBytes
  <1>6. ask.range \in RangeHeaders
    BY DEF FileFits
  <1>7. ask.range.kind \in {"none", "malformed", "from", "between", "suffix"}
    BY <1>6 DEF RangeHeaders
  <1>8. Wanted = {}
    BY <1>5, <1>7 DEF Wanted
  <1> QED  BY <1>3, <1>4, <1>8

-----------------------------------------------------------------------------
\* The handler.
LEMMA FileStays ==
  ASSUME FileFits, kept' = kept, ask' = ask
  PROVE  FileFits' /\ AskedWindow' = AskedWindow /\ Asked' = Asked /\ (Full' <=> Full)
         /\ Wanted' = Wanted
  BY DEF FileFits, AskedWindow, Asked, Full, Wanted, WindowBytes, InWindow

\* Nothing but the answer and the position changes while no window is open.
LEMMA RestingHolds ==
  ASSUME ReaderIInv, kept' = kept, ask' = ask, faults' = faults,
         chunks = NoChunks, chunks' = chunks, futures' = futures, result' = result,
         stream' \in [pos : Nat, window : Nat \ {0}],
         Copying' => stream'.pos = answer'.start + Len(answer'.body),
         answer' \in Answers, FrameFits', BodyFits', answer'.phase # "cut"
  PROVE  ReaderIInv'
  <1>1. FileFits'
    BY FileStays DEF ReaderIInv
  <1>2. StreamFits'
    BY DEF ReaderIInv, StreamFits
  <1>3. PipeFits' /\ CutHasCause'
    BY DEF PipeFits, CutHasCause
  <1> QED  BY <1>1, <1>2, <1>3 DEF ReaderIInv

\* A refused request has no body (stream.go: serveBytes).
LEMMA RefuseHolds ==
  ASSUME ReaderIInv, NEW status \in {404, 409, 416, 503}, ~Copying, Refuse(status)
  PROVE  ReaderIInv'
  <1>1. answer' = [NoAnswer EXCEPT !.phase = "over", !.status = status]
    BY DEF Refuse
  <1>a. answer' = [phase |-> "over", status |-> status, promised |-> 0, start |-> 0,
                   stop |-> 0, body |-> <<>>, text |-> FALSE]
    BY <1>1 DEF NoAnswer
  <1>2. answer' \in Answers /\ answer'.phase = "over" /\ answer'.status = status
        /\ answer'.body = <<>> /\ answer'.start = 0 /\ answer'.stop = 0
    BY <1>a DEF Answers
  <1>3. FrameFits' /\ BodyFits'
    BY <1>2 DEF FrameFits, BodyFits, Served
  <1> QED  BY <1>2, <1>3, RestingHolds DEF Refuse, ReaderIInv, StreamFits, Copying

\* The range of an accepted request lies within its view (stream.go: parseRange).
LEMMA AskedFits ==
  ASSUME ReaderAssumption, FileFits, ask.segment <= SegmentCount(kept.size), Asked.ok
  PROVE  /\ AskedWindow.offset \in Nat /\ AskedWindow.length \in Nat
         /\ Asked.start \in Nat /\ Asked.stop \in Nat /\ Asked.start <= Asked.stop
         /\ AskedWindow.length > 0 =>
              /\ Asked.stop < AskedWindow.length
              /\ AskedWindow.offset + AskedWindow.length <= kept.size
              /\ Full => AskedWindow.length = Asked.stop - Asked.start + 1
  <1>1. CASE AskedWindow.length > 0
    <2>1. /\ AskedWindow.offset \in Nat /\ AskedWindow.length \in Nat \ {0}
          /\ AskedWindow.offset + AskedWindow.length <= kept.size
      BY <1>1, WindowBytesAre
    <2>2. ask.range \in RangeHeaders
      BY DEF FileFits
    <2>3. /\ Asked.start \in Nat /\ Asked.stop \in Nat
          /\ Asked.start <= Asked.stop /\ Asked.stop < AskedWindow.length
          /\ ~Asked.ranged => Asked.start = 0 /\ Asked.stop = AskedWindow.length - 1
      BY <2>1, <2>2, RangeLies DEF Asked
    <2>4. Full => AskedWindow.length = Asked.stop - Asked.start + 1
      BY <2>1, <2>3 DEF Full
    <2> QED  BY <2>1, <2>3, <2>4
  <1>2. CASE ~(AskedWindow.length > 0)
    <2>1. AskedWindow.length = 0
      BY <1>2, NothingWanted
    <2>2. Asked.start = 0 /\ Asked.stop = 0
      BY <2>1 DEF Asked, ParseRange, Span
    <2>3. ask.segment \in Nat /\ SegSize \in Nat
      BY DEF FileFits, ReaderAssumption
    <2>4. AskedWindow.offset \in Nat
      <3>1. CASE ask.segment = 0
        BY <3>1 DEF AskedWindow, Window
      <3>2. CASE ask.segment # 0
        <4> DEFINE q == ask.segment - 1
        <4>1. AskedWindow.offset = q * SegSize
          BY <3>2 DEF AskedWindow, Window
        <4>2. q \in Nat
          BY <2>3, <3>2
        <4> HIDE DEF q
        <4> QED  BY <2>3, <4>1, <4>2
      <3> QED  BY <3>1, <3>2
    <2> QED  BY <1>2, <2>1, <2>2, <2>4
  <1> QED  BY <1>1, <1>2

\* The head of the answer says what will follow (stream.go: serveBytes).
LEMMA ServeBeginHolds ==
  ASSUME ReaderAssumption, ReaderIInv, NEW head \in BOOLEAN, ServeBegin(head)
  PROVE  ReaderIInv'
  <1>1. ~Copying
    BY DEF ServeBegin, Copying
  <1>2. ASSUME NEW status \in {404, 409, 416, 503}, Refuse(status) PROVE ReaderIInv'
    BY <1>1, <1>2, RefuseHolds
  <1>3. CASE /\ ask.segment <= SegmentCount(kept.size) /\ Asked.ok
             /\ answer' = [phase    |-> IF head \/ AskedWindow.length = 0
                                           THEN "over" ELSE "queued",
                           status   |-> IF ~head /\ AskedWindow.length > 0 THEN 0
                                        ELSE IF Full THEN 200 ELSE 206,
                           promised |-> IF Full THEN AskedWindow.length
                                        ELSE Asked.stop - Asked.start + 1,
                           start    |-> AskedWindow.offset + Asked.start,
                           stop     |-> AskedWindow.offset + Asked.stop,
                           body     |-> <<>>,
                           text     |-> FALSE]
             /\ UNCHANGED <<kept, ask, stream, chunks, futures, result, faults>>
    <2> USE <1>3
    <2>0. FileFits
      BY DEF ReaderIInv
    <2>1. /\ AskedWindow.offset \in Nat /\ AskedWindow.length \in Nat
          /\ Asked.start \in Nat /\ Asked.stop \in Nat /\ Asked.start <= Asked.stop
      BY <2>0, AskedFits
    <2>2. answer' \in Answers /\ answer'.phase \in {"over", "queued"} /\ answer'.body = <<>>
      <3> DEFINE phase == IF head \/ AskedWindow.length = 0 THEN "over" ELSE "queued"
                 status == IF ~head /\ AskedWindow.length > 0 THEN 0
                           ELSE IF Full THEN 200 ELSE 206
                 promised == IF Full THEN AskedWindow.length ELSE Asked.stop - Asked.start + 1
                 start == AskedWindow.offset + Asked.start
                 stop == AskedWindow.offset + Asked.stop
      <3>1. phase \in {"over", "queued"}
        OBVIOUS
      <3>2. status \in Nat
        OBVIOUS
      <3>3. promised \in Int
        <4>1. AskedWindow.length \in Int /\ Asked.stop - Asked.start + 1 \in Int
          BY <2>1, SMTT(60)
        <4> QED  BY <4>1
      <3>a. start \in Int /\ stop \in Int
        BY <2>1, SMTT(60)
      <3>4. answer' = [phase |-> phase, status |-> status, promised |-> promised,
                       start |-> start, stop |-> stop, body |-> <<>>, text |-> FALSE]
        OBVIOUS
      <3> HIDE DEF phase, status, promised, start, stop
      <3> QED  BY <3>1, <3>2, <3>3, <3>a, <3>4 DEF Answers
    <2>3. BodyFits'
      BY <2>1, SMTT(60) DEF BodyFits
    <2>4. AskedWindow' = AskedWindow /\ Asked' = Asked /\ (Full' <=> Full)
      BY <2>0, FileStays
    <2>5. FrameFits'
      BY <2>1, <2>4 DEF FrameFits
    <2> QED  BY <1>1, <2>2, <2>3, <2>5, RestingHolds DEF ReaderIInv, StreamFits, Copying
  <1> QED  BY <1>2, <1>3 DEF ServeBegin

\* What was settled with the head.
LEMMA FrameGives ==
  ASSUME ReaderAssumption, FileFits, FrameFits, Served
  PROVE  /\ answer.start \in Nat /\ answer.stop \in Nat /\ answer.start <= answer.stop
         /\ Asked.ok /\ ask.segment <= SegmentCount(kept.size)
  <1>1. /\ Asked.ok /\ ask.segment <= SegmentCount(kept.size)
        /\ answer.start = AskedWindow.offset + Asked.start
        /\ answer.stop = AskedWindow.offset + Asked.stop
    BY DEF FrameFits
  <1>2. /\ AskedWindow.offset \in Nat
        /\ Asked.start \in Nat /\ Asked.stop \in Nat /\ Asked.start <= Asked.stop
    BY <1>1, AskedFits
  <1> QED  BY <1>1, <1>2

\* A step that changes how far the answer is, not what it is.
LEMMA FrameStays ==
  ASSUME FileFits, FrameFits, Served, answer.phase # "over", kept' = kept, ask' = ask,
         answer'.promised = answer.promised,
         answer'.start = answer.start, answer'.stop = answer.stop
  PROVE  FrameFits'
  BY FileStays DEF FrameFits

\* A transfer slot changes nothing of the answer.
LEMMA LeaseHolds ==
  ASSUME ReaderAssumption, ReaderIInv, Lease
  PROVE  ReaderIInv'
  <1>1. ~Copying /\ Served /\ answer.phase = "queued" /\ answer \in Answers
    BY DEF Lease, Copying, Served, ReaderIInv
  <1>2. CASE Refuse(503)
    BY <1>1, <1>2, RefuseHolds
  <1>3. CASE /\ answer' = [answer EXCEPT !.phase = "leased"]
             /\ UNCHANGED <<kept, ask, stream, chunks, futures, result, faults>>
    <2>1. answer' \in Answers /\ answer'.phase = "leased"
          /\ answer'.promised = answer.promised /\ answer'.body = answer.body
          /\ answer'.start = answer.start /\ answer'.stop = answer.stop
      BY <1>1, <1>3 DEF Answers
    <2>2. FrameFits' /\ BodyFits'
      BY <1>1, <1>3, <2>1, FrameStays DEF ReaderIInv, BodyFits
    <2> QED  BY <1>1, <1>3, <2>1, <2>2, RestingHolds DEF ReaderIInv, StreamFits, Copying
  <1> QED  BY <1>2, <1>3 DEF Lease

\* A whole file on the disk is served as it is (stream.go: serveBytes).
LEMMA ServeStagedHolds ==
  ASSUME ReaderAssumption, ReaderIInv, NEW len \in Nat, ServeStaged(len)
  PROVE  ReaderIInv'
  <1>1. /\ ~Copying /\ Served /\ answer.phase # "over" /\ answer \in Answers
        /\ FileFits /\ FrameFits
    BY DEF ServeStaged, Copying, Served, ReaderIInv
  <1>2. PICK n \in 0..(answer.stop - answer.start + 1) :
          answer' = [answer EXCEPT !.phase  = "over",
                                   !.status = IF Full THEN 200 ELSE 206,
                                   !.body   = Bytes(answer.start, 0, n - 1)]
    BY DEF ServeStaged
  <1>3. answer.start \in Nat /\ answer.stop \in Nat
    BY <1>1, FrameGives
  <1>4. /\ Bytes(answer.start, 0, n - 1) \in Seq(Nat)
        /\ Len(Bytes(answer.start, 0, n - 1)) = n
        /\ \A k \in 1..n : Bytes(answer.start, 0, n - 1)[k] = answer.start + 0 + k - 1
    <2>1. n \in Nat /\ n - 1 \in Int /\ 0 \in Int /\ answer.start \in Int
          /\ answer.start + 0 \in Nat
      BY <1>3
    <2> DEFINE s == Bytes(answer.start, 0, n - 1)
    <2>2. /\ s \in Seq(Nat)
          /\ Len(s) = IF 0 <= n - 1 THEN (n - 1) - 0 + 1 ELSE 0
          /\ \A k \in 1..Len(s) : s[k] = answer.start + 0 + k - 1
      BY <2>1, BytesAre, ZenonT(60)
    <2> HIDE DEF s
    <2>3. Len(s) = n
      BY <2>1, <2>2
    <2>4. s \in Seq(Nat) /\ Len(s) = n /\ \A k \in 1..n : s[k] = answer.start + 0 + k - 1
      BY <2>2, <2>3
    <2> QED  BY <2>4 DEF s
  <1>5. answer' \in Answers /\ answer'.phase = "over"
        /\ answer'.promised = answer.promised /\ answer'.body = Bytes(answer.start, 0, n - 1)
        /\ answer'.start = answer.start /\ answer'.stop = answer.stop
    <2> DEFINE status == IF Full THEN 200 ELSE 206
               body   == Bytes(answer.start, 0, n - 1)
    <2>1. status \in Nat /\ body \in Seq(Nat)
      BY <1>4
    <2>2. answer' = [answer EXCEPT !.phase = "over", !.status = status, !.body = body]
      BY <1>2
    <2> HIDE DEF status, body
    <2>3. answer' \in Answers /\ answer'.phase = "over"
          /\ answer'.promised = answer.promised /\ answer'.body = body
          /\ answer'.start = answer.start /\ answer'.stop = answer.stop
      BY <1>1, <2>1, <2>2 DEF Answers
    <2> QED  BY <2>3 DEF body
  <1>6. BodyFits'
    BY <1>3, <1>4, <1>5, SMTT(60) DEF BodyFits
  <1>7. FrameFits'
    BY <1>1, <1>5, FrameStays DEF ServeStaged
  <1> QED  BY <1>1, <1>5, <1>6, <1>7, RestingHolds DEF ServeStaged, ReaderIInv, StreamFits, Copying

\* The copying begins where the range begins (reader.go: Seek).
LEMMA OpenHolds ==
  ASSUME ReaderAssumption, ReaderIInv, Open
  PROVE  ReaderIInv'
  <1>1. /\ ~Copying /\ Served /\ answer.phase = "leased" /\ answer \in Answers
        /\ FileFits /\ FrameFits /\ BodyFits
    BY DEF Open, Copying, Served, ReaderIInv
  <1>b. answer.body = <<>>
    BY <1>1 DEF BodyFits
  <1>2. answer.start \in Nat
    BY <1>1, FrameGives
  <1>3. CASE /\ answer' = [answer EXCEPT !.phase = "copying",
                                    !.status = IF Full THEN 200 ELSE 206]
             /\ stream' = [pos |-> answer.start, window |-> InitialWindow]
             /\ UNCHANGED <<kept, ask, chunks, futures, result, faults>>
    <2> DEFINE status == IF Full THEN 200 ELSE 206
    <2>a. status \in Nat
      OBVIOUS
    <2>b. answer' = [answer EXCEPT !.phase = "copying", !.status = status]
      BY <1>3
    <2> HIDE DEF status
    <2>c. answer' = [phase |-> "copying", status |-> status, promised |-> answer.promised,
                     start |-> answer.start, stop |-> answer.stop, body |-> answer.body,
                     text |-> answer.text]
      BY <1>1, <2>b DEF Answers
    <2>1. answer' \in Answers /\ answer'.phase = "copying"
          /\ answer'.promised = answer.promised /\ answer'.body = answer.body
          /\ answer'.start = answer.start /\ answer'.stop = answer.stop
      BY <1>1, <2>a, <2>c DEF Answers
    <2>2. FrameFits' /\ BodyFits'
      BY <1>1, <1>3, <2>1, FrameStays DEF BodyFits
    <2>3. stream' \in [pos : Nat, window : Nat \ {0}] /\ stream'.pos = answer.start
      BY <1>2, <1>3 DEF ReaderAssumption
    <2>4. stream'.pos = answer'.start + Len(answer'.body)
      BY <1>2, <1>b, <2>1, <2>3
    <2> QED  BY <1>1, <1>3, <2>1, <2>2, <2>3, <2>4, RestingHolds DEF ReaderIInv, StreamFits
  <1>4. CASE /\ answer' = [answer EXCEPT !.phase = "over",
                                    !.status = IF Full THEN 500 ELSE 206,
                                    !.text = TRUE]
             /\ UNCHANGED <<kept, ask, stream, chunks, futures, result, faults>>
    <2>1. answer' \in Answers /\ answer'.phase = "over"
          /\ answer'.promised = answer.promised /\ answer'.body = answer.body
          /\ answer'.start = answer.start /\ answer'.stop = answer.stop
      <3> DEFINE status == IF Full THEN 500 ELSE 206
      <3>1. status \in Nat
        OBVIOUS
      <3>2. answer' = [answer EXCEPT !.phase = "over", !.status = status, !.text = TRUE]
        BY <1>4
      <3> HIDE DEF status
      <3> QED  BY <1>1, <3>1, <3>2 DEF Answers
    <2>2. FrameFits' /\ BodyFits'
      BY <1>1, <1>4, <2>1, FrameStays DEF BodyFits
    <2> QED  BY <1>1, <1>4, <2>1, <2>2, RestingHolds DEF ReaderIInv, StreamFits, Copying
  <1> QED  BY <1>1, <1>3, <1>4 DEF Open

-----------------------------------------------------------------------------
\* The end of a copy.
LEMMA EndCopyHolds ==
  ASSUME ReaderIInv, Copying, NEW how \in {"cut", "gone", "over"}, EndCopy(how),
         how = "cut" =>
           \/ faults > 0
           \/ \E o \in Wanted : o % SegSize >= kept.docs[o \div SegSize + 1]
  PROVE  ReaderIInv'
  <1>1. /\ answer \in Answers /\ FileFits /\ FrameFits /\ BodyFits /\ StreamFits
        /\ Served /\ answer.phase = "copying"
    BY DEF ReaderIInv, Copying, Served
  <1>2. /\ answer' = [answer EXCEPT !.phase = how]
        /\ chunks' = NoChunks /\ futures' = <<>> /\ result' = <<>>
        /\ kept' = kept /\ ask' = ask /\ stream' = stream /\ faults' = faults
    BY DEF EndCopy, CloseCurrent
  <1>3. answer' \in Answers /\ answer'.phase = how
        /\ answer'.promised = answer.promised /\ answer'.body = answer.body
        /\ answer'.start = answer.start /\ answer'.stop = answer.stop
    BY <1>1, <1>2 DEF Answers
  <1>4. FileFits' /\ FrameFits' /\ BodyFits'
    BY <1>1, <1>2, <1>3, FileStays, FrameStays DEF BodyFits
  <1>5. StreamFits' /\ PipeFits'
    BY <1>1, <1>2, <1>3 DEF StreamFits, PipeFits, Copying
  <1>6. CutHasCause'
    <2> SUFFICES ASSUME how = "cut"
                 PROVE  \/ faults' > 0
                        \/ \E o \in Wanted' : o % SegSize >= kept'.docs[o \div SegSize + 1]
      BY <1>3 DEF CutHasCause
    <2>1. Wanted' = Wanted
      BY <1>1, <1>2, FileStays
    <2> QED  BY <1>2, <2>1
  <1> QED  BY <1>3, <1>4, <1>5, <1>6 DEF ReaderIInv

\* While there is a body to send, it is that from start to stop.
LEMMA WantedWhileServed ==
  ASSUME ReaderAssumption, FileFits, FrameFits, Served, answer.phase # "over"
  PROVE  /\ Wanted = answer.start..answer.stop
         /\ answer.start \in Nat /\ answer.stop \in Nat /\ answer.stop < kept.size
         /\ answer.promised = answer.stop - answer.start + 1
  <1>1. /\ Asked.ok /\ ask.segment <= SegmentCount(kept.size)
        /\ answer.promised = IF Full THEN AskedWindow.length ELSE Asked.stop - Asked.start + 1
        /\ answer.start = AskedWindow.offset + Asked.start
        /\ answer.stop = AskedWindow.offset + Asked.stop
        /\ AskedWindow.length > 0
    BY DEF FrameFits
  <1>2. Wanted = answer.start..answer.stop
    BY <1>1, WantedIs
  <1>3. /\ AskedWindow.offset \in Nat /\ AskedWindow.length \in Nat
        /\ Asked.start \in Nat /\ Asked.stop \in Nat
        /\ Asked.stop < AskedWindow.length
        /\ AskedWindow.offset + AskedWindow.length <= kept.size
        /\ Full => AskedWindow.length = Asked.stop - Asked.start + 1
    BY <1>1, AskedFits
  <1>4. kept.size \in Nat
    BY DEF FileFits
  <1>5. answer.promised = Asked.stop - Asked.start + 1
    BY <1>1, <1>3
  <1>6. answer.start \in Nat /\ answer.stop \in Nat /\ answer.stop < kept.size
    BY <1>1, <1>3, <1>4
  <1>7. answer.stop - answer.start + 1 = Asked.stop - Asked.start + 1
    BY <1>1, <1>3
  <1> QED  BY <1>2, <1>5, <1>6, <1>7

\* While bytes are owed, the position is one that was asked for.
LEMMA PositionWanted ==
  ASSUME ReaderAssumption, ReaderIInv, Copying, Wanting > 0
  PROVE  /\ stream.pos \in Wanted /\ stream.pos \in Nat /\ stream.pos < kept.size
         /\ answer.start \in Nat /\ answer.start <= stream.pos
         /\ \A o \in Nat : answer.start <= o /\ o <= stream.pos => o \in Wanted
  <1>1. /\ FileFits /\ FrameFits /\ Served /\ answer.phase # "over" /\ answer \in Answers
        /\ StreamFits
    BY DEF ReaderIInv, Copying, Served
  <1>2. /\ Wanted = answer.start..answer.stop
        /\ answer.start \in Nat /\ answer.stop \in Nat /\ answer.stop < kept.size
    BY <1>1, WantedWhileServed
  <1>3. Len(answer.body) \in Nat /\ stream.pos = answer.start + Len(answer.body)
    BY <1>1 DEF StreamFits, Answers
  <1>4. stream.pos <= answer.stop
    BY <1>2, <1>3, SMTT(60) DEF Wanting
  <1>5. kept.size \in Nat
    BY <1>1 DEF FileFits
  <1>6. stream.pos \in Nat /\ answer.start <= stream.pos /\ stream.pos < kept.size
    <2>1. stream.pos \in Nat /\ answer.start <= stream.pos
      BY <1>2, <1>3, SMTT(60)
    <2>2. answer.stop \in Nat /\ answer.stop < kept.size
      BY <1>2
    <2> QED  BY <1>4, <1>5, <2>1, <2>2
  <1>7. \A o \in Nat : answer.start <= o /\ o <= stream.pos => o \in answer.start..answer.stop
    BY <1>2, <1>4, <1>6, SMTT(60)
  <1>8. stream.pos \in answer.start..answer.stop
    BY <1>2, <1>4, <1>6
  <1> QED  BY <1>2, <1>6, <1>7, <1>8

\* The numbers of an open window.
LEMMA WindowNumbers ==
  ASSUME ReaderAssumption, ReaderIInv, chunks # NoChunks
  PROVE  /\ Copying /\ chunks \in Windows /\ WindowFits
         /\ Origin \in Nat /\ Doc \in Nat /\ First \in Nat /\ Beyond \in Nat
         /\ SegSize \in Nat \ {0} /\ kept.size \in Nat /\ faults \in Nat
         /\ stream.pos \in Nat /\ stream.window \in Nat \ {0}
         /\ chunks.plan.size \in Nat \ {0} /\ chunks.plan.base \in Nat
         /\ chunks.plan.count \in Nat \ {0} /\ chunks.plan.leftCut \in Nat
         /\ chunks.seg \in Nat \ {0}
  <1>1. FileFits /\ StreamFits /\ PipeFits
    BY DEF ReaderIInv
  <1>2. Copying /\ chunks \in Windows /\ WindowFits /\ faults \in Nat
        /\ stream.pos \in Nat /\ stream.window \in Nat \ {0}
    BY <1>1 DEF StreamFits, PipeFits
  <1>3. chunks.seg \in Nat \ {0} /\ chunks.plan \in Plans
    BY <1>2 DEF Windows
  <1>4. /\ chunks.plan.size \in Nat \ {0} /\ chunks.plan.base \in Nat
        /\ chunks.plan.count \in Nat \ {0} /\ chunks.plan.leftCut \in Nat
        /\ chunks.plan.length \in Nat \ {0}
    BY <1>3 DEF Plans
  <1>5. SegSize \in Nat \ {0}
    BY DEF ReaderAssumption
  <1>6. Origin \in Nat
    <2> DEFINE q == chunks.seg - 1
    <2>1. q \in Nat /\ Origin = q * SegSize
      BY <1>3 DEF Origin
    <2> HIDE DEF q
    <2> QED  BY <1>5, <2>1
  <1>7. kept.size \in Nat /\ SegmentCount(kept.size) \in Nat
    BY <1>1, SegmentCountNat DEF FileFits
  <1>8. chunks.seg \in 1..SegmentCount(kept.size)
    BY <1>2, <1>3, <1>7 DEF WindowFits
  <1>9. Doc \in Nat
    BY <1>1, <1>8 DEF FileFits, Doc
  <1>10. First \in Nat /\ Beyond \in Nat
    BY <1>4 DEF First, Beyond
  <1> QED  BY <1>2, <1>3, <1>4, <1>5, <1>6, <1>7, <1>9, <1>10

\* A byte of the segment that its document lacks.
LEMMA ShortAt ==
  ASSUME ReaderAssumption, ReaderIInv, chunks # NoChunks, NEW o \in Wanted, o \in Nat,
         Origin <= o, o < Origin + SegSize, Doc <= o - Origin
  PROVE  o % SegSize >= kept.docs[o \div SegSize + 1]
  <1>1. /\ Origin \in Nat /\ Doc \in Nat /\ SegSize \in Nat \ {0} /\ chunks.seg \in Nat \ {0}
    BY WindowNumbers
  <1> DEFINE q == chunks.seg - 1
  <1>2. q \in Nat /\ Origin = q * SegSize /\ q + 1 = chunks.seg
    BY <1>1 DEF Origin
  <1> HIDE DEF q
  <1>3. o \div SegSize = q
    BY <1>1, <1>2, QuotientIs
  <1>4. o % SegSize \in 0..(SegSize - 1) /\ o = (o \div SegSize) * SegSize + (o % SegSize)
    BY <1>1, Quotient
  <1>5. o % SegSize = o - Origin
    <2> DEFINE r == o % SegSize
    <2>1. r \in Nat /\ o = Origin + r
      BY <1>1, <1>2, <1>3, <1>4
    <2> HIDE DEF r
    <2>2. r = o - Origin
      BY <1>1, <2>1
    <2> QED  BY <2>2 DEF r
  <1>6. kept.docs[o \div SegSize + 1] = Doc
    BY <1>2, <1>3 DEF Doc
  <1> QED  BY <1>1, <1>5, <1>6

\* What the fetch of a chunk brings.
LEMMA FetchedIs ==
  ASSUME ReaderAssumption, ReaderIInv, chunks # NoChunks, NEW i \in Nat
  PROVE  LET from == IF i = 0 THEN First ELSE chunks.plan.base + i * chunks.plan.size
             next == chunks.plan.base + i * chunks.plan.size + chunks.plan.size
             to   == Smaller(next, Doc)
         IN  /\ Fetched(i) \in Seq(Nat)
             /\ Len(Fetched(i)) = IF from <= to - 1 THEN to - from ELSE 0
             /\ \A k \in 1..Len(Fetched(i)) : Fetched(i)[k] = Origin + from + k - 1
             /\ from \in Nat /\ to \in Nat /\ Reach(i + 1) = to
  <1> DEFINE size == chunks.plan.size
             base == chunks.plan.base
             prod == i * size
             from == IF i = 0 THEN First ELSE base + prod
             next == base + prod + size
             to   == Smaller(next, Doc)
  <1>1. /\ Origin \in Nat /\ Doc \in Nat /\ First \in Nat
        /\ size \in Nat \ {0} /\ base \in Nat /\ chunks.plan.leftCut \in Nat
    BY WindowNumbers
  <1>2. prod \in Nat /\ (i + 1) * size = prod + size /\ (i = 0 => prod = 0)
    <2> HIDE DEF size
    <2>1. i * size \in Nat /\ (i + 1) * size = i * size + size
      BY <1>1, NextProduct
    <2>2. i = 0 => i * size = 0
      BY <1>1
    <2> QED  BY <2>1, <2>2
  <1>3. Reach(i + 1) = Smaller(base + (i + 1) * size, Doc)
    BY DEF Reach
  <1>4. First = base + chunks.plan.leftCut
    BY DEF First
  <1>5. Fetched(i) = Bytes(Origin, base + prod + (IF i = 0 THEN chunks.plan.leftCut ELSE 0),
                           Smaller(base + prod + size, Doc) - 1)
    BY DEF Fetched, Origin, Doc
  <1> HIDE DEF size, base, prod
  <1>6. base + (i + 1) * size = next
    BY <1>1, <1>2
  <1>7. base + prod + (IF i = 0 THEN chunks.plan.leftCut ELSE 0) = from
    BY <1>1, <1>2, <1>4
  <1>8. from \in Nat /\ next \in Nat
    BY <1>1, <1>2
  <1> HIDE DEF from, next
  <1>9. to \in Nat
    BY <1>1, <1>8 DEF Smaller
  <1>10. Fetched(i) = Bytes(Origin, from, to - 1)
    BY <1>5, <1>7 DEF next
  <1> HIDE DEF to
  <1>11. /\ Fetched(i) \in Seq(Nat)
         /\ Len(Fetched(i)) = IF from <= to - 1 THEN (to - 1) - from + 1 ELSE 0
         /\ \A k \in 1..Len(Fetched(i)) : Fetched(i)[k] = Origin + from + k - 1
    <2>1. Origin \in Int /\ from \in Int /\ to - 1 \in Int /\ Origin + from \in Nat
      BY <1>1, <1>8, <1>9
    <2> DEFINE b == Bytes(Origin, from, to - 1)
    <2>2. /\ b \in Seq(Nat)
          /\ Len(b) = IF from <= to - 1 THEN (to - 1) - from + 1 ELSE 0
          /\ \A k \in 1..Len(b) : b[k] = Origin + from + k - 1
      BY <2>1, BytesAre, ZenonT(60)
    <2> HIDE DEF b
    <2>3. Fetched(i) = b
      BY <1>10 DEF b
    <2> QED  BY <2>2, <2>3
  <1>12. (to - 1) - from + 1 = to - from
    BY <1>8, <1>9
  <1>13. Reach(i + 1) = to
    BY <1>3, <1>6 DEF to
  <1> QED  BY <1>8, <1>9, <1>11, <1>12, <1>13 DEF from, to, next, prod, size, base

-----------------------------------------------------------------------------
\* The pipeline.

\* Steps of the pump and of the fetches: the handler stands where it stood.
LEMMA PipelineHolds ==
  ASSUME ReaderAssumption, ReaderIInv, chunks # NoChunks,
         kept' = kept, ask' = ask, answer' = answer, stream' = stream,
         chunks' \in Windows, chunks'.seg = chunks.seg, chunks'.plan = chunks.plan,
         chunks'.remain = chunks.remain, faults' \in Nat, faults' >= faults,
         chunks'.cancelled => chunks.cancelled \/ faults' > 0 \/ Doc <= First,
         \A k \in 1..Len(chunks'.data) : chunks'.data[k] = stream.pos + k - 1,
         \A i \in DOMAIN result' : OutcomeFits(i)',
         \E t \in Nat : Taken(t)'
  PROVE  ReaderIInv'
  <1>1. /\ Copying /\ WindowFits /\ faults \in Nat
    BY WindowNumbers
  <1>2. /\ FileFits /\ answer \in Answers /\ FrameFits /\ BodyFits /\ StreamFits
    BY DEF ReaderIInv
  <1>3. FileFits' /\ (answer \in Answers)' /\ BodyFits'
    BY <1>2, FileStays DEF BodyFits
  <1>4. FrameFits'
    BY <1>1, <1>2, FrameStays DEF Copying, Served
  <1>5. chunks' # NoChunks
    BY DEF Windows, NoChunks
  <1>6. StreamFits'
    BY <1>1, <1>2, <1>5 DEF StreamFits, Copying
  <1>7. WindowFits'
    <2>1. Origin' = Origin /\ Doc' = Doc /\ First' = First /\ Beyond' = Beyond
      BY DEF Origin, Doc, First, Beyond
    <2>2. faults' > 0 \/ Doc' <= First' \/ ~chunks'.cancelled
      BY <1>1, <2>1 DEF WindowFits
    <2> QED  BY <1>1, <2>1, <2>2 DEF WindowFits
  <1>8. PipeFits'
    BY <1>5, <1>7 DEF PipeFits
  <1>9. CutHasCause'
    BY <1>1 DEF CutHasCause, Copying
  <1> QED  BY <1>3, <1>4, <1>6, <1>8, <1>9 DEF ReaderIInv

\* A place in the window stays where it is while the window is open.
LEMMA WindowStays ==
  ASSUME kept' = kept, chunks'.seg = chunks.seg, chunks'.plan = chunks.plan, NEW i
  PROVE  /\ Origin' = Origin /\ Doc' = Doc /\ First' = First /\ Beyond' = Beyond
         /\ Fetched(i)' = Fetched(i) /\ Reach(i)' = Reach(i)
  BY DEF Origin, Doc, First, Beyond, Fetched, Reach

\* One index more.
LEMMA OneMore ==
  ASSUME NEW n \in Nat
  PROVE  0..(n - 1) \cup {n} = 0..n
  <1>1. \A k : k \in 0..(n - 1) \cup {n} <=> k \in 0..n
    OBVIOUS
  <1> QED  BY <1>1

\* The elements of a sequence with one more at its end.
LEMMA AppendGives ==
  \A s \in Seq(Nat), e \in Nat : \A k \in 1..(Len(s) + 1) :
     Append(s, e)[k] = IF k = Len(s) + 1 THEN e ELSE s[k]
  OBVIOUS

\* The pump starts the next fetch (chunk.go: pump).
LEMMA PumpHolds ==
  ASSUME ReaderAssumption, ReaderIInv, Pump
  PROVE  ReaderIInv'
  <1>1. chunks # NoChunks /\ chunks.next < chunks.plan.count
        /\ kept' = kept /\ ask' = ask /\ answer' = answer /\ stream' = stream
        /\ faults' = faults
        /\ chunks' = [chunks EXCEPT !.next = @ + 1]
        /\ futures' = Append(futures, chunks.next)
        /\ result' = [i \in DOMAIN result \cup {chunks.next} |->
                        IF i = chunks.next THEN Pending ELSE result[i]]
    BY DEF Pump
  <1>2. chunks \in Windows /\ chunks.plan.count \in Nat /\ faults \in Nat
    BY <1>1, WindowNumbers
  <1>3. /\ \A k \in 1..Len(chunks.data) : chunks.data[k] = stream.pos + k - 1
        /\ \A i \in DOMAIN result : OutcomeFits(i)
    BY <1>1 DEF ReaderIInv, PipeFits
  <1>4. PICK t \in Nat : Taken(t)
    BY <1>1 DEF ReaderIInv, PipeFits
  <1>5. chunks' \in Windows /\ chunks'.seg = chunks.seg /\ chunks'.plan = chunks.plan
        /\ chunks'.remain = chunks.remain /\ chunks'.data = chunks.data
        /\ chunks'.cancelled = chunks.cancelled /\ chunks'.closed = chunks.closed
        /\ chunks'.next = chunks.next + 1 /\ chunks.next \in Nat
    <2>1. chunks.next \in Nat /\ chunks.next + 1 \in Nat
      BY <1>2 DEF Windows
    <2> DEFINE n == chunks.next + 1
    <2>2. n \in Nat /\ chunks' = [chunks EXCEPT !.next = n]
      BY <1>1, <2>1
    <2> HIDE DEF n
    <2>3. chunks' \in Windows /\ chunks'.seg = chunks.seg /\ chunks'.plan = chunks.plan
          /\ chunks'.remain = chunks.remain /\ chunks'.data = chunks.data
          /\ chunks'.cancelled = chunks.cancelled /\ chunks'.closed = chunks.closed
          /\ chunks'.next = n
      BY <1>2, <2>2 DEF Windows
    <2> QED  BY <2>1, <2>3 DEF n
  <1>6. ~chunks.closed /\ chunks.next = t + Len(futures)
    <2>1. chunks.next # chunks.plan.count
      BY <1>1, <1>2, <1>5
    <2> QED  BY <1>4, <2>1 DEF Taken
  <1>7. /\ DOMAIN result = 0..(t + Len(futures) - 1) /\ futures \in Seq(Nat)
        /\ \A k \in 1..Len(futures) : futures[k] = t + k - 1
        /\ stream.pos + Len(chunks.data) \in {Origin + Reach(t), Origin + Beyond}
    BY <1>4 DEF Taken
  <1>8. /\ futures' \in Seq(Nat) /\ Len(futures') = Len(futures) + 1 /\ Len(futures) \in Nat
        /\ \A k \in 1..Len(futures') :
             futures'[k] = IF k = Len(futures) + 1 THEN chunks.next ELSE futures[k]
    <2> DEFINE e == chunks.next
    <2>1. futures \in Seq(Nat) /\ e \in Nat
      BY <1>5, <1>7
    <2> HIDE DEF e
    <2>a. Append(futures, e) \in Seq(Nat) /\ Len(Append(futures, e)) = Len(futures) + 1
          /\ Len(futures) \in Nat
      BY <2>1
    <2>b. \A k \in 1..(Len(futures) + 1) :
            Append(futures, e)[k] = IF k = Len(futures) + 1 THEN e ELSE futures[k]
      BY <2>1, AppendGives
    <2> DEFINE f == Append(futures, e)
    <2>2. /\ f \in Seq(Nat) /\ Len(futures) \in Nat /\ Len(f) = Len(futures) + 1
          /\ \A k \in 1..Len(f) : f[k] = IF k = Len(futures) + 1 THEN e ELSE futures[k]
      BY <2>a, <2>b
    <2>3. futures' = f
      BY <1>1 DEF e
    <2> HIDE DEF f
    <2> QED  BY <2>2, <2>3 DEF e
  <1>9. DOMAIN result' = 0..(t + Len(futures') - 1)
    <2>1. DOMAIN result' = 0..(t + Len(futures) - 1) \cup {t + Len(futures)}
      BY <1>1, <1>6, <1>7
    <2> DEFINE m == t + Len(futures)
    <2>2. m \in Nat /\ t + Len(futures') - 1 = m /\ t + Len(futures) - 1 = m - 1
      BY <1>8
    <2>3. DOMAIN result' = 0..(m - 1) \cup {m}
      BY <2>1, <2>2
    <2> HIDE DEF m
    <2>4. 0..(m - 1) \cup {m} = 0..m
      BY <2>2, OneMore
    <2> QED  BY <2>2, <2>3, <2>4
  <1>10. \A k \in 1..Len(futures') : futures'[k] = t + k - 1
    <2> SUFFICES ASSUME NEW k \in 1..(Len(futures) + 1) PROVE futures'[k] = t + k - 1
      BY <1>8
    <2>1. k = Len(futures) + 1 \/ k \in 1..Len(futures)
      BY <1>8
    <2>2. k # Len(futures) + 1 \/ futures'[k] = t + k - 1
      <3> SUFFICES ASSUME k = Len(futures) + 1 PROVE futures'[k] = t + k - 1
        OBVIOUS
      <3>1. futures'[k] = chunks.next
        BY <1>8
      <3>2. t + k - 1 = t + Len(futures)
        BY <1>8
      <3> QED  BY <1>6, <3>1, <3>2
    <2>3. k = Len(futures) + 1 \/ futures'[k] = futures[k]
      BY <1>8
    <2> QED  BY <1>7, <2>1, <2>2, <2>3
  <1>11. Taken(t)'
    <2>1. stream'.pos + Len(chunks'.data) \in {Origin' + Reach(t)', Origin' + Beyond'}
      BY <1>1, <1>5, <1>7, WindowStays
    <2>2. ~chunks'.closed /\ chunks'.next = t + Len(futures')
      BY <1>5, <1>6, <1>8
    <2> QED  BY <1>8, <1>9, <1>10, <2>1, <2>2 DEF Taken
  <1>12. ASSUME NEW i \in DOMAIN result' PROVE OutcomeFits(i)'
    <2>1. CASE i = chunks.next
      BY <1>1, <2>1 DEF OutcomeFits, Pending, Outcomes
    <2>2. CASE i # chunks.next
      <3>1. OutcomeFits(i) /\ result'[i] = result[i]
        BY <1>1, <1>3, <2>2
      <3>2. Fetched(i)' = Fetched(i)
        BY <1>1, <1>5, WindowStays
      <3> QED  BY <1>5, <3>1, <3>2 DEF OutcomeFits
    <2> QED  BY <2>1, <2>2
  <1> QED  BY <1>1, <1>2, <1>3, <1>5, <1>11, <1>12, PipelineHolds

\* The pump ends after the last fetch or when cancelled (chunk.go: pump).
LEMMA PumpReturnHolds ==
  ASSUME ReaderAssumption, ReaderIInv, PumpReturn
  PROVE  ReaderIInv'
  <1>1. chunks # NoChunks /\ ~chunks.closed
        /\ (chunks.next = chunks.plan.count \/ chunks.cancelled)
        /\ kept' = kept /\ ask' = ask /\ answer' = answer /\ stream' = stream
        /\ faults' = faults /\ futures' = futures /\ result' = result
        /\ chunks' = [chunks EXCEPT !.closed = TRUE, !.next = chunks.plan.count]
    BY DEF PumpReturn
  <1>2. chunks \in Windows /\ chunks.plan.count \in Nat /\ faults \in Nat
    BY <1>1, WindowNumbers
  <1>3. /\ \A k \in 1..Len(chunks.data) : chunks.data[k] = stream.pos + k - 1
        /\ \A i \in DOMAIN result : OutcomeFits(i)
    BY <1>1 DEF ReaderIInv, PipeFits
  <1>4. PICK t \in Nat : Taken(t)
    BY <1>1 DEF ReaderIInv, PipeFits
  <1>5. chunks' \in Windows /\ chunks'.seg = chunks.seg /\ chunks'.plan = chunks.plan
        /\ chunks'.remain = chunks.remain /\ chunks'.data = chunks.data
        /\ chunks'.cancelled = chunks.cancelled /\ chunks'.closed
        /\ chunks'.next = chunks.plan.count
    BY <1>1, <1>2 DEF Windows
  <1>6. Taken(t)'
    <2>1. Reach(t)' = Reach(t) /\ Origin' = Origin /\ Beyond' = Beyond
      BY <1>1, <1>5, WindowStays
    <2> QED  BY <1>1, <1>4, <1>5, <2>1 DEF Taken
  <1>7. ASSUME NEW i \in DOMAIN result' PROVE OutcomeFits(i)'
    <2>1. Fetched(i)' = Fetched(i)
      BY <1>1, <1>5, WindowStays
    <2> QED  BY <1>1, <1>3, <1>5, <2>1 DEF OutcomeFits
  <1> QED  BY <1>1, <1>2, <1>3, <1>5, <1>6, <1>7, PipelineHolds

\* A fetch brings its chunk, a part of it, or fails, in any order (chunk.go: fetch).
LEMMA FetchHolds ==
  ASSUME ReaderAssumption, ReaderIInv, NEW i \in Flying, Fetch(i), chunks # NoChunks
  PROVE  ReaderIInv'
  <1>1. kept' = kept /\ ask' = ask /\ answer' = answer /\ stream' = stream
        /\ futures' = futures
    BY DEF Fetch
  <1>2. chunks \in Windows /\ faults \in Nat /\ Doc \in Nat /\ First \in Nat
        /\ chunks.plan.size \in Nat \ {0} /\ chunks.plan.base \in Nat
        /\ chunks.plan.leftCut \in Nat /\ WindowFits
    BY WindowNumbers
  <1>3. /\ \A k \in 1..Len(chunks.data) : chunks.data[k] = stream.pos + k - 1
        /\ \A j \in DOMAIN result : OutcomeFits(j)
    BY DEF ReaderIInv, PipeFits
  <1>4. PICK t \in Nat : Taken(t)
    BY DEF ReaderIInv, PipeFits
  <1>5. i \in DOMAIN result /\ result[i].is = "pending" /\ result[i] \in Outcomes
        /\ result[i].data = <<>>
    BY <1>3 DEF Flying, OutcomeFits
  <1>6. i \in Nat
    <2>1. DOMAIN result = 0..(t + Len(futures) - 1)
      BY <1>4 DEF Taken
    <2> QED  BY <1>5, <2>1
  <1>7. ASSUME chunks' \in Windows, chunks'.seg = chunks.seg, chunks'.plan = chunks.plan,
               chunks'.remain = chunks.remain, chunks'.data = chunks.data,
               chunks'.closed = chunks.closed, chunks'.next = chunks.next,
               chunks.cancelled => chunks'.cancelled,
               DOMAIN result' = DOMAIN result,
               \A j \in DOMAIN result : j # i => result'[j] = result[j],
               result'[i] \in Outcomes,
               IF result'[i].is = "data" THEN result'[i].data = Fetched(i)
               ELSE result'[i].data = <<>>,
               result'[i].is \in {"failed", "eof", "short"} => chunks'.cancelled,
               faults' \in Nat, faults' >= faults,
               chunks'.cancelled => chunks.cancelled \/ faults' > 0 \/ Doc <= First
        PROVE  ReaderIInv'
    <2>1. Taken(t)'
      <3>1. Reach(t)' = Reach(t) /\ Origin' = Origin /\ Beyond' = Beyond
        BY <1>1, <1>7, WindowStays
      <3> QED  BY <1>1, <1>4, <1>7, <3>1 DEF Taken
    <2>2. ASSUME NEW j \in DOMAIN result' PROVE OutcomeFits(j)'
      <3>1. Fetched(j)' = Fetched(j)
        BY <1>1, <1>7, WindowStays
      <3>2. CASE j = i
        BY <1>7, <3>1, <3>2 DEF OutcomeFits
      <3>3. CASE j # i
        <4>1. OutcomeFits(j) /\ result'[j] = result[j]
          BY <1>3, <1>7, <2>2, <3>3
        <4> QED  BY <1>7, <3>1, <4>1 DEF OutcomeFits
      <3> QED  BY <3>2, <3>3
    <2> QED  BY <1>1, <1>3, <1>7, <2>1, <2>2, PipelineHolds
  <1>8. ASSUME NEW how \in {"failed", "eof", "short"}, Fail(i, how),
               faults' \in Nat, faults' >= faults,
               chunks.cancelled \/ faults' > 0 \/ Doc <= First
        PROVE  ReaderIInv'
    <2>1. /\ result' = [result EXCEPT ![i] = [@ EXCEPT !.is = how]]
          /\ chunks' = [chunks EXCEPT !.cancelled = TRUE]
      BY <1>8 DEF Fail
    <2>2. chunks' \in Windows /\ chunks'.seg = chunks.seg /\ chunks'.plan = chunks.plan
          /\ chunks'.remain = chunks.remain /\ chunks'.data = chunks.data
          /\ chunks'.closed = chunks.closed /\ chunks'.next = chunks.next
          /\ chunks'.cancelled
      BY <1>2, <2>1 DEF Windows
    <2>3. result'[i] \in Outcomes /\ result'[i].is = how /\ result'[i].data = <<>>
      BY <1>5, <2>1 DEF Outcomes
    <2>4. DOMAIN result' = DOMAIN result /\ \A j \in DOMAIN result : j # i => result'[j] = result[j]
      BY <2>1
    <2> QED  BY <1>7, <1>8, <2>2, <2>3, <2>4
  <1>9. CASE /\ i = 0 /\ chunks.plan.leftCut > 0 /\ Fetched(i) = <<>>
             /\ Fail(i, "short")
             /\ UNCHANGED faults
    <2> DEFINE next == chunks.plan.base + i * chunks.plan.size + chunks.plan.size
    <2>1. /\ Len(Fetched(i)) = IF First <= Smaller(next, Doc) - 1
                              THEN Smaller(next, Doc) - First ELSE 0
          /\ Smaller(next, Doc) \in Nat
      BY <1>6, <1>9, FetchedIs, ZenonT(60)
    <2>2. next = chunks.plan.base + chunks.plan.size
      <3>1. \A x \in Nat, y \in Nat : y + 0 * x + x = y + x
        OBVIOUS
      <3>2. chunks.plan.base \in Nat /\ chunks.plan.size \in Nat /\ i = 0
        BY <1>2, <1>9
      <3> QED  BY <3>1, <3>2
    <2>3. First < next /\ next \in Nat
      BY <1>2, <2>2 DEF WindowFits, First
    <2> HIDE DEF next
    <2>4. Smaller(next, Doc) <= First
      <3>1. Len(Fetched(i)) = 0
        BY <1>9
      <3> DEFINE m == Smaller(next, Doc)
                 l == Len(Fetched(i))
      <3>2. m \in Nat /\ l = IF First <= m - 1 THEN m - First ELSE 0
        BY <2>1
      <3>3. l = 0
        BY <3>1
      <3> HIDE DEF m, l
      <3>4. m <= First
        BY <1>2, <3>2, <3>3
      <3> QED  BY <3>4 DEF m
    <2>5. Doc <= First
      BY <1>2, <2>3, <2>4 DEF Smaller
    <2> QED  BY <1>2, <1>8, <1>9, <2>5
  <1>10. CASE /\ result' = [result EXCEPT ![i] = [is |-> "data", data |-> Fetched(i)]]
              /\ UNCHANGED <<chunks, faults>>
    <2>1. Fetched(i) \in Seq(Nat)
      BY <1>6, FetchedIs
    <2>2. result'[i] \in Outcomes /\ result'[i].is = "data" /\ result'[i].data = Fetched(i)
      <3>1. result'[i] = [is |-> "data", data |-> Fetched(i)]
        BY <1>5, <1>10
      <3> QED  BY <2>1, <3>1 DEF Outcomes
    <2>3. DOMAIN result' = DOMAIN result /\ \A j \in DOMAIN result : j # i => result'[j] = result[j]
      BY <1>10
    <2> QED  BY <1>2, <1>7, <1>10, <2>2, <2>3
  <1>11. CASE /\ \/ chunks.cancelled /\ UNCHANGED faults
                 \/ ~chunks.cancelled /\ faults < MaxChunkFaults /\ faults' = faults + 1
              /\ \E how \in {"failed", "eof"} : Fail(i, how)
    <2>1. PICK how \in {"failed", "eof"} : Fail(i, how)
      BY <1>11
    <2>2. faults' \in Nat /\ faults' >= faults /\ (chunks.cancelled \/ faults' > 0)
      BY <1>2, <1>11
    <2> QED  BY <1>8, <2>1, <2>2
  <1> QED  BY <1>9, <1>10, <1>11 DEF Fetch

-----------------------------------------------------------------------------
\* The copy.

\* While bytes are owed the position lies inside of the open window.
LEMMA PositionInWindow ==
  ASSUME ReaderAssumption, ReaderIInv, chunks # NoChunks
  PROVE  /\ Origin + First <= stream.pos /\ stream.pos < Origin + Beyond
         /\ Beyond <= SegSize /\ answer.start <= Origin + First
         /\ chunks.remain \in Nat \ {0}
  <1>1. /\ chunks \in Windows /\ WindowFits /\ Origin \in Nat /\ First \in Nat
        /\ Beyond \in Nat /\ stream.pos \in Nat
    BY WindowNumbers
  <1>2. chunks.remain \in Nat \ {0}
    BY <1>1 DEF Windows
  <1> QED  BY <1>1, <1>2 DEF WindowFits

\* A window is cancelled for a fetch that failed or a document that is short.
LEMMA CancelledHasCause ==
  ASSUME ReaderAssumption, ReaderIInv, chunks # NoChunks, Wanting > 0, chunks.cancelled
  PROVE  \/ faults > 0
         \/ \E o \in Wanted : o % SegSize >= kept.docs[o \div SegSize + 1]
  <1>1. /\ Origin \in Nat /\ First \in Nat /\ Doc \in Nat /\ SegSize \in Nat \ {0}
        /\ stream.pos \in Nat /\ Copying /\ WindowFits /\ Beyond \in Nat
    BY WindowNumbers
  <1>2. /\ Origin + First <= stream.pos /\ stream.pos < Origin + Beyond
        /\ Beyond <= SegSize /\ answer.start <= Origin + First
    BY PositionInWindow
  <1> DEFINE o == Origin + First
  <1>3. o \in Nat /\ Origin <= o /\ o < Origin + SegSize /\ o - Origin = First
    BY <1>1, <1>2
  <1>4. o \in Wanted
    BY <1>1, <1>2, <1>3, PositionWanted
  <1>5. CASE Doc <= First
    <2> HIDE DEF o
    <2>1. o % SegSize >= kept.docs[o \div SegSize + 1]
      BY <1>3, <1>4, <1>5, ShortAt
    <2> QED  BY <1>4, <2>1
  <1> QED  BY <1>1, <1>5 DEF WindowFits

\* A document that ends at the position.
LEMMA ShortHere ==
  ASSUME ReaderAssumption, ReaderIInv, chunks # NoChunks, Wanting > 0,
         Doc <= stream.pos - Origin
  PROVE  \E o \in Wanted : o % SegSize >= kept.docs[o \div SegSize + 1]
  <1>1. /\ Origin \in Nat /\ First \in Nat /\ Doc \in Nat /\ SegSize \in Nat \ {0}
        /\ stream.pos \in Nat /\ Copying /\ Beyond \in Nat
    BY WindowNumbers
  <1>2. /\ Origin + First <= stream.pos /\ stream.pos < Origin + Beyond /\ Beyond <= SegSize
    BY PositionInWindow
  <1> DEFINE o == stream.pos
  <1>3. o \in Wanted /\ o \in Nat /\ Origin <= o /\ o < Origin + SegSize /\ Doc <= o - Origin
    BY <1>1, <1>2, PositionWanted
  <1> HIDE DEF o
  <1>4. o % SegSize >= kept.docs[o \div SegSize + 1]
    BY <1>3, ShortAt
  <1> QED  BY <1>3, <1>4

\* Without bytes in hand, the position is where the chunks that were taken end.
LEMMA NothingInHand ==
  ASSUME ReaderAssumption, ReaderIInv, chunks # NoChunks, chunks.data = <<>>,
         NEW t \in Nat, Taken(t)
  PROVE  stream.pos = Origin + Reach(t)
  <1>1. stream.pos \in Nat /\ Origin \in Nat /\ Beyond \in Nat
    BY WindowNumbers
  <1>2. stream.pos < Origin + Beyond
    BY PositionInWindow
  <1>3. stream.pos + 0 \in {Origin + Reach(t), Origin + Beyond}
    BY DEF Taken
  <1>4. stream.pos + 0 = stream.pos /\ stream.pos # Origin + Beyond
    BY <1>1, <1>2
  <1> QED  BY <1>3, <1>4

\* A bad chunk ends the copying, and was one before (chunk.go: Read).
LEMMA ReadFailsHolds ==
  ASSUME ReaderAssumption, ReaderIInv, ReadFails
  PROVE  ReaderIInv'
  <1>1. /\ Copying /\ Wanting > 0 /\ chunks # NoChunks /\ chunks.data = <<>>
        /\ chunks.cancelled \/ (chunks.closed /\ futures = <<>>)
        /\ EndCopy("cut")
    BY DEF ReadFails
  <1>2. CASE chunks.cancelled
    BY <1>1, <1>2, CancelledHasCause, EndCopyHolds
  <1>3. CASE chunks.closed /\ futures = <<>> /\ ~chunks.cancelled
    <2> DEFINE count == chunks.plan.count
               size == chunks.plan.size
               base == chunks.plan.base
    <2>1. PICK t \in Nat : Taken(t)
      BY <1>1 DEF ReaderIInv, PipeFits
    <2>2. count \in Nat \ {0} /\ size \in Nat \ {0} /\ base \in Nat /\ Doc \in Nat
          /\ Origin \in Nat /\ Beyond \in Nat /\ stream.pos \in Nat
      BY <1>1, WindowNumbers
    <2>3. t = count
      <3>1. t + Len(futures) = count
        BY <1>3, <2>1 DEF Taken
      <3>2. Len(futures) = 0
        BY <1>3
      <3> QED  BY <2>2, <3>1, <3>2
    <2>4. Reach(t) = Smaller(base + count * size, Doc)
      BY <2>2, <2>3 DEF Reach
    <2>5. stream.pos = Origin + Reach(t)
      BY <1>1, <2>1, NothingInHand
    <2>6. Beyond <= base + count * size /\ stream.pos < Origin + Beyond
      BY <1>1, WindowNumbers, PositionInWindow DEF WindowFits
    <2>7. Doc <= stream.pos - Origin
      <3> DEFINE end == base + count * size
      <3>1. end \in Nat
        <4> HIDE DEF count, size, base
        <4> QED  BY <2>2
      <3>2. stream.pos = Origin + Smaller(end, Doc) /\ Beyond <= end
        BY <2>4, <2>5, <2>6
      <3> HIDE DEF end
      <3> QED  BY <2>2, <2>6, <3>1, <3>2 DEF Smaller
    <2> QED  BY <1>1, <2>7, ShortHere, EndCopyHolds
  <1> QED  BY <1>1, <1>2, <1>3

\* The rest of an open window is given up, or all of it has been handed over:
\* the copy goes on, if it goes on, with the next one.
LEMMA CloseHolds ==
  ASSUME ReaderAssumption, ReaderIInv, Copying, CloseCurrent,
         kept' = kept, ask' = ask, faults' = faults, answer' \in Answers,
         answer'.phase = "copying", answer'.promised = answer.promised,
         answer'.start = answer.start, answer'.stop = answer.stop, BodyFits',
         stream' \in [pos : Nat, window : Nat \ {0}],
         stream'.pos = answer'.start + Len(answer'.body)
  PROVE  ReaderIInv'
  <1>1. /\ answer \in Answers /\ FileFits /\ FrameFits /\ StreamFits
        /\ Served /\ answer.phase = "copying"
    BY DEF ReaderIInv, Copying, Served
  <1>2. FileFits' /\ FrameFits'
    BY <1>1, FileStays, FrameStays
  <1>3. chunks' = NoChunks /\ futures' = <<>> /\ result' = <<>>
    BY DEF CloseCurrent
  <1>4. StreamFits' /\ PipeFits'
    BY <1>1, <1>3 DEF StreamFits, PipeFits, Copying
  <1>5. CutHasCause'
    BY DEF CutHasCause
  <1> QED  BY <1>2, <1>4, <1>5 DEF ReaderIInv

\* The next window is not empty (reader.go: openWindow).
LEMMA WidenedPositive ==
  ASSUME ReaderAssumption, stream.window \in Nat \ {0}
  PROVE  Widened \in Nat \ {0}
  BY DEF Widened, ReaderAssumption

\* The reader takes the oldest future: the chunk that comes next (chunk.go: Read).
LEMMA TakeChunkHolds ==
  ASSUME ReaderAssumption, ReaderIInv, TakeChunk
  PROVE  ReaderIInv'
  <1> DEFINE r == result[Head(futures)]
  <1>1. /\ Copying /\ Wanting > 0 /\ chunks # NoChunks /\ chunks.data = <<>>
        /\ futures # <<>> /\ Head(futures) \notin Flying
    BY DEF TakeChunk
  <1>2. /\ chunks \in Windows /\ WindowFits /\ Origin \in Nat /\ First \in Nat
        /\ Doc \in Nat /\ stream.pos \in Nat /\ faults \in Nat
        /\ stream.window \in Nat \ {0}
        /\ chunks.plan.size \in Nat \ {0} /\ chunks.plan.base \in Nat
        /\ chunks.plan.leftCut \in Nat
    BY <1>1, WindowNumbers
  <1>3. PICK t \in Nat : Taken(t)
    BY <1>1 DEF ReaderIInv, PipeFits
  <1>4. /\ DOMAIN result = 0..(t + Len(futures) - 1) /\ futures \in Seq(Nat)
        /\ \A k \in 1..Len(futures) : futures[k] = t + k - 1
    BY <1>3 DEF Taken
  <1>5. Len(futures) \in Nat \ {0} /\ Head(futures) = futures[1]
    BY <1>1, <1>4
  <1>6. Head(futures) = t /\ t \in DOMAIN result
    <2>1. futures[1] = t + 1 - 1
      BY <1>4, <1>5, SMTT(60)
    <2> QED  BY <1>4, <1>5, <2>1
  <1>7. OutcomeFits(t)
    BY <1>1, <1>6 DEF ReaderIInv, PipeFits
  <1>8. r = result[t] /\ r \in Outcomes /\ r.is # "pending"
    BY <1>1, <1>6, <1>7 DEF Flying, OutcomeFits
  <1>9. stream.pos = Origin + Reach(t)
    BY <1>1, <1>3, NothingInHand
  <1> DEFINE from == IF t = 0 THEN First ELSE chunks.plan.base + t * chunks.plan.size
             next == chunks.plan.base + t * chunks.plan.size + chunks.plan.size
             to   == Smaller(next, Doc)
  <1>10. /\ Fetched(t) \in Seq(Nat)
         /\ Len(Fetched(t)) = IF from <= to - 1 THEN to - from ELSE 0
         /\ \A k \in 1..Len(Fetched(t)) : Fetched(t)[k] = Origin + from + k - 1
         /\ from \in Nat /\ to \in Nat /\ Reach(t + 1) = to
    BY <1>1, FetchedIs
  <1>11. Reach(t) = IF t = 0 THEN from ELSE Smaller(from, Doc)
    BY DEF Reach
  <1>12. to <= Doc /\ (to = Doc \/ to = next) /\ next \in Nat
    <2>1. next \in Nat
      <3> DEFINE size == chunks.plan.size
                 prod == t * size
      <3>1. prod \in Nat
        <4>1. size \in Nat
          BY <1>2
        <4> HIDE DEF size
        <4> QED  BY <4>1
      <3> HIDE DEF prod
      <3>2. next = chunks.plan.base + prod + chunks.plan.size
        BY DEF prod
      <3> QED  BY <1>2, <3>1, <3>2
    <2> HIDE DEF next
    <2> QED  BY <1>2, <2>1 DEF Smaller
  <1>13. from < next
    <2>1. CASE t = 0
      <3>1. from = First /\ next = chunks.plan.base + chunks.plan.size
        BY <1>2, <2>1
      <3> QED  BY <1>2, <3>1 DEF WindowFits, First
    <2>2. CASE t # 0
      <3>1. next = from + chunks.plan.size
        BY <2>2
      <3>2. from \in Nat /\ chunks.plan.size \in Nat \ {0}
        BY <1>2, <1>10
      <3> HIDE DEF from, next
      <3> QED  BY <3>1, <3>2
    <2> QED  BY <2>1, <2>2
  <1> HIDE DEF from, next, to
  \* The error that passes for the end of the window.
  <1>14. CASE /\ r.is = "eof"
              /\ stream' = [stream EXCEPT !.window = Widened]
              /\ CloseCurrent
              /\ UNCHANGED <<kept, ask, answer, faults>>
    <2>1. answer \in Answers /\ BodyFits /\ StreamFits
      BY DEF ReaderIInv
    <2>2. stream.pos = answer.start + Len(answer.body)
          /\ stream \in [pos : Nat, window : Nat \ {0}]
      BY <1>1, <2>1 DEF StreamFits
    <2>3. stream' \in [pos : Nat, window : Nat \ {0}] /\ stream'.pos = stream.pos
      BY <1>2, <1>14, <2>2, WidenedPositive
    <2>4. BodyFits'
      BY <1>14, <2>1 DEF BodyFits
    <2>5. answer' = answer /\ answer.phase = "copying"
      BY <1>1, <1>14 DEF Copying
    <2> QED  BY <1>1, <1>14, <2>1, <2>2, <2>3, <2>4, <2>5, CloseHolds
  \* A chunk that failed, or has no bytes.
  <1>15. CASE /\ r.is # "eof" /\ r.data = <<>>
              /\ EndCopy("cut")
    <2>1. CASE r.is = "data"
      <3>1. Fetched(t) = <<>>
        BY <1>7, <1>8, <1>15, <2>1 DEF OutcomeFits
      <3>2. Len(Fetched(t)) = 0
        BY <3>1
      <3>3. to <= from
        BY <1>10, <3>2
      <3>4. Doc <= from
        BY <1>2, <1>10, <1>12, <1>13, <3>3
      <3>5. Doc <= Reach(t)
        BY <1>2, <1>10, <1>11, <3>4 DEF Smaller
      <3>6. Reach(t) \in Nat
        BY <1>2, <1>10, <1>11 DEF Smaller
      <3>7. Doc <= stream.pos - Origin
        BY <1>2, <1>9, <3>5, <3>6
      <3> QED  BY <1>1, <1>15, <3>7, ShortHere, EndCopyHolds
    <2>2. CASE r.is \in {"failed", "short"}
      <3>1. chunks.cancelled
        BY <1>7, <1>8, <2>2 DEF OutcomeFits
      <3> QED  BY <1>1, <1>15, <3>1, CancelledHasCause, EndCopyHolds
    <2> QED  BY <1>8, <1>15, <2>1, <2>2 DEF Outcomes
  \* A chunk.
  <1>16. CASE /\ r.data # <<>>
              /\ chunks' = [chunks EXCEPT !.data = r.data]
              /\ futures' = Tail(futures)
              /\ UNCHANGED <<kept, ask, answer, stream, result, faults>>
    <2>1. r.is = "data" /\ r.data = Fetched(t) /\ Fetched(t) # <<>>
      BY <1>7, <1>8, <1>16 DEF OutcomeFits
    <2>2. Len(Fetched(t)) = to - from /\ from <= to - 1
      <3>1. Len(Fetched(t)) # 0
        BY <1>10, <2>1
      <3> QED  BY <1>10, <3>1
    <2>3. Reach(t) = from
      <3>1. from < Doc
        BY <1>2, <1>10, <1>12, <2>2
      <3> QED  BY <1>11, <3>1 DEF Smaller
    <2>4. chunks' \in Windows /\ chunks'.seg = chunks.seg /\ chunks'.plan = chunks.plan
          /\ chunks'.remain = chunks.remain /\ chunks'.data = Fetched(t)
          /\ chunks'.cancelled = chunks.cancelled /\ chunks'.closed = chunks.closed
          /\ chunks'.next = chunks.next
      <3>1. chunks' = [chunks EXCEPT !.data = Fetched(t)]
        BY <1>16, <2>1
      <3> QED  BY <1>2, <1>10, <3>1 DEF Windows
    <2>5. \A k \in 1..Len(chunks'.data) : chunks'.data[k] = stream.pos + k - 1
      <3>1. stream.pos = Origin + from
        BY <1>9, <2>3
      <3> QED  BY <1>10, <2>4, <3>1
    <2>6. stream'.pos + Len(chunks'.data) = Origin' + Reach(t + 1)'
      <3>1. stream.pos = Origin + from /\ Len(chunks'.data) = to - from
        BY <1>9, <2>2, <2>3, <2>4
      <3>2. Origin' = Origin /\ Reach(t + 1)' = to
        BY <1>10, <1>16, <2>4, WindowStays
      <3>3. Origin + from + (to - from) = Origin + to
        BY <1>2, <1>10
      <3> QED  BY <1>16, <3>1, <3>2, <3>3
    <2>7. /\ futures' \in Seq(Nat) /\ Len(futures') = Len(futures) - 1
          /\ \A k \in 1..Len(futures') : futures'[k] = futures[k + 1]
      BY <1>4, <1>5, <1>16
    <2>8. \A k \in 1..Len(futures') : futures'[k] = (t + 1) + k - 1
      <3> SUFFICES ASSUME NEW k \in 1..(Len(futures) - 1) PROVE futures'[k] = (t + 1) + k - 1
        BY <2>7
      <3>1. futures'[k] = futures[k + 1]
        BY <2>7
      <3>2. k + 1 \in 1..Len(futures) /\ t + (k + 1) - 1 = (t + 1) + k - 1
        BY <1>5
      <3> QED  BY <1>4, <3>1, <3>2
    <2>9. (t + 1) + Len(futures') = t + Len(futures)
      BY <1>5, <2>7
    <2>10. Taken(t + 1)'
      <3>1. DOMAIN result' = 0..((t + 1) + Len(futures') - 1)
        <4>1. (t + 1) + Len(futures') - 1 = t + Len(futures) - 1
          BY <1>5, <2>7
        <4> QED  BY <1>4, <1>16, <4>1
      <3>2. IF chunks.closed
            THEN chunks.next = chunks.plan.count
                 /\ (chunks.cancelled \/ t + Len(futures) = chunks.plan.count)
            ELSE chunks.next = t + Len(futures)
        BY <1>3 DEF Taken
      <3> QED  BY <2>4, <2>6, <2>7, <2>8, <2>9, <3>1, <3>2 DEF Taken
    <2>11. ASSUME NEW j \in DOMAIN result' PROVE OutcomeFits(j)'
      <3>1. Fetched(j)' = Fetched(j) /\ result' = result
        BY <1>16, <2>4, WindowStays
      <3>2. OutcomeFits(j)
        BY <1>1, <2>11, <3>1 DEF ReaderIInv, PipeFits
      <3> QED  BY <2>4, <3>1, <3>2 DEF OutcomeFits
    <2>12. \E u \in Nat : Taken(u)'
      <3>1. t + 1 \in Nat
        OBVIOUS
      <3> QED  BY <2>10, <3>1
    <2> QED  BY <1>1, <1>2, <1>16, <2>4, <2>5, <2>11, <2>12, PipelineHolds, SMTT(60)
  <1> QED  BY <1>14, <1>15, <1>16 DEF TakeChunk

\* The elements of a part of a sequence.
LEMMA SubSeqGives ==
  ASSUME NEW s \in Seq(Nat), NEW a \in Nat \ {0}, NEW b \in Nat, b <= Len(s), a <= b + 1
  PROVE  /\ SubSeq(s, a, b) \in Seq(Nat)
         /\ Len(SubSeq(s, a, b)) = b - a + 1
         /\ \A k \in 1..(b - a + 1) : SubSeq(s, a, b)[k] = s[a + k - 1]
  <1>1. Len(SubSeq(s, a, b)) = b - a + 1
    OBVIOUS
  <1>2. \A k \in 1..(b - a + 1) : SubSeq(s, a, b)[k] = s[a + k - 1]
    OBVIOUS
  <1>3. \A k \in 1..(b - a + 1) : a + k - 1 \in 1..Len(s)
    OBVIOUS
  <1>4. SubSeq(s, a, b) \in Seq(Nat)
    <2>1. SubSeq(s, a, b) = [k \in 1..(b - a + 1) |-> s[a + k - 1]]
      OBVIOUS
    <2>2. \A k \in 1..(b - a + 1) : s[a + k - 1] \in Nat
      BY <1>3
    <2>3. b - a + 1 \in Nat
      OBVIOUS
    <2> QED  BY <2>1, <2>2, <2>3
  <1> QED  BY <1>1, <1>2, <1>4

\* The elements of two sequences one after the other.
LEMMA ConcatGives ==
  ASSUME NEW s \in Seq(Nat), NEW u \in Seq(Nat)
  PROVE  /\ s \o u \in Seq(Nat)
         /\ Len(s \o u) = Len(s) + Len(u)
         /\ \A k \in 1..(Len(s) + Len(u)) :
              (s \o u)[k] = IF k <= Len(s) THEN s[k] ELSE u[k - Len(s)]
  <1>1. s \o u \in Seq(Nat) /\ Len(s \o u) = Len(s) + Len(u)
    OBVIOUS
  <1>2. \A k \in 1..(Len(s) + Len(u)) :
              (s \o u)[k] = IF k <= Len(s) THEN s[k] ELSE u[k - Len(s)]
    OBVIOUS
  <1> QED  BY <1>1, <1>2

\* A part of the chunk at hand goes into the body (reader.go: Read).
LEMMA CopySomeHolds ==
  ASSUME ReaderAssumption, ReaderIInv, NEW n \in 1..MaxCopy, CopySome(n)
  PROVE  ReaderIInv'
  <1> DEFINE m == Smaller(Len(chunks.data), chunks.remain)
             left == chunks.remain - n
             given == SubSeq(Owed, 1, n)
             l == Len(answer.body)
  <1>1. /\ Copying /\ chunks # NoChunks /\ chunks.data # <<>>
        /\ n <= Smaller(Len(Owed), Wanting)
        /\ answer' = [answer EXCEPT !.body = answer.body \o given]
        /\ stream' = [pos |-> stream.pos + n,
                      window |-> IF left <= 0 THEN Widened ELSE stream.window]
        /\ kept' = kept /\ ask' = ask /\ faults' = faults
    BY DEF CopySome
  <1>2. n \in Nat \ {0}
    BY DEF ReaderAssumption
  <1>3. /\ chunks \in Windows /\ WindowFits /\ stream.pos \in Nat /\ faults \in Nat
        /\ stream.window \in Nat \ {0} /\ Origin \in Nat /\ Beyond \in Nat /\ First \in Nat
    BY <1>1, WindowNumbers
  <1>4. /\ chunks.data \in Seq(Nat) /\ chunks.remain \in Nat \ {0}
        /\ Len(chunks.data) \in Nat
    BY <1>3 DEF Windows
  <1>5. /\ answer \in Answers /\ FileFits /\ FrameFits /\ BodyFits /\ StreamFits
        /\ answer.phase = "copying" /\ Served
    BY <1>1 DEF ReaderIInv, Copying, Served
  <1>6. \A k \in 1..Len(chunks.data) : chunks.data[k] = stream.pos + k - 1
    BY <1>1 DEF ReaderIInv, PipeFits
  <1>7. l \in Nat /\ answer.start \in Int /\ answer.stop \in Int /\ answer.body \in Seq(Nat)
    BY <1>5 DEF Answers
  <1>a. stream.pos = answer.start + l
    BY <1>1, <1>5 DEF StreamFits
  <1>b. \A k \in 1..l : answer.body[k] = answer.start + k - 1
    BY <1>5 DEF BodyFits
  <1>8. m \in Nat /\ m <= Len(chunks.data) /\ m <= chunks.remain
        /\ (m = Len(chunks.data) \/ m = chunks.remain)
    BY <1>4, SMTT(60) DEF Smaller
  <1>c. /\ n \in Int /\ l \in Int /\ answer.start \in Int /\ answer.stop \in Int
        /\ stream.pos \in Int /\ m \in Int /\ chunks.remain \in Int
    <2>1. n \in Int /\ m \in Int /\ stream.pos \in Int /\ chunks.remain \in Int
      BY <1>2, <1>3, <1>4, <1>8
    <2>2. l \in Int /\ answer.start \in Int /\ answer.stop \in Int
      BY <1>7
    <2> QED  BY <2>1, <2>2
  <1>9. /\ Owed \in Seq(Nat) /\ Len(Owed) = m
        /\ \A k \in 1..m : Owed[k] = stream.pos + k - 1
    <2> HIDE DEF m
    <2>1. Owed = SubSeq(chunks.data, 1, m)
      BY DEF Owed, m
    <2>2. 1 \in Nat \ {0} /\ 1 <= m + 1 /\ m - 1 + 1 = m
      BY <1>8
    <2> DEFINE d == chunks.data
               o == SubSeq(d, 1, m)
    <2>a. d \in Seq(Nat) /\ m \in Nat /\ m <= Len(d)
      BY <1>4, <1>8
    <2> HIDE DEF d
    <2>b. /\ o \in Seq(Nat) /\ Len(o) = m - 1 + 1
          /\ \A k \in 1..(m - 1 + 1) : o[k] = d[1 + k - 1]
      BY <2>a, <2>2, SubSeqGives
    <2>3. /\ Owed \in Seq(Nat) /\ Len(Owed) = m - 1 + 1
          /\ \A k \in 1..(m - 1 + 1) : Owed[k] = chunks.data[1 + k - 1]
      <3> HIDE DEF o
      <3>1. Owed = o
        BY <2>1 DEF o, d
      <3> QED  BY <2>b, <3>1 DEF d
    <2>4. \A k \in 1..m : 1 + k - 1 = k /\ k \in 1..Len(chunks.data)
      BY <1>4, <1>8
    <2>5. \A k \in 1..m : Owed[k] = chunks.data[k]
      BY <2>2, <2>3, <2>4
    <2> QED  BY <1>6, <2>2, <2>3, <2>4, <2>5
  <1>10. n <= m /\ n <= answer.stop - answer.start + 1 - l
    <2> HIDE DEF m, l
    <2>1. n <= Smaller(m, answer.stop - answer.start + 1 - l)
      BY <1>1, <1>9 DEF Wanting, l
    <2> DEFINE e == answer.stop - answer.start + 1 - l
    <2>2. n \in Int /\ m \in Int /\ e \in Int
      BY <1>c
    <2>3. n <= Smaller(m, e)
      BY <2>1
    <2> HIDE DEF e
    <2>4. n <= m /\ n <= e
      BY <2>2, <2>3, SmallerIs
    <2> QED  BY <2>4 DEF e
  <1> HIDE DEF m
  <1>11. /\ given \in Seq(Nat) /\ Len(given) = n
         /\ \A k \in 1..n : given[k] = stream.pos + k - 1
    <2>1. 1 \in Nat \ {0} /\ 1 <= n + 1 /\ n - 1 + 1 = n /\ n \in Nat
      BY <1>2
    <2>2. /\ given \in Seq(Nat) /\ Len(given) = n - 1 + 1
          /\ \A k \in 1..(n - 1 + 1) : given[k] = Owed[1 + k - 1]
      BY <1>9, <1>10, <2>1, SubSeqGives, SMTT(60)
    <2>3. \A k \in 1..n : 1 + k - 1 = k /\ k \in 1..m
      BY <1>2, <1>8, <1>10
    <2> HIDE DEF given
    <2>4. \A k \in 1..n : given[k] = Owed[k]
      BY <2>1, <2>2, <2>3
    <2> QED  BY <1>9, <2>1, <2>2, <2>3, <2>4
  <1> HIDE DEF given
  <1> DEFINE body == answer.body \o given
  <1>12. /\ body \in Seq(Nat) /\ Len(body) = l + n
         /\ \A k \in 1..(l + n) : body[k] = IF k <= l THEN answer.body[k] ELSE given[k - l]
    BY <1>7, <1>11, ConcatGives
  <1>13. answer' \in Answers /\ answer'.phase = "copying" /\ answer'.body = body
         /\ answer'.promised = answer.promised
         /\ answer'.start = answer.start /\ answer'.stop = answer.stop
    <2>1. answer' = [answer EXCEPT !.body = body]
      BY <1>1
    <2> HIDE DEF body
    <2> QED  BY <1>5, <1>12, <2>1 DEF Answers
  <1> HIDE DEF body, l
  <1>14. BodyFits'
    <2>1. \A k \in 1..(l + n) : body[k] = answer.start + k - 1
      <3> SUFFICES ASSUME NEW k \in 1..(l + n) PROVE body[k] = answer.start + k - 1
        OBVIOUS
      <3>1. CASE k <= l
        <4>1. k \in 1..l
          BY <1>2, <1>7, <3>1
        <4> QED  BY <1>b, <1>12, <3>1, <4>1
      <3>2. CASE ~(k <= l)
        <4>1. k - l \in 1..n
          BY <1>2, <1>7, <3>2, SMTT(60)
        <4>2. body[k] = given[k - l]
          BY <1>12, <3>2
        <4>3. given[k - l] = stream.pos + (k - l) - 1
          BY <1>11, <4>1
        <4>4. stream.pos + (k - l) - 1 = answer.start + k - 1
          <5>1. k \in Int
            OBVIOUS
          <5> QED  BY <1>a, <1>c, <5>1
        <4> QED  BY <4>2, <4>3, <4>4
      <3> QED  BY <3>1, <3>2
    <2>2. l + n <= answer.stop - answer.start + 1
      BY <1>2, <1>7, <1>10, SMTT(60)
    <2> QED  BY <1>12, <1>13, <2>1, <2>2 DEF BodyFits
  <1>15. /\ stream'.pos = stream.pos + n /\ stream'.pos = answer'.start + Len(answer'.body)
         /\ stream' \in [pos : Nat, window : Nat \ {0}]
    <2>1. stream'.pos = stream.pos + n
      BY <1>1
    <2>2. stream.pos + n = answer.start + (l + n) /\ stream.pos + n \in Nat
      <3>1. stream.pos + n = answer.start + (l + n)
        BY <1>a, <1>c
      <3>2. stream.pos + n \in Nat
        BY <1>2, <1>3
      <3> QED  BY <3>1, <3>2
    <2>3. (IF left <= 0 THEN Widened ELSE stream.window) \in Nat \ {0}
      BY <1>3, WidenedPositive
    <2> DEFINE w == IF left <= 0 THEN Widened ELSE stream.window
    <2>4. stream' = [pos |-> stream.pos + n, window |-> w] /\ w \in Nat \ {0}
      BY <1>1, <2>3
    <2> HIDE DEF w
    <2> QED  BY <1>12, <1>13, <2>1, <2>2, <2>4
  <1>16. left \in Nat /\ left = chunks.remain - n
    BY <1>2, <1>4, <1>8, <1>10, SMTT(60)
  <1>17. CASE left <= 0
    <2>1. CloseCurrent
      BY <1>17 DEF CopySome
    <2> QED  BY <1>1, <1>13, <1>14, <1>15, <2>1, CloseHolds
  <1>18. CASE ~(left <= 0)
    <2> DEFINE rest == SubSeq(Owed, n + 1, m)
    <2>1. /\ chunks' = [chunks EXCEPT !.data = rest, !.remain = left]
          /\ futures' = futures /\ result' = result
      BY <1>9, <1>18 DEF CopySome
    <2>2. /\ rest \in Seq(Nat) /\ Len(rest) = m - n
          /\ \A k \in 1..(m - n) : rest[k] = stream.pos + n + k - 1
      <3>1. n + 1 \in Nat \ {0} /\ n + 1 <= m + 1 /\ m - (n + 1) + 1 = m - n
        BY <1>2, <1>8, <1>10
      <3>2. /\ rest \in Seq(Nat) /\ Len(rest) = m - (n + 1) + 1
            /\ \A k \in 1..(m - (n + 1) + 1) : rest[k] = Owed[n + 1 + k - 1]
        <4> DEFINE a == n + 1
                   r == SubSeq(Owed, a, m)
        <4>1. a \in Nat \ {0} /\ a <= m + 1 /\ m \in Nat /\ Owed \in Seq(Nat) /\ m <= Len(Owed)
          BY <1>8, <1>9, <3>1
        <4> HIDE DEF a
        <4>2. /\ r \in Seq(Nat) /\ Len(r) = m - a + 1
              /\ \A k \in 1..(m - a + 1) : r[k] = Owed[a + k - 1]
          BY <4>1, SubSeqGives, SMTT(60)
        <4> QED  BY <4>2 DEF a
      <3> HIDE DEF rest
      <3>3. \A k \in 1..(m - n) : n + 1 + k - 1 \in 1..m
                                 /\ stream.pos + (n + 1 + k - 1) - 1 = stream.pos + n + k - 1
        BY <1>2, <1>3, <1>8, <1>10
      <3>4. \A k \in 1..(m - n) : rest[k] = Owed[n + 1 + k - 1]
        BY <3>1, <3>2
      <3> QED  BY <1>9, <3>1, <3>2, <3>3, <3>4
    <2> HIDE DEF rest, left
    <2>3. chunks' \in Windows /\ chunks'.seg = chunks.seg /\ chunks'.plan = chunks.plan
          /\ chunks'.remain = left /\ chunks'.data = rest
          /\ chunks'.cancelled = chunks.cancelled /\ chunks'.closed = chunks.closed
          /\ chunks'.next = chunks.next
      <3>1. left \in Nat \ {0}
        BY <1>16, <1>18
      <3> QED  BY <1>3, <2>1, <2>2, <3>1 DEF Windows
    <2>4. Origin' = Origin /\ Doc' = Doc /\ First' = First /\ Beyond' = Beyond
      BY <1>1, <2>3, WindowStays
    <2>5. WindowFits'
      <3>1. stream.pos + chunks.remain = Origin + Beyond
        BY <1>3 DEF WindowFits
      <3>2. stream'.pos + chunks'.remain = Origin' + Beyond'
        <4>1. stream'.pos = stream.pos + n /\ chunks'.remain = left
          BY <1>15, <2>3
        <4>2. stream.pos + n + left = stream.pos + chunks.remain
          <5>1. left \in Int /\ left = chunks.remain - n
            BY <1>16
          <5> QED  BY <1>c, <5>1
        <4> QED  BY <2>4, <3>1, <4>1, <4>2
      <3>3. Origin' + First' <= stream'.pos
        <4>1. Origin + First <= stream.pos
          BY <1>3 DEF WindowFits
        <4>2. stream'.pos = stream.pos + n
          BY <1>15
        <4>3. Origin + First <= stream.pos + n
          BY <1>2, <1>3, <4>1
        <4> QED  BY <2>4, <4>2, <4>3
      <3> QED  BY <1>1, <1>3, <1>13, <2>3, <2>4, <3>2, <3>3 DEF WindowFits
    <2>6. PICK t \in Nat : Taken(t)
      BY <1>1 DEF ReaderIInv, PipeFits
    <2>7. Taken(t)'
      <3>1. stream.pos + Len(chunks.data) \in {Origin + Reach(t), Origin + Beyond}
        BY <2>6 DEF Taken
      <3>2. stream'.pos + Len(chunks'.data) = stream.pos + m
        <4>1. stream'.pos = stream.pos + n /\ Len(chunks'.data) = m - n
          BY <1>15, <2>2, <2>3
        <4>2. stream.pos + n + (m - n) = stream.pos + m
          BY <1>2, <1>3, <1>8
        <4> QED  BY <4>1, <4>2
      <3>3. stream.pos + m \in {Origin + Reach(t), Origin + Beyond}
        <4>1. CASE m = Len(chunks.data)
          BY <3>1, <4>1
        <4>2. CASE m = chunks.remain
          BY <1>3, <4>2 DEF WindowFits
        <4> QED  BY <1>8, <4>1, <4>2
      <3>4. Reach(t)' = Reach(t)
        BY <1>1, <2>3, WindowStays
      <3> QED  BY <2>1, <2>3, <2>4, <2>6, <3>2, <3>3, <3>4 DEF Taken
    <2>8. ASSUME NEW i \in DOMAIN result' PROVE OutcomeFits(i)'
      <3>1. Fetched(i)' = Fetched(i)
        BY <1>1, <2>3, WindowStays
      <3>2. OutcomeFits(i)
        BY <1>1, <2>1, <2>8 DEF ReaderIInv, PipeFits
      <3> QED  BY <2>1, <2>3, <3>1, <3>2 DEF OutcomeFits
    <2>9. \A k \in 1..Len(chunks'.data) : chunks'.data[k] = stream'.pos + k - 1
      <3>1. chunks'.data = rest /\ Len(rest) = m - n /\ stream'.pos = stream.pos + n
        BY <1>15, <2>2, <2>3
      <3> QED  BY <2>2, <3>1
    <2>10. PipeFits'
      BY <2>5, <2>7, <2>8, <2>9 DEF PipeFits
    <2>11. FileFits' /\ FrameFits'
      BY <1>1, <1>5, <1>13, FileStays, FrameStays
    <2>12. StreamFits'
      <3>1. chunks' # NoChunks
        BY <2>3 DEF Windows, NoChunks
      <3> QED  BY <1>1, <1>3, <1>13, <1>15, <2>3, <3>1 DEF StreamFits, Copying
    <2>13. CutHasCause'
      BY <1>13 DEF CutHasCause
    <2> QED  BY <1>13, <1>14, <2>10, <2>11, <2>12, <2>13 DEF ReaderIInv
  <1> QED  BY <1>17, <1>18

\* The window that begins at the position.
LEMMA OpenAtFits ==
  ASSUME ReaderAssumption, FileFits, stream.pos \in Nat, stream.window \in Nat \ {0},
         stream.pos < kept.size, chunks' = OpenAt(stream.pos, stream.window)
  PROVE  /\ chunks' \in Windows /\ chunks'.seg <= SegmentCount(kept.size)
         /\ chunks'.data = <<>> /\ chunks'.next = 0 /\ ~chunks'.cancelled /\ ~chunks'.closed
         /\ chunks'.remain = chunks'.plan.length
         /\ chunks'.plan.leftCut < chunks'.plan.size
         /\ First' \in Nat /\ Beyond' \in Nat /\ Origin' \in Nat
         /\ Beyond' = First' + chunks'.plan.length
         /\ Beyond' <= chunks'.plan.base + chunks'.plan.count * chunks'.plan.size
         /\ Beyond' <= SegSize /\ Origin' + Beyond' <= kept.size
         /\ Origin' + First' = stream.pos
  <1> DEFINE pos    == stream.pos
             q      == pos \div SegSize
             start  == pos % SegSize
             base   == ((q + 1) - 1) * SegSize
             segEnd == Smaller(base + SegSize, kept.size) - 1 - base
             end    == IF stream.window < MaxWindow THEN Smaller(segEnd, start + stream.window - 1)
                       ELSE segEnd
             size   == ChunkSize(start, end)
             cut    == start % size
             from   == start - cut
             count  == (end - from) \div size
             plan   == PlanChunks(start, end, size)
  <1>0. chunks' = [seg |-> q + 1, plan |-> plan, remain |-> plan.length, data |-> <<>>,
                   next |-> 0, cancelled |-> FALSE, closed |-> FALSE]
    BY DEF OpenAt
  <1>p. plan = [size |-> size, base |-> from, count |-> count + 1,
                leftCut |-> start - from, length |-> end - start + 1]
    BY DEF PlanChunks
  <1> HIDE DEF plan
  <1>1. pos \in Nat /\ SegSize \in Nat \ {0} /\ kept.size \in Nat /\ pos < kept.size
        /\ stream.window \in Nat \ {0}
    BY DEF ReaderAssumption, FileFits
  <1>2. q \in Nat /\ start \in 0..(SegSize - 1) /\ pos = base + start /\ base = q * SegSize
    <2>1. q \in Nat /\ start \in 0..(SegSize - 1) /\ pos = q * SegSize + start
      BY <1>1, Quotient
    <2>2. base = q * SegSize
      <3> HIDE DEF q
      <3>1. (q + 1) - 1 = q
        BY <2>1
      <3> QED  BY <3>1
    <2> QED  BY <2>1, <2>2
  <1>3. base \in Nat
    <2> HIDE DEF q
    <2> QED  BY <1>1, <1>2
  <1> HIDE DEF start, base
  <1>4. segEnd \in Nat /\ start <= segEnd /\ segEnd < SegSize /\ base + segEnd < kept.size
    <2>1. start \in Nat /\ base + start < kept.size /\ start < SegSize
      BY <1>1, <1>2
    <2>2. /\ Smaller(base + SegSize, kept.size) \in Int
          /\ Smaller(base + SegSize, kept.size) <= base + SegSize
          /\ Smaller(base + SegSize, kept.size) <= kept.size
          /\ base + start + 1 <= Smaller(base + SegSize, kept.size)
      BY <1>1, <1>3, <2>1 DEF Smaller
    <2> DEFINE m == Smaller(base + SegSize, kept.size)
    <2> HIDE DEF m
    <2>3. m \in Int /\ m <= base + SegSize /\ m <= kept.size /\ base + start + 1 <= m
          /\ segEnd = m - 1 - base
      BY <2>2 DEF m
    <2> QED  BY <1>1, <1>3, <2>1, <2>3
  <1> HIDE DEF segEnd
  <1>5. end \in Nat /\ start <= end /\ end <= segEnd
    <2>1. start \in Nat /\ MaxWindow \in Nat
      BY <1>2 DEF ReaderAssumption
    <2> QED  BY <1>1, <1>4, <2>1 DEF Smaller
  <1> HIDE DEF end
  <1>6. size \in Nat \ {0}
    <2>1. start \in Int /\ end \in Int
      BY <1>2, <1>5
    <2> QED  BY <2>1, ChunkPositive
  <1> HIDE DEF size
  <1>7. cut \in 0..(size - 1) /\ start = (start \div size) * size + cut
        /\ start \div size \in Nat /\ start \in Nat
    <2>1. start \in Nat
      BY <1>2
    <2> QED  BY <1>6, <2>1, Quotient
  <1> HIDE DEF cut
  <1>8. from \in Nat /\ from <= start
    <2> DEFINE p == (start \div size) * size
    <2>1. p \in Nat
      <3> DEFINE r == start \div size
      <3>1. r \in Nat
        BY <1>7
      <3>2. p = r * size
        OBVIOUS
      <3> HIDE DEF r, p
      <3> QED  BY <1>6, <3>1, <3>2
    <2>2. start = p + cut /\ cut \in Nat
      BY <1>6, <1>7
    <2> HIDE DEF p
    <2> QED  BY <2>1, <2>2
  <1> HIDE DEF from
  <1>9. end - from \in Nat /\ count \in Nat /\ end < from + (count + 1) * size
    <2> DEFINE d == end - from
    <2>1. d \in Nat
      BY <1>5, <1>7, <1>8
    <2> HIDE DEF d
    <2>2. /\ d \div size \in Nat /\ d % size \in 0..(size - 1)
          /\ d = (d \div size) * size + (d % size)
      BY <1>6, <2>1, Quotient
    <2> DEFINE c == d \div size
               r == d % size
    <2>3. c \in Nat /\ r < size /\ r \in Nat /\ d = c * size + r
      BY <1>6, <2>2
    <2> HIDE DEF c, r
    <2>4. c * size \in Int /\ (c + 1) * size = c * size + size
      BY <1>6, <2>3, NextProduct
    <2>5. d < (c + 1) * size /\ (c + 1) * size \in Int
      BY <1>6, <2>3, <2>4
    <2>6. count = c
      BY DEF c, d
    <2> HIDE DEF count
    <2>7. end < from + (c + 1) * size
      <3> DEFINE x == (c + 1) * size
      <3>1. d < x /\ x \in Int /\ d = end - from
        BY <2>5 DEF d
      <3> HIDE DEF x
      <3>2. end < from + x
        BY <1>5, <1>8, <3>1
      <3> QED  BY <3>2 DEF x
    <2> QED  BY <2>1, <2>3, <2>6, <2>7 DEF d
  <1> HIDE DEF q, count
  <1>10. chunks' = [seg |-> q + 1,
                    plan |-> [size |-> size, base |-> from, count |-> count + 1,
                              leftCut |-> start - from, length |-> end - start + 1],
                    remain |-> end - start + 1, data |-> <<>>,
                    next |-> 0, cancelled |-> FALSE, closed |-> FALSE]
    BY <1>0, <1>p
  <1>11. start - from = cut /\ cut \in Nat /\ cut < size /\ from + (start - from) = start
         /\ end - start + 1 \in Nat \ {0} /\ count + 1 \in Nat \ {0} /\ q + 1 \in Nat \ {0}
    <2>1. cut \in Nat /\ cut < size
      BY <1>6, <1>7
    <2>2. start - from = cut /\ from + (start - from) = start
      BY <1>7, <2>1 DEF from
    <2> QED  BY <1>2, <1>5, <1>7, <1>9, <2>1, <2>2
  <1>12. chunks' \in Windows
    BY <1>6, <1>8, <1>10, <1>11, SMTT(60) DEF Windows, Plans
  <1>13. First' = start /\ Beyond' = end + 1 /\ Origin' = base
    <2>1. First' = from + (start - from)
      BY <1>10 DEF First
    <2>2. First' = start
      BY <1>11, <2>1
    <2>3. Beyond' = start + (end - start + 1)
      BY <1>10, <2>2 DEF Beyond
    <2>4. start + (end - start + 1) = end + 1
      BY <1>5, <1>7
    <2>5. Origin' = ((q + 1) - 1) * SegSize /\ (q + 1) - 1 = q
      BY <1>2, <1>10 DEF Origin
    <2> QED  BY <2>2, <2>3, <2>4, <2>5 DEF base
  <1>14. q + 1 <= SegmentCount(kept.size)
    <2> DEFINE s == q + 1
    <2>1. (s - 1) * SegSize < kept.size
      <3>1. base < kept.size
        <4>1. base \in Int /\ start \in Int /\ start >= 0 /\ kept.size \in Int
          BY <1>1, <1>3, <1>7
        <4>2. base + start < kept.size
          BY <1>1, <1>2
        <4> QED  BY <4>1, <4>2
      <3> QED  BY <3>1 DEF base
    <2>2. s \in Nat \ {0}
      BY <1>11
    <2> HIDE DEF s
    <2>3. s <= SegmentCount(kept.size)
      BY <1>1, <2>1, <2>2, SegmentBegins
    <2> QED  BY <2>3 DEF s
  <1>15. /\ Beyond' <= SegSize /\ Origin' + Beyond' <= kept.size
         /\ Origin' + First' = stream.pos
         /\ Beyond' = First' + (end - start + 1)
    <2>1. end + 1 <= SegSize /\ base + (end + 1) <= kept.size /\ base + start = stream.pos
      BY <1>1, <1>2, <1>3, <1>4, <1>5
    <2>2. end + 1 = start + (end - start + 1)
      BY <1>5, <1>7
    <2> QED  BY <1>13, <2>1, <2>2
  <1>16. Beyond' <= from + (count + 1) * size
    <2> DEFINE x == (count + 1) * size
    <2>1. x \in Int /\ end < from + x
      <3>1. count + 1 \in Int
        BY <1>9
      <3> QED  BY <1>6, <1>9, <3>1
    <2> HIDE DEF x
    <2>2. end + 1 <= from + x
      BY <1>5, <1>8, <2>1
    <2> QED  BY <1>13, <2>2 DEF x
  <1> QED  BY <1>3, <1>5, <1>7, <1>10, <1>11, <1>12, <1>13, <1>14, <1>15, <1>16

\* A new window begins at the position of the reader (reader.go: openWindow).
LEMMA OpenWindowHolds ==
  ASSUME ReaderAssumption, ReaderIInv, OpenWindow
  PROVE  ReaderIInv'
  <1>1. Copying /\ Wanting > 0 /\ chunks = NoChunks /\ stream.pos < kept.size
    BY DEF OpenWindow
  <1>2. /\ answer \in Answers /\ FileFits /\ FrameFits /\ BodyFits /\ StreamFits
        /\ Served /\ answer.phase = "copying"
    BY <1>1 DEF ReaderIInv, Copying, Served
  <1>3. /\ stream.pos \in Nat /\ stream.window \in Nat \ {0} /\ faults \in Nat
        /\ futures = <<>> /\ result = <<>>
    BY <1>1, <1>2 DEF StreamFits
  <1>4. /\ SegSize \in Nat \ {0} /\ kept.size \in Nat
    BY <1>2 DEF ReaderAssumption, FileFits
  <1>5. /\ stream.pos \in Wanted /\ answer.start \in Nat /\ answer.start <= stream.pos
    BY <1>1, PositionWanted
  <1>6. CASE /\ kept.docs[stream.pos \div SegSize + 1] = 0
             /\ EndCopy("cut")
    <2>1. stream.pos % SegSize >= 0
      <3>1. stream.pos % SegSize \in 0..(SegSize - 1)
        BY <1>3, <1>4, Quotient
      <3> QED  BY <1>4, <3>1
    <2> QED  BY <1>1, <1>5, <1>6, <2>1, EndCopyHolds
  <1>7. CASE /\ chunks' = OpenAt(stream.pos, stream.window)
             /\ UNCHANGED <<kept, ask, answer, stream, futures, result, faults>>
    <2>1. /\ chunks' \in Windows /\ chunks'.seg <= SegmentCount(kept.size)
          /\ chunks'.data = <<>> /\ chunks'.next = 0 /\ ~chunks'.cancelled /\ ~chunks'.closed
          /\ chunks'.remain = chunks'.plan.length
          /\ chunks'.plan.leftCut < chunks'.plan.size
          /\ First' \in Nat /\ Beyond' \in Nat /\ Origin' \in Nat
          /\ Beyond' = First' + chunks'.plan.length
          /\ Beyond' <= chunks'.plan.base + chunks'.plan.count * chunks'.plan.size
          /\ Beyond' <= SegSize /\ Origin' + Beyond' <= kept.size
          /\ Origin' + First' = stream.pos
      BY <1>1, <1>2, <1>3, <1>7, OpenAtFits
    <2>2. chunks'.plan.length \in Nat /\ chunks'.plan.count \in Nat \ {0}
      BY <2>1 DEF Windows, Plans
    <2>3. WindowFits'
      <3>1. stream'.pos + chunks'.remain = Origin' + Beyond'
        <4> DEFINE n == chunks'.plan.length
        <4>1. n \in Int /\ stream.pos \in Int /\ First' \in Int /\ Origin' \in Int
          <5>1. n \in Int
            BY <2>2
          <5>2. stream.pos \in Int
            BY <1>3
          <5>3. First' \in Int /\ Origin' \in Int
            BY <2>1
          <5> QED  BY <5>1, <5>2, <5>3
        <4>2. chunks'.remain = n /\ Beyond' = First' + n /\ Origin' + First' = stream.pos
          BY <2>1
        <4> HIDE DEF n
        <4>3. stream.pos + n = Origin' + (First' + n)
          BY <4>1, <4>2
        <4> QED  BY <1>7, <4>2, <4>3
      <3>2. Origin' + First' <= stream'.pos /\ answer'.start <= Origin' + First'
        BY <1>3, <1>5, <1>7, <2>1
      <3> QED  BY <1>7, <2>1, <3>1, <3>2 DEF WindowFits
    <2>4. Taken(0)'
      <3>1. DOMAIN result' = 0..(0 + Len(futures') - 1) /\ futures' \in Seq(Nat)
            /\ Len(futures') = 0
        BY <1>3, <1>7
      <3>2. stream'.pos + Len(chunks'.data) = Origin' + Reach(0)'
        BY <1>3, <1>7, <2>1 DEF Reach
      <3> QED  BY <1>7, <2>1, <3>1, <3>2 DEF Taken
    <2>5. PipeFits'
      <3>1. \E t \in Nat : Taken(t)'
        BY <2>4
      <3>2. DOMAIN result' = {} /\ Len(chunks'.data) = 0
        BY <1>3, <1>7, <2>1
      <3> QED  BY <2>3, <3>1, <3>2 DEF PipeFits
    <2>6. FileFits' /\ FrameFits'
      BY <1>2, <1>7, FileStays, FrameStays
    <2>7. BodyFits' /\ (answer \in Answers)'
      BY <1>2, <1>7 DEF BodyFits
    <2>8. StreamFits'
      <3>1. chunks' # NoChunks
        BY <2>1 DEF Windows, NoChunks
      <3> QED  BY <1>1, <1>2, <1>7, <2>1, <3>1 DEF StreamFits, Copying
    <2>9. CutHasCause'
      BY <1>2, <1>7 DEF CutHasCause
    <2> QED  BY <2>5, <2>6, <2>7, <2>8, <2>9 DEF ReaderIInv
  <1> QED  BY <1>6, <1>7 DEF OpenWindow

\* The copying ends with the body, or with the client.
LEMMA EndHolds ==
  ASSUME ReaderIInv, Finish \/ ClientGone
  PROVE  ReaderIInv'
  BY EndCopyHolds DEF Finish, ClientGone

\* Before the first request the invariant holds.
LEMMA ReaderInitHolds == ReaderAssumption /\ ReaderInit => ReaderIInv
  <1> SUFFICES ASSUME ReaderAssumption, ReaderInit PROVE ReaderIInv
    OBVIOUS
  <1>1. PICK size \in FileSizes : \E docs \in Stored(size), pending \in BOOLEAN :
          kept = [size |-> size, docs |-> docs, pending |-> pending]
    BY DEF ReaderInit
  <1>2. PICK docs \in Stored(size), pending \in BOOLEAN :
          kept = [size |-> size, docs |-> docs, pending |-> pending]
    BY <1>1
  <1>3. size \in Nat /\ ShortDocs \subseteq Nat /\ SegSize \in Nat /\ MaxSegment \in Nat
    BY DEF ReaderAssumption
  <1>4. docs \in [1..SegmentCount(size) -> Nat]
    <2>1. docs \in [1..SegmentCount(size) -> ShortDocs \cup 1..SegSize]
      BY DEF Stored
    <2>2. ShortDocs \cup 1..SegSize \subseteq Nat
      <3>1. 1..SegSize \subseteq Nat
        OBVIOUS
      <3> QED  BY <1>3, <3>1
    <2> QED  BY <2>1, <2>2
  <1>5. \A i \in 1..SegmentCount(size) : docs[i] <= SegmentSize(size, i)
    <2> SUFFICES ASSUME NEW i \in 1..SegmentCount(size) PROVE docs[i] <= SegmentSize(size, i)
      OBVIOUS
    <2>1. docs[i] \in Nat
      BY <1>4
    <2>2. docs[i] = SegmentSize(size, i) \/ docs[i] < SegmentSize(size, i)
      BY <1>4 DEF Stored
    <2>3. CASE docs[i] = SegmentSize(size, i)
      BY <2>1, <2>3
    <2>4. CASE docs[i] < SegmentSize(size, i)
      <3>1. SegmentSize(size, i) \in Int
        <4>1. i - 1 \in Int
          OBVIOUS
        <4>2. (i - 1) * SegSize \in Int
          BY <1>3, <4>1
        <4> QED  BY <1>3, <4>2 DEF SegmentSize, Smaller
      <3> QED  BY <2>1, <2>4, <3>1
    <2> QED  BY <2>2, <2>3, <2>4
  <1>6. ask \in [segment : Nat, range : RangeHeaders]
    BY <1>3 DEF ReaderInit
  <1>7. FileFits
    BY <1>2, <1>3, <1>4, <1>5, <1>6 DEF FileFits
  <1>8. /\ answer = NoAnswer /\ stream = [pos |-> 0, window |-> InitialWindow]
        /\ chunks = NoChunks /\ futures = <<>> /\ result = <<>> /\ faults = 0
    BY DEF ReaderInit
  <1>9. answer \in Answers /\ FrameFits /\ BodyFits /\ CutHasCause
    BY <1>8 DEF NoAnswer, Answers, FrameFits, Served, BodyFits, CutHasCause
  <1>10. StreamFits /\ PipeFits
    <2>1. InitialWindow \in Nat \ {0}
      BY DEF ReaderAssumption
    <2> QED  BY <1>8, <2>1 DEF NoAnswer, StreamFits, Copying, PipeFits
  <1> QED  BY <1>7, <1>9, <1>10 DEF ReaderIInv

\* A step that changes nothing keeps the invariant.
LEMMA ReaderStutters ==
  ASSUME ReaderAssumption, ReaderIInv, UNCHANGED readerVars
  PROVE  ReaderIInv'
  <1>1. /\ kept' = kept /\ ask' = ask /\ answer' = answer /\ stream' = stream
        /\ chunks' = chunks /\ futures' = futures /\ result' = result /\ faults' = faults
    BY DEF readerVars
  <1>2. /\ answer \in Answers /\ FileFits /\ FrameFits /\ BodyFits /\ StreamFits
        /\ PipeFits /\ CutHasCause
    BY DEF ReaderIInv
  <1>3. /\ FileFits' /\ Wanted' = Wanted /\ AskedWindow' = AskedWindow /\ Asked' = Asked
        /\ (Full' <=> Full)
    BY <1>1, <1>2, FileStays
  <1>4. FrameFits' /\ BodyFits' /\ (answer \in Answers)'
    BY <1>1, <1>2, <1>3 DEF FrameFits, Served, BodyFits
  <1>5. StreamFits' /\ CutHasCause'
    BY <1>1, <1>2, <1>3 DEF StreamFits, Copying, CutHasCause
  <1>6. PipeFits'
    <2> SUFFICES ASSUME chunks # NoChunks PROVE PipeFits'
      BY <1>1 DEF PipeFits
    <2>1. Origin' = Origin /\ Doc' = Doc /\ First' = First /\ Beyond' = Beyond
      BY <1>1, WindowStays
    <2>2. WindowFits'
      BY <1>1, <1>2, <2>1 DEF PipeFits, WindowFits
    <2>3. PICK t \in Nat : Taken(t)
      BY <1>2 DEF PipeFits
    <2>4. Taken(t)'
      <3>1. Reach(t)' = Reach(t)
        BY <1>1, WindowStays
      <3> QED  BY <1>1, <2>1, <2>3, <3>1 DEF Taken
    <2>5. ASSUME NEW i \in DOMAIN result' PROVE OutcomeFits(i)'
      <3>1. Fetched(i)' = Fetched(i)
        BY <1>1, WindowStays
      <3>2. OutcomeFits(i)
        BY <1>1, <1>2, <2>5 DEF PipeFits
      <3> QED  BY <1>1, <3>1, <3>2 DEF OutcomeFits
    <2>6. \A k \in 1..Len(chunks'.data) : chunks'.data[k] = stream'.pos + k - 1
      BY <1>1, <1>2 DEF PipeFits
    <2> QED  BY <2>2, <2>4, <2>5, <2>6 DEF PipeFits
  <1> QED  BY <1>3, <1>4, <1>5, <1>6 DEF ReaderIInv

\* Every step keeps the invariant.
LEMMA ReaderStepHolds ==
  ASSUME ReaderAssumption, ReaderIInv, [ReaderNext]_readerVars
  PROVE  ReaderIInv'
  <1>1. ASSUME NEW head \in BOOLEAN, ServeBegin(head) PROVE ReaderIInv'
    BY <1>1, ServeBeginHolds
  <1>2. CASE Lease \/ Open
    BY <1>2, LeaseHolds, OpenHolds
  <1>3. ASSUME NEW len \in 1..kept.size, ServeStaged(len) PROVE ReaderIInv'
    <2>1. len \in Nat
      BY DEF ReaderIInv, FileFits
    <2> QED  BY <1>3, <2>1, ServeStagedHolds
  <1>4. CASE Pump \/ PumpReturn
    BY <1>4, PumpHolds, PumpReturnHolds
  <1>5. ASSUME NEW i \in Flying, Fetch(i) PROVE ReaderIInv'
    <2>1. chunks # NoChunks
      <3> SUFFICES ASSUME chunks = NoChunks PROVE FALSE
        OBVIOUS
      <3>1. result = <<>>
        BY DEF ReaderIInv, StreamFits
      <3>2. i \in DOMAIN result
        BY DEF Flying
      <3> QED  BY <3>1, <3>2
    <2> QED  BY <1>5, <2>1, FetchHolds
  <1>6. CASE OpenWindow \/ TakeChunk \/ ReadFails
    BY <1>6, OpenWindowHolds, TakeChunkHolds, ReadFailsHolds
  <1>7. ASSUME NEW n \in 1..MaxCopy, CopySome(n) PROVE ReaderIInv'
    BY <1>7, CopySomeHolds
  <1>8. CASE Finish \/ ClientGone
    BY <1>8, EndHolds
  <1>9. CASE UNCHANGED readerVars
    BY <1>9, ReaderStutters
  <1> QED  BY <1>1, <1>2, <1>3, <1>4, <1>5, <1>6, <1>7, <1>8, <1>9 DEF ReaderNext, StreamStep

\* The invariant is as strong as StreamExact: what the body holds was asked for,
\* in order, and an early end has its cause.
LEMMA AnswersFit == ReaderAssumption /\ ReaderIInv => StreamExact
  <1> SUFFICES ASSUME ReaderAssumption, ReaderIInv PROVE AnswerExact
    BY DEF StreamExact, ReaderIInv
  <1> SUFFICES ASSUME answer.status \in {200, 206}
               PROVE  /\ answer.promised = Cardinality(Wanted)
                      /\ Len(answer.body) <= answer.promised
                      /\ \A i \in DOMAIN answer.body : answer.body[i] = Least(Wanted) + i - 1
    BY DEF AnswerExact
  <1>1. /\ FileFits /\ FrameFits /\ BodyFits /\ Served /\ answer.body \in Seq(Nat)
    BY DEF ReaderIInv, Served, Answers
  <1>2. /\ Asked.ok /\ ask.segment <= SegmentCount(kept.size)
        /\ answer.promised = IF Full THEN AskedWindow.length ELSE Asked.stop - Asked.start + 1
        /\ answer.start = AskedWindow.offset + Asked.start
        /\ answer.stop = AskedWindow.offset + Asked.stop
        /\ AskedWindow.length > 0 \/ (answer.phase = "over" /\ answer.body = <<>>)
    BY <1>1 DEF FrameFits
  <1>3. CASE AskedWindow.length > 0
    <2>1. Wanted = answer.start..answer.stop
      BY <1>1, <1>2, <1>3, WantedIs
    <2>2. answer.start \in Nat /\ answer.stop \in Nat /\ answer.start <= answer.stop
      BY <1>1, FrameGives
    <2>3. /\ AskedWindow.offset \in Nat /\ AskedWindow.length \in Nat
          /\ Asked.start \in Nat /\ Asked.stop \in Nat
          /\ Full => AskedWindow.length = Asked.stop - Asked.start + 1
      BY <1>1, <1>2, <1>3, AskedFits
    <2>4. answer.promised = answer.stop - answer.start + 1
      <3>1. answer.promised = Asked.stop - Asked.start + 1
        BY <1>2, <2>3
      <3>2. answer.stop - answer.start + 1 = Asked.stop - Asked.start + 1
        BY <1>2, <2>3, SMTT(60)
      <3> QED  BY <3>1, <3>2
    <2>5. Cardinality(Wanted) = answer.stop - answer.start + 1
      <3>1. Cardinality(answer.start..answer.stop) = answer.stop - answer.start + 1
        <4>1. answer.start \in Int /\ answer.stop \in Int /\ ~(answer.start > answer.stop)
          BY <2>2
        <4> QED  BY <4>1, FS_Interval, ZenonT(60)
      <3> QED  BY <2>1, <3>1
    <2>6. Least(Wanted) = answer.start
      BY <2>1, <2>2, LeastOfInterval
    <2>7. DOMAIN answer.body = 1..Len(answer.body)
      BY <1>1
    <2> QED  BY <1>1, <2>4, <2>5, <2>6, <2>7, SMTT(60) DEF BodyFits
  <1>4. CASE ~(AskedWindow.length > 0)
    <2>1. Wanted = {} /\ AskedWindow.length = 0 /\ answer.body = <<>>
      BY <1>1, <1>2, <1>4, NothingWanted
    <2>2. answer.promised = 0
      BY <1>2, <2>1 DEF Full
    <2>3. Cardinality(Wanted) = 0
      BY <2>1, FS_EmptySet
    <2>4. Len(answer.body) = 0 /\ DOMAIN answer.body = {}
      BY <2>1
    <2> QED  BY <2>2, <2>3, <2>4
  <1> QED  BY <1>3, <1>4

\* A successful answer is the beginning of exactly the bytes the request asks
\* for, in order, and promises as many as there are; a stream that ends early
\* has a failed fetch or a short document behind it: for files, segments,
\* chunks, windows and buffers of every size, whatever comes back in which order
\* (stream.go: serveBytes; reader.go: File.Read; chunk.go: pump, fetch, Read).
THEOREM AnswersAreExact == ReaderSpec => []StreamExact
<1>1. ReaderInit => ReaderIInv
  BY ReaderInitHolds, ReaderAssumption
<1>2. ReaderIInv /\ [ReaderNext]_readerVars => ReaderIInv'
  BY ReaderStepHolds, ReaderAssumption
<1>3. ReaderIInv => StreamExact
  BY AnswersFit, ReaderAssumption
<1> QED  BY <1>1, <1>2, <1>3, PTL DEF ReaderSpec
=============================================================================
