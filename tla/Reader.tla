------------------------------ MODULE Reader ------------------------------
(***************************************************************************)
(* One byte request of the HTTP API, from its Range header to the last     *)
(* byte of the answer: the window of the file it addresses                 *)
(* (internal/api/stream.go), the seekable stream over stored segments      *)
(* (internal/reader/reader.go) and the pipeline that fetches the chunks of *)
(* one window of a segment in parallel and hands them over in order        *)
(* (internal/reader/chunk.go, plan.go).                                    *)
(*                                                                         *)
(* The content of a file is the sequence of its own offsets, so a body     *)
(* shows where each of its bytes came from.                                *)
(***************************************************************************)
EXTENDS Integers, FiniteSets, Sequences

CONSTANTS
  FileSizes,      \* sizes a file may have
  SegSize,        \* bytes of every segment but the last
  MinChunk,       \* 1 KiB in the code
  MaxChunk,       \* 1 MiB
  InitialWindow,  \* 1 MiB
  MaxWindow,      \* 32 MiB
  Concurrency,    \* fetches at once
  Buffers,        \* futures that may wait to be read
  MaxCopy,        \* bytes one Read may ask for
  ShortDocs,      \* lengths a document that is too short may have
  MaxSegment,     \* bound: numbers of a segment in a request
  MaxOffset,      \* bound: numbers in a Range header
  MaxChunkFaults  \* bound: fetches that fail

ASSUME ReaderAssumption ==
  /\ FileSizes \cup ShortDocs \subseteq Nat
  /\ {SegSize, MinChunk, MaxChunk, InitialWindow, MaxWindow,
      Concurrency, Buffers, MaxCopy} \subseteq Nat \ {0}
  /\ {MaxSegment, MaxOffset, MaxChunkFaults} \subseteq Nat

VARIABLES
  kept,     \* [size, docs]: the file row and the length of each stored document
  ask,      \* [segment, range]: what the client asks for
  answer,   \* [phase, status, promised, start, stop, body, text]: the response
  stream,   \* [pos, window]: reader.File
  chunks,   \* the open chunkReader, or NoChunks
  futures,  \* indices of published chunks the reader has not taken
  result,   \* [is, data]: outcome of each published chunk
  faults    \* fetches that have failed

readerVars == <<kept, ask, answer, stream, chunks, futures, result, faults>>

Smaller(i, j) == IF i < j THEN i ELSE j

(* The bytes i..j of a document that begins at offset base of the file.    *)
Bytes(base, i, j) == [k \in 1..(j - i + 1) |-> base + i + k - 1]

SegmentCount(size) == (size + SegSize - 1) \div SegSize

---------------------------------------------------------------------------
(* Range headers. A header with several ranges stands for its first one.   *)

RangeHeaders == [kind : {"none", "malformed"}]
            \cup [kind : {"from"}, first : 0..MaxOffset]
            \cup [kind : {"between"}, first : 0..MaxOffset, last : 0..MaxOffset]
            \cup [kind : {"suffix"}, count : 0..MaxOffset]

Span(start, end, ranged) ==
  [ok |-> TRUE, ranged |-> ranged, start |-> start, stop |-> end]
Unsatisfiable == [ok |-> FALSE, ranged |-> FALSE, start |-> 0, stop |-> 0]

ParseRange(h, size) ==
  IF h.kind = "none" \/ size = 0
    THEN Span(0, IF size = 0 THEN 0 ELSE size - 1, FALSE)
    ELSE CASE h.kind = "malformed" -> Unsatisfiable
           [] h.kind = "suffix" ->
                IF h.count = 0 THEN Unsatisfiable
                ELSE Span(size - Smaller(h.count, size), size - 1, TRUE)
           [] h.kind = "from" ->
                IF h.first >= size THEN Unsatisfiable
                ELSE Span(h.first, size - 1, TRUE)
           [] h.kind = "between" ->
                IF h.first >= size \/ h.last < h.first THEN Unsatisfiable
                ELSE Span(h.first, Smaller(h.last, size - 1), TRUE)

---------------------------------------------------------------------------
(* Windows of a file: segment 0 stands for the whole file.                 *)

SegmentSize(size, index) ==
  LET start == (index - 1) * SegSize
  IN  IF start >= size THEN 0 ELSE Smaller(SegSize, size - start)

Window(size, index) ==
  IF index = 0
    THEN [offset |-> 0, length |-> size]
    ELSE [offset |-> (index - 1) * SegSize, length |-> SegmentSize(size, index)]

---------------------------------------------------------------------------
(* The layout of one fetch window.                                         *)

(* The largest power of two times MinChunk, up to MaxChunk, that is not    *)
(* more than the distance from start to end, but at least MinChunk.        *)
ChunkSize(start, end) ==
  LET fits == {s \in MinChunk..MaxChunk :
                 /\ \E k \in 0..20 : s * 2^k = MaxChunk
                 /\ s <= end - start}
  IN  IF fits = {} THEN MinChunk ELSE CHOOSE s \in fits : \A t \in fits : t <= s

PlanChunks(start, end, size) ==
  LET base == start - (start % size)
  IN  [size    |-> size,
       base    |-> base,
       count   |-> (end - base) \div size + 1,
       leftCut |-> start - base,
       length  |-> end - start + 1]

NoChunks == [seg |-> 0]

OpenAt(pos, window) ==
  LET seg    == pos \div SegSize + 1
      start  == pos % SegSize
      base   == (seg - 1) * SegSize
      segEnd == Smaller(base + SegSize, kept.size) - 1 - base
      end    == IF window < MaxWindow THEN Smaller(segEnd, start + window - 1)
                ELSE segEnd
      plan   == PlanChunks(start, end, ChunkSize(start, end))
  IN  [seg |-> seg, plan |-> plan, remain |-> plan.length, data |-> <<>>,
       next |-> 0, cancelled |-> FALSE, closed |-> FALSE]

---------------------------------------------------------------------------
(* serveBytes up to the first byte of the body.                            *)

NoAnswer == [phase |-> "idle", status |-> 0, promised |-> 0,
         start |-> 0, stop |-> 0, body |-> <<>>, text |-> FALSE]

Refuse(status) ==
  /\ answer' = [NoAnswer EXCEPT !.phase = "over", !.status = status]
  /\ UNCHANGED <<kept, ask, stream, chunks, futures, result, faults>>

AskedWindow == Window(kept.size, ask.segment)
Asked == ParseRange(ask.range, AskedWindow.length)
Full == AskedWindow.length = 0 \/ ~Asked.ranged

(* A segment the file does not have, a file still uploading, a range       *)
(* outside of it, and a HEAD request (promised without a body).            *)
ServeBegin(head) ==
  /\ answer.phase = "idle"
  /\ \/ /\ ask.segment > SegmentCount(kept.size)
        /\ Refuse(404)
     \/ /\ ask.segment <= SegmentCount(kept.size) /\ kept.pending
        /\ Refuse(409)
     \/ /\ ask.segment <= SegmentCount(kept.size) /\ ~kept.pending /\ ~Asked.ok
        /\ Refuse(416)
     \/ /\ ask.segment <= SegmentCount(kept.size) /\ ~kept.pending /\ Asked.ok
        /\ answer' = [phase    |-> IF head \/ AskedWindow.length = 0
                                     THEN "over" ELSE "queued",
                      status   |-> IF ~head /\ AskedWindow.length > 0 THEN 0
                                   ELSE IF Full THEN 200 ELSE 206,
                      promised |-> IF Full THEN AskedWindow.length
                                   ELSE Asked.stop - Asked.start + 1,
                      start    |-> AskedWindow.offset + Asked.start,
                      stop     |-> AskedWindow.offset + Asked.stop,
                      body     |-> <<>>,
                      text     |-> FALSE]
        /\ UNCHANGED <<kept, ask, stream, chunks, futures, result, faults>>

(* AcquireDownloadSession: a slot, or no slot and an error.                *)
Lease ==
  /\ answer.phase = "queued"
  /\ \/ /\ answer' = [answer EXCEPT !.phase = "leased"]
        /\ UNCHANGED <<kept, ask, stream, chunks, futures, result, faults>>
     \/ Refuse(503)

(* A staged copy of len bytes serves the request unless it is too short.   *)
ServeStaged(len) ==
  /\ answer.phase = "leased"
  /\ len >= answer.stop + 1
  /\ \E n \in 0..(answer.stop - answer.start + 1) :
       answer' = [answer EXCEPT !.phase  = "over",
                                !.status = IF Full THEN 200 ELSE 206,
                                !.body   = Bytes(answer.start, 0, n - 1)]
  /\ UNCHANGED <<kept, ask, stream, chunks, futures, result, faults>>

(* OpenFile and Seek. The 206 of a range request goes out before the file  *)
(* is opened, so the text of an error becomes the body of a 206.           *)
Open ==
  /\ answer.phase = "leased"
  /\ \/ /\ answer' = [answer EXCEPT !.phase = "copying",
                                    !.status = IF Full THEN 200 ELSE 206]
        /\ stream' = [pos |-> answer.start, window |-> InitialWindow]
        /\ UNCHANGED <<kept, ask, chunks, futures, result, faults>>
     \/ /\ answer' = [answer EXCEPT !.phase = "over",
                                    !.status = IF Full THEN 500 ELSE 206,
                                    !.text = TRUE]
        /\ UNCHANGED <<kept, ask, stream, chunks, futures, result, faults>>

---------------------------------------------------------------------------
(* The pipeline of one window: pump, fetches and the reader.               *)

Pending == [is |-> "pending", data |-> <<>>]
Flying == {i \in DOMAIN result : result[i].is = "pending"}

(* The next fetch starts when the semaphore and the queue have room; its   *)
(* future is queued first. A cancelled pump may get through once more.     *)
Pump ==
  /\ chunks # NoChunks
  /\ chunks.next < chunks.plan.count
  /\ Cardinality(Flying) < Concurrency
  /\ Len(futures) < Buffers
  /\ result' = [i \in DOMAIN result \cup {chunks.next} |->
                  IF i = chunks.next THEN Pending ELSE result[i]]
  /\ futures' = Append(futures, chunks.next)
  /\ chunks' = [chunks EXCEPT !.next = @ + 1]
  /\ UNCHANGED <<kept, ask, answer, stream, faults>>

(* Mutation: a pump that has issued everything leaves the queue open. *)
PumpReturn_LeftOpen ==
  /\ chunks # NoChunks
  /\ ~chunks.closed
  /\ chunks.cancelled
  /\ Flying = {}
  /\ chunks' = [chunks EXCEPT !.closed = TRUE, !.next = chunks.plan.count]
  /\ UNCHANGED <<kept, ask, answer, stream, futures, result, faults>>

(* The pump has issued everything, or was cancelled, and its fetches have  *)
(* ended: the queue is closed.                                             *)
PumpReturn ==
  /\ chunks # NoChunks
  /\ ~chunks.closed
  /\ chunks.next = chunks.plan.count \/ chunks.cancelled
  /\ Flying = {}
  /\ chunks' = [chunks EXCEPT !.closed = TRUE, !.next = chunks.plan.count]
  /\ UNCHANGED <<kept, ask, answer, stream, futures, result, faults>>

(* Mutation: the head of the first chunk is not dropped. *)
Fetched_Uncut(i) ==
  LET p     == chunks.plan
      first == p.base + i * p.size
      last  == Smaller(first + p.size, kept.docs[chunks.seg]) - 1
  IN  Bytes((chunks.seg - 1) * SegSize, first, last)

(* What a fetch of chunk i brings: the stored bytes of its place, without  *)
(* the head the first chunk does not owe.                                  *)
Fetched(i) ==
  LET p     == chunks.plan
      first == p.base + i * p.size
      last  == Smaller(first + p.size, kept.docs[chunks.seg]) - 1
      skip  == IF i = 0 THEN p.leftCut ELSE 0
  IN  Bytes((chunks.seg - 1) * SegSize, first + skip, last)

Fail(i, how) ==
  /\ result' = [result EXCEPT ![i].is = how]
  /\ chunks' = [chunks EXCEPT !.cancelled = TRUE]

(* A fetch answers its own future. A failed one, one whose context is gone *)
(* and a first chunk too short for its cut cancel the others.              *)
Fetch(i) ==
  /\ i \in Flying
  /\ \/ /\ i = 0 /\ chunks.plan.leftCut > 0 /\ Fetched(i) = <<>>
        /\ Fail(i, "short")
        /\ UNCHANGED faults
     \/ /\ ~(i = 0 /\ chunks.plan.leftCut > 0 /\ Fetched(i) = <<>>)
        /\ result' = [result EXCEPT ![i] = [is |-> "data", data |-> Fetched(i)]]
        /\ UNCHANGED <<chunks, faults>>
     \/ /\ \/ chunks.cancelled /\ UNCHANGED faults
           \/ ~chunks.cancelled /\ faults < MaxChunkFaults /\ faults' = faults + 1
        /\ \E how \in {"failed", "eof"} : Fail(i, how)
  /\ UNCHANGED <<kept, ask, answer, stream, futures>>

---------------------------------------------------------------------------
(* io.CopyN over File.Read: one action per way a Read can go.              *)

Copying == answer.phase = "copying"
Wanting == answer.stop - answer.start + 1 - Len(answer.body)

CloseCurrent ==
  /\ chunks' = NoChunks
  /\ futures' = <<>>
  /\ result' = <<>>

(* CopyN returns: the reader is closed and the lease given back.           *)
EndCopy(how) ==
  /\ answer' = [answer EXCEPT !.phase = how]
  /\ CloseCurrent
  /\ UNCHANGED <<kept, ask, stream, faults>>

(* The first Read of a window opens it; a segment that is missing from the *)
(* index ends the copy.                                                    *)
OpenWindow ==
  /\ Copying /\ Wanting > 0 /\ chunks = NoChunks
  /\ stream.pos < kept.size
  /\ \/ /\ kept.docs[stream.pos \div SegSize + 1] = 0
        /\ EndCopy("cut")
     \/ /\ kept.docs[stream.pos \div SegSize + 1] > 0
        /\ chunks' = OpenAt(stream.pos, stream.window)
        /\ UNCHANGED <<kept, ask, answer, stream, futures, result, faults>>

Widened == IF stream.window < MaxWindow THEN stream.window * 2 ELSE stream.window

(* chunkReader.Read without bytes in hand: it takes the oldest future and  *)
(* waits for it. An error that wraps io.EOF passes for the end of the      *)
(* window, so that File.Read opens the rest of it again.                   *)
TakeChunk ==
  /\ Copying /\ Wanting > 0 /\ chunks # NoChunks /\ chunks.data = <<>>
  /\ futures # <<>> /\ Head(futures) \notin Flying
  /\ LET r == result[Head(futures)]
     IN  \/ /\ r.is = "eof"
            /\ stream' = [stream EXCEPT !.window = Widened]
            /\ CloseCurrent
            /\ UNCHANGED <<kept, ask, answer, faults>>
         \/ /\ r.is # "eof" /\ r.data = <<>>
            /\ EndCopy("cut")
         \/ /\ r.data # <<>>
            /\ chunks' = [chunks EXCEPT !.data = r.data]
            /\ futures' = Tail(futures)
            /\ UNCHANGED <<kept, ask, answer, stream, result, faults>>

(* The queue is closed and empty, or the context is gone.                  *)
ReadFails ==
  /\ Copying /\ Wanting > 0 /\ chunks # NoChunks /\ chunks.data = <<>>
  /\ chunks.cancelled \/ (chunks.closed /\ futures = <<>>)
  /\ EndCopy("cut")

(* The bytes in hand the window still owes.                                *)
Owed == SubSeq(chunks.data, 1, Smaller(Len(chunks.data), chunks.remain))

(* Read hands over some bytes; the last ones of the window close it.       *)
CopySome(n) ==
  /\ Copying /\ chunks # NoChunks
  /\ chunks.data # <<>>
  /\ n <= Smaller(Len(Owed), Wanting)
  /\ answer' = [answer EXCEPT !.body = @ \o SubSeq(Owed, 1, n)]
  /\ LET left == chunks.remain - n
     IN  /\ stream' = [pos |-> stream.pos + n,
                       window |-> IF left <= 0 THEN Widened ELSE stream.window]
         /\ IF left <= 0
              THEN CloseCurrent
              ELSE /\ chunks' = [chunks EXCEPT
                                   !.data = SubSeq(Owed, n + 1, Len(Owed)),
                                   !.remain = left]
                   /\ UNCHANGED <<futures, result>>
  /\ UNCHANGED <<kept, ask, faults>>

(* Everything asked for has been copied, or the client has gone.           *)
Finish == Copying /\ Wanting = 0 /\ EndCopy("over")
ClientGone == Copying /\ Wanting > 0 /\ EndCopy("gone")

---------------------------------------------------------------------------
(* Files as OpenFile may find them: complete, with documents shorter than  *)
(* their segments or segments without a row, and files still uploading.    *)
Stored(size) ==
  {docs \in [1..SegmentCount(size) -> ShortDocs \cup 1..SegSize] :
     \A i \in DOMAIN docs :
       \/ docs[i] = SegmentSize(size, i)
       \/ docs[i] \in ShortDocs /\ docs[i] < SegmentSize(size, i)}

ReaderInit ==
  /\ \E size \in FileSizes : \E docs \in Stored(size), pending \in BOOLEAN :
       kept = [size |-> size, docs |-> docs, pending |-> pending]
  /\ ask \in [segment : 0..MaxSegment, range : RangeHeaders]
  /\ answer = NoAnswer
  /\ stream = [pos |-> 0, window |-> InitialWindow]
  /\ chunks = NoChunks
  /\ futures = <<>>
  /\ result = <<>>
  /\ faults = 0

(* What the pipeline and the copying handler do by themselves.             *)
StreamStep ==
  \/ Pump
  \/ PumpReturn
  \/ \E i \in Flying : Fetch(i)
  \/ OpenWindow
  \/ TakeChunk
  \/ ReadFails
  \/ \E n \in 1..MaxCopy : CopySome(n)
  \/ Finish

ReaderNext ==
  \/ \E head \in BOOLEAN : ServeBegin(head)
  \/ Lease
  \/ \E len \in 1..kept.size : ServeStaged(len)
  \/ Open
  \/ StreamStep
  \/ ClientGone

ReaderSpec == ReaderInit /\ [][ReaderNext]_readerVars

---------------------------------------------------------------------------
(* What a request asks for, said without windows, segments or chunks.      *)

InWindow(o) == ask.segment = 0 \/ o \div SegSize + 1 = ask.segment
WindowBytes == {o \in 0..(kept.size - 1) : InWindow(o)}
Least(S)    == CHOOSE o \in S : \A p \in S : o <= p

Wanted ==
  LET h == ask.range
      W == WindowBytes
      at(o) == o - Least(W)
  IN  CASE h.kind \in {"none", "malformed"} -> W
        [] h.kind = "from" -> {o \in W : at(o) >= h.first}
        [] h.kind = "between" -> {o \in W : at(o) >= h.first /\ at(o) <= h.last}
        [] h.kind = "suffix" ->
             {o \in W : Cardinality({p \in W : p >= o}) <= h.count}

(* A successful answer promises as many bytes as the range holds, its body *)
(* is the beginning of exactly these bytes in order, whatever the order in *)
(* which parallel fetches came back, where windows, chunks and segments    *)
(* end and which document was short, and one byte range of a segment       *)
(* equals the same bytes of the whole file. Error text after an early 206  *)
(* (see SuccessIsContent) is not taken for content.                        *)
AnswerExact ==
  answer.status \in {200, 206} =>
    /\ answer.promised = Cardinality(Wanted)
    /\ ~answer.text =>
         /\ Len(answer.body) <= answer.promised
         /\ \A i \in DOMAIN answer.body :
              answer.body[i] = Least(Wanted) + i - 1

(* A stream that ends before the last byte it promised has a reason: a     *)
(* fetch failed, or a document the request needs is shorter than its       *)
(* segment. Windows, alignment, cuts, read-ahead and cancelled siblings    *)
(* never end one by themselves.                                            *)
CutHasCause ==
  answer.phase = "cut" =>
    \/ faults > 0
    \/ \E o \in Wanted : o % SegSize >= kept.docs[o \div SegSize + 1]

(* What a client receives is what it asked for, up to a failure that is    *)
(* not of the pipeline's making (the invariants above).                    *)
StreamExact == AnswerExact /\ CutHasCause

(* The copying handler is never stuck: while bytes are owed and the client *)
(* waits, the pump, a fetch or a Read can take a step, so the semaphore,   *)
(* the bounded queue of futures and the ordered reads never wait for each  *)
(* other, also after a failed chunk has cancelled its siblings.            *)
StreamMoves == Copying => ENABLED StreamStep

(* The body of a 200 or a 206 is content of the file and nothing else.     *)
SuccessIsContent ==
  answer.status \in {200, 206} => ~answer.text
============================================================================
