---------------------- MODULE DownloadPipeline_proofs ----------------------
(***************************************************************************)
(* Safety of the download side, for any plan, any number of connections,   *)
(* any buffer and read sizes, and any number of failures: the reads return *)
(* the range in order, and its end is the end.                             *)
(*                                                                         *)
(* The argument is local to a transfer: LocalInv says what is in its       *)
(* buffer, where its reply will go on, and what its state allows.  Each    *)
(* method of HTTPFetcher keeps it, whatever the other transfers do; the    *)
(* pipeline only adds where in the range the first transfer has got.       *)
(***************************************************************************)
EXTENDS DownloadPipeline, TLAPS

(* What is assumed of the server and of the range: of several Range        *)
(* headers the last one counts, a refusal has an empty body, the range is  *)
(* inside the object, and only an empty object has an empty range.  (The   *)
(* run dl_errorbody shows what happens without the second.)                *)
GoodServer ==
  /\ HonouredRange = "last"
  /\ ErrorBodies \subseteq {0}
  /\ \A i \in Ids : Offset[i] + Length[i] <= ObjectSize
  /\ \A i \in Ids : Length[i] = 0 => ObjectSize = 0

(* Bytes of its range that a transfer has received.                        *)
Got(f) == f.mBytesDone + Avail(f)
Short(f) == Got(f) < f.mLen \/ f.mLen = 0

(* The unread bytes in the buffer are those that follow the bytes done.    *)
BufferOk(f) ==
  /\ f.mReadOff <= f.mNused /\ f.mReadOff <= f.mBytesDone
  /\ f.mReadBuff = NoBuffer => f.mNused = 0
  /\ f.mReadBuff # NoBuffer => f.mBuffSize = BuffSize /\ f.mNused <= BuffSize
  /\ \A k \in f.mReadOff .. f.mNused - 1 :
       f.mReadBuff[k] = f.mOffset + f.mBytesDone + (k - f.mReadOff)

FetcherOk(i, f) ==
  /\ f \in FetcherType
  /\ f.mOffset = Offset[i] /\ f.mLen = Length[i] /\ f.mConfBuffSize = ConfBuffSize
  /\ BufferOk(f)
  /\ Got(f) <= f.mLen

(* The state of a fetcher and of its transfer go together.                 *)
StateOk(f, x) ==
  /\ f.mState \in {"INIT", "FAILED"} => Short(f)
  /\ f.mState = "DONE" => Got(f) = f.mLen
  /\ f.mState = "RUNNING" => f.mCurl = "live" /\ f.mReadBuff # NoBuffer
  /\ x.kind # "none" => f.mState = "RUNNING"
  /\ f.mPaused => x.held > 0

(* A reply goes on where the buffer stops, and ends where the range does.  *)
TransferOk(f, x) ==
  /\ x \in TransferType
  /\ x.kind = "none" => x = NoTransfer
  /\ x.kind = "asked" => f.mLastRange = RangeOf(f) /\ x.left = 0
  /\ x.kind \in {"asked", "error"} => Short(f)
  /\ x.kind = "error" => x.left = 0
  /\ x.kind = "data" =>
       /\ x.next = f.mOffset + Got(f)
       /\ x.next + x.left = f.mOffset + f.mLen
       /\ x.msg = "OK" => x.left = 0
       /\ x.msg = "BROKEN" => x.left > 0
  /\ x.held <= x.left
  /\ x.msg # "none" => x.held = 0

LocalInv(i, f, x) == FetcherOk(i, f) /\ StateOk(f, x) /\ TransferOk(f, x)

(* How far the reads have got: up to the bytes done of the first transfer. *)
Position == IF front \in Ids THEN Offset[front] + fetcher[front].mBytesDone - Offset[1]
            ELSE Total

(* The transfers before the first are used up, those after it untouched by *)
(* get(), and the pending ones not started.                                *)
ListsOk ==
  /\ \A i \in Ids : i < front =>
       fetcher[i].mState = "DONE" /\ Avail(fetcher[i]) = 0
  /\ \A i \in Ids : i > front => fetcher[i].mBytesDone = 0
  /\ pc # "closed" => \A i \in Ids : i >= next => fetcher[i].mState = "INIT"

ControlOk ==
  /\ front \in 1 .. NumFetchers + 1
  /\ next \in front .. NumFetchers + 1
  /\ pc \in {"idle", "loop", "get", "perform", "results", "closed"}
  /\ pc = "get" => Active # {}
  /\ bufflen \in Nat /\ (pc \in {"loop", "get", "perform", "results"} => bufflen > 0)
  /\ result \in {"none", "data", "eof", "error"}
  /\ faults \in Nat
  /\ wild \in BOOLEAN

DeliveredOk ==
  /\ delivered \in Seq(Byte)
  /\ Len(delivered) = Position
  /\ DeliveredInOrder
  /\ result = "eof" => front = NumFetchers + 1 /\ pc \in {"idle", "loop", "closed"}

FetchersOk ==
  /\ fetcher \in [Ids -> FetcherType]
  /\ xfer \in [Ids -> TransferType]
  /\ \A i \in Ids : FetcherOk(i, fetcher[i])
  /\ pc # "closed" => \A i \in Ids : LocalInv(i, fetcher[i], xfer[i])
  /\ pc = "closed" => \A i \in Ids : xfer[i] = NoTransfer

IInv == FetchersOk /\ ListsOk /\ ControlOk /\ DeliveredOk

-----------------------------------------------------------------------------

LEMMA ConstantFacts ==
  /\ CurlMaxWrite \in Nat \ {0}
  /\ ConfBuffSize \in Int
  /\ NumFetchers \in Nat \ {0} /\ mNConnections \in Nat \ {0}
  /\ \A i \in Ids : Offset[i] \in Nat /\ Length[i] \in Nat
  /\ BuffSize = IF CurlMaxWrite > ConfBuffSize THEN CurlMaxWrite ELSE ConfBuffSize
  /\ BuffSize \in Nat \ {0}
  /\ ObjectSize \in Nat
  BY PipelineAssumption, FetcherAssumption, CurlAssumption
  DEF BuffSize, AllocSize, New, Ids

LEMMA NoTransferType ==
  /\ NoTransfer \in TransferType
  /\ NoTransfer.kind = "none" /\ NoTransfer.next = 0 /\ NoTransfer.left = 0
  /\ NoTransfer.held = 0 /\ NoTransfer.msg = "none"
  BY ConstantFacts DEF NoTransfer, TransferType

(* Allocated memory is not NULL.                                           *)
LEMMA MemoryIsNotNull ==
  ASSUME NEW b \in [0 .. BuffSize - 1 -> Byte]
  PROVE  b # NoBuffer
<1>1. 0 \in DOMAIN b
  BY ConstantFacts
<1>2. DOMAIN NoBuffer = {}
  BY DEF NoBuffer
<1> QED
  BY <1>1, <1>2

LEMMA NewOk ==
  ASSUME NEW i \in Ids
  PROVE  LocalInv(i, New(ConfBuffSize, Offset[i], Length[i]), NoTransfer)
<1> DEFINE f == New(ConfBuffSize, Offset[i], Length[i])
<1>1. f \in FetcherType
  BY ConstantFacts DEF New, FetcherType, States, Handles, RangeHeader, NoRange
<1>2. FetcherOk(i, f)
  BY <1>1, ConstantFacts DEF New, FetcherOk, BufferOk, Got, Avail
<1>3. StateOk(f, NoTransfer)
  BY ConstantFacts DEF New, StateOk, Short, Got, Avail, NoTransfer
<1>4. TransferOk(f, NoTransfer)
  BY ConstantFacts DEF TransferOk, NoTransfer, TransferType
<1> QED
  BY <1>2, <1>3, <1>4 DEF LocalInv

(* start()'s allocation changes nothing but the buffer.                    *)
LEMMA WithBufferFacts ==
  ASSUME NEW i \in Ids, NEW f, FetcherOk(i, f)
  PROVE  LET g == WithBuffer(f) IN
         /\ FetcherOk(i, g)
         /\ g.mReadBuff # NoBuffer
         /\ g.mBytesDone = f.mBytesDone /\ Avail(g) = Avail(f)
         /\ g.mState = f.mState /\ g.mPaused = f.mPaused
         /\ g.mOffset = f.mOffset /\ g.mLen = f.mLen
<1> DEFINE g == WithBuffer(f)
           b == [k \in 0 .. BuffSize - 1 |-> Junk]
<1>1. AllocSize(f) = BuffSize
  BY ConstantFacts DEF AllocSize, FetcherOk
<1>2. b \in [0 .. BuffSize - 1 -> Byte]
  BY DEF Byte
<1>3. b # NoBuffer
  BY <1>2, MemoryIsNotNull
<1>4. CASE f.mReadBuff # NoBuffer
  BY <1>4 DEF WithBuffer
<1>5. CASE f.mReadBuff = NoBuffer
  <2>1. g = [f EXCEPT !.mBuffSize = BuffSize, !.mReadBuff = b]
    BY <1>1, <1>5 DEF WithBuffer
  <2> HIDE DEF b, g
  <2>2. g \in FetcherType
    BY <2>1, <1>2, ConstantFacts DEF FetcherOk, FetcherType
  <2>3. /\ g.mReadBuff = b /\ g.mBuffSize = BuffSize
        /\ g.mBytesDone = f.mBytesDone /\ g.mNused = f.mNused /\ g.mReadOff = f.mReadOff
        /\ g.mState = f.mState /\ g.mPaused = f.mPaused
        /\ g.mOffset = f.mOffset /\ g.mLen = f.mLen
        /\ g.mConfBuffSize = f.mConfBuffSize
    BY <2>1 DEF FetcherOk, FetcherType
  <2>4. f.mNused = 0 /\ f.mReadOff = 0 /\ f.mBytesDone >= 0
    BY <1>5 DEF FetcherOk, BufferOk, FetcherType
  <2>5. BufferOk(g)
    BY <2>3, <2>4, <1>3, ConstantFacts DEF BufferOk
  <2> QED
    BY <2>2, <2>3, <2>5, <1>3 DEF FetcherOk, Got, Avail, g
<1> QED
  BY <1>4, <1>5

(* start() of a new or a failed transfer asks for the bytes that are       *)
(* missing, and leaves those it has.                                       *)
LEMMA StartedOk ==
  ASSUME NEW i \in Ids, NEW f, FetcherOk(i, f), Short(f), ~ f.mPaused
  PROVE  /\ LocalInv(i, Started(f), Asked)
         /\ Started(f).mBytesDone = f.mBytesDone
         /\ Avail(Started(f)) = Avail(f)
<1> DEFINE w == WithBuffer(f)
           g == Started(f)
<1>1. /\ FetcherOk(i, w) /\ w.mReadBuff # NoBuffer
      /\ w.mBytesDone = f.mBytesDone /\ Avail(w) = Avail(f)
      /\ w.mPaused = f.mPaused /\ w.mOffset = f.mOffset /\ w.mLen = f.mLen
  BY WithBufferFacts
<1>2. Short(w) /\ ~ w.mPaused
  BY <1>1 DEF Short, Got
<1>3. RangeOf(w) \in RangeHeader
  <2>1. /\ w.mOffset \in Int /\ w.mLen \in Int /\ w.mBytesDone \in Int
        /\ w.mNused \in Int /\ w.mReadOff \in Int
    BY <1>1 DEF FetcherOk, FetcherType
  <2> QED
    BY <2>1 DEF RangeOf, RangeHeader, Avail, OpenEnd
<1>4. w.mLen >= 0
  BY <1>1, ConstantFacts DEF FetcherOk
<1>5. g = [w EXCEPT !.mFirstRange = IF w.mFirstRange = NoRange THEN RangeOf(w)
                                    ELSE w.mFirstRange,
                    !.mLastRange = RangeOf(w),
                    !.mCurl = "live", !.mState = "RUNNING"]
  BY <1>1, <1>4 DEF Started, WithRange, FetcherOk, FetcherType
<1> HIDE DEF w, g
<1>6. /\ g.mState = "RUNNING" /\ g.mCurl = "live" /\ g.mPaused = w.mPaused
      /\ g.mLastRange = RangeOf(w)
      /\ g.mBytesDone = w.mBytesDone /\ g.mNused = w.mNused /\ g.mReadOff = w.mReadOff
      /\ g.mReadBuff = w.mReadBuff /\ g.mBuffSize = w.mBuffSize
      /\ g.mOffset = w.mOffset /\ g.mLen = w.mLen /\ g.mConfBuffSize = w.mConfBuffSize
  BY <1>1, <1>5 DEF FetcherOk, FetcherType
<1>7. g \in FetcherType
  BY <1>1, <1>3, <1>5 DEF FetcherOk, FetcherType, States, Handles
<1>8. FetcherOk(i, g)
  BY <1>1, <1>6, <1>7 DEF FetcherOk, BufferOk, Got, Avail
<1>9. Short(g) /\ RangeOf(g) = RangeOf(w)
  BY <1>2, <1>6 DEF Short, Got, Avail, RangeOf
<1>10. StateOk(g, Asked)
  BY <1>1, <1>2, <1>6 DEF StateOk
<1>11. TransferOk(g, Asked)
  BY <1>6, <1>9, ConstantFacts DEF TransferOk, Asked, NoTransfer, TransferType
<1>12. Avail(g) = Avail(w)
  BY <1>6 DEF Avail
<1> QED
  BY <1>1, <1>6, <1>8, <1>10, <1>11, <1>12 DEF LocalInv, g

(* A start that throws: the buffer may be there or not, nothing else is.   *)
LEMMA StartThrowsOk ==
  ASSUME NEW i \in Ids, NEW f, LocalInv(i, f, NoTransfer), f.mState = "INIT",
         NEW g, g = StartNoMemory(f) \/ g = WithBuffer(f)
  PROVE  /\ LocalInv(i, g, NoTransfer)
         /\ g.mState = "INIT" /\ g.mBytesDone = f.mBytesDone
<1>1. CASE g = WithBuffer(f)
  <2>1. FetcherOk(i, f)
    BY DEF LocalInv
  <2>2. /\ FetcherOk(i, g) /\ g.mBytesDone = f.mBytesDone /\ Avail(g) = Avail(f)
        /\ g.mState = f.mState /\ g.mPaused = f.mPaused
        /\ g.mOffset = f.mOffset /\ g.mLen = f.mLen
    BY <1>1, <2>1, WithBufferFacts
  <2> QED
    BY <2>2 DEF LocalInv, StateOk, TransferOk, NoTransfer, Short, Got
<1>2. CASE g = StartNoMemory(f) /\ g # WithBuffer(f)
  <2>1. f \in FetcherType /\ AllocSize(f) \in Nat
    BY ConstantFacts DEF LocalInv, FetcherOk, AllocSize
  <2>2. g = [f EXCEPT !.mBuffSize = AllocSize(f)]
    BY <1>2 DEF StartNoMemory
  <2>3. f.mReadBuff = NoBuffer \/ AllocSize(f) = BuffSize
    BY ConstantFacts DEF LocalInv, FetcherOk, AllocSize
  <2>4. g \in FetcherType
    BY <2>1, <2>2 DEF FetcherType
  <2>5. /\ g.mState = f.mState /\ g.mPaused = f.mPaused /\ g.mReadBuff = f.mReadBuff
        /\ g.mBytesDone = f.mBytesDone /\ g.mNused = f.mNused /\ g.mReadOff = f.mReadOff
        /\ g.mOffset = f.mOffset /\ g.mLen = f.mLen /\ g.mConfBuffSize = f.mConfBuffSize
        /\ g.mBuffSize = AllocSize(f)
    BY <2>1, <2>2 DEF FetcherType
  <2>6. AllocSize(f) = BuffSize
    BY ConstantFacts DEF LocalInv, FetcherOk, AllocSize
  <2>7. FetcherOk(i, g)
    BY <2>4, <2>5, <2>6 DEF LocalInv, FetcherOk, BufferOk, Got, Avail
  <2> QED
    BY <2>5, <2>7 DEF LocalInv, StateOk, TransferOk, NoTransfer, Short, Got, Avail
<1> QED
  BY <1>1, <1>2

(* get(): the bytes returned are the next ones of the range, and bytes     *)
(* done and buffer move on together.                                       *)
LEMMA TakeOk ==
  ASSUME NEW i \in Ids, NEW f, NEW x, LocalInv(i, f, x),
         NEW n \in Nat \ {0}, Avail(f) > 0
  PROVE  LET m == TakeSize(f, n) IN
         /\ LocalInv(i, Take(f, n), x)
         /\ m \in Nat \ {0}
         /\ Take(f, n).mBytesDone = f.mBytesDone + m
         /\ f.mBytesDone + m <= f.mLen
         /\ Take(f, n).mState = f.mState
         /\ Taken(f, n) = [k \in 1 .. m |-> f.mOffset + f.mBytesDone + k - 1]
<1> DEFINE m == TakeSize(f, n)
           g == Take(f, n)
<1>1. f \in FetcherType /\ BufferOk(f) /\ Got(f) <= f.mLen
  BY DEF LocalInv, FetcherOk
<1>2. f.mNused \in Nat /\ f.mReadOff \in Nat /\ f.mBytesDone \in Nat /\ f.mOffset \in Nat
      /\ f.mLen \in Int
  BY <1>1 DEF FetcherType
<1>3. m \in Nat \ {0} /\ m <= f.mNused - f.mReadOff
  BY <1>2 DEF TakeSize, Avail
<1>4. g = [f EXCEPT !.mReadOff = f.mReadOff + m, !.mBytesDone = f.mBytesDone + m]
  BY <1>1 DEF Take, FetcherType
<1>5. Taken(f, n) = [k \in 1 .. m |-> f.mOffset + f.mBytesDone + k - 1]
  <2>1. \A k \in 1 .. m : f.mReadBuff[f.mReadOff + k - 1] = f.mOffset + f.mBytesDone + k - 1
    BY <1>1, <1>2, <1>3 DEF BufferOk
  <2> QED
    BY <2>1 DEF Taken
<1> HIDE DEF m, g
<1>6. /\ g.mReadOff = f.mReadOff + m /\ g.mBytesDone = f.mBytesDone + m
      /\ g.mState = f.mState /\ g.mPaused = f.mPaused /\ g.mReadBuff = f.mReadBuff
      /\ g.mCurl = f.mCurl /\ g.mLastRange = f.mLastRange
      /\ g.mNused = f.mNused /\ g.mBuffSize = f.mBuffSize
      /\ g.mOffset = f.mOffset /\ g.mLen = f.mLen /\ g.mConfBuffSize = f.mConfBuffSize
  BY <1>1, <1>4 DEF FetcherType
<1>7. g \in FetcherType
  <2>1. f.mReadOff + m \in Nat /\ f.mBytesDone + m \in Nat
    BY <1>2, <1>3
  <2> QED
    BY <1>1, <1>4, <2>1 DEF FetcherType
<1>8. Got(g) = Got(f) /\ (Short(g) <=> Short(f)) /\ RangeOf(g) = RangeOf(f)
  BY <1>2, <1>3, <1>6 DEF Got, Avail, Short, RangeOf
<1>9. BufferOk(g)
  BY <1>1, <1>2, <1>3, <1>6 DEF BufferOk
<1>10. FetcherOk(i, g)
  BY <1>6, <1>7, <1>8, <1>9 DEF LocalInv, FetcherOk
<1>11. StateOk(g, x) /\ TransferOk(g, x)
  BY <1>6, <1>8 DEF LocalInv, StateOk, TransferOk
<1>12. f.mBytesDone + m <= f.mLen
  BY <1>1, <1>2, <1>3 DEF Got, Avail
<1> QED
  BY <1>3, <1>5, <1>6, <1>10, <1>11, <1>12 DEF LocalInv, g, m

-----------------------------------------------------------------------------

(* What a fetcher is apart from its buffer.                                *)
SameButBuffer(f, g) ==
  /\ g.mState = f.mState /\ g.mCurl = f.mCurl /\ g.mPaused = f.mPaused
  /\ g.mLastRange = f.mLastRange /\ g.mConfBuffSize = f.mConfBuffSize
  /\ g.mOffset = f.mOffset /\ g.mLen = f.mLen /\ g.mBytesDone = f.mBytesDone
  /\ g.mBuffSize = f.mBuffSize

LEMMA RewoundOk ==
  ASSUME NEW i \in Ids, NEW f, FetcherOk(i, f), f.mReadBuff # NoBuffer
  PROVE  /\ FetcherOk(i, Rewound(f)) /\ Rewound(f).mReadBuff # NoBuffer
         /\ SameButBuffer(f, Rewound(f))
         /\ Avail(Rewound(f)) = Avail(f)
         /\ Avail(f) = 0 => Rewound(f).mNused = 0
<1> DEFINE g == Rewound(f)
<1>1. f \in FetcherType /\ f.mNused \in Nat /\ f.mReadOff \in Nat /\ f.mBytesDone \in Nat
  BY DEF FetcherOk, FetcherType
<1>2. CASE f.mNused # f.mReadOff
  BY <1>1, <1>2 DEF Rewound, Avail, SameButBuffer
<1>3. CASE f.mNused = f.mReadOff
  <2>1. g = [f EXCEPT !.mNused = 0, !.mReadOff = 0]
    BY <1>3 DEF Rewound
  <2> HIDE DEF g
  <2>2. g \in FetcherType
    BY <1>1, <2>1 DEF FetcherType
  <2>3. /\ SameButBuffer(f, g) /\ g.mReadBuff = f.mReadBuff
        /\ g.mNused = 0 /\ g.mReadOff = 0
    BY <1>1, <2>1 DEF FetcherType, SameButBuffer
  <2>4. FetcherOk(i, g) /\ Avail(g) = Avail(f)
    BY <1>1, <1>3, <2>2, <2>3, ConstantFacts
    DEF FetcherOk, BufferOk, SameButBuffer, Got, Avail
  <2> QED
    BY <2>3, <2>4 DEF g
<1> QED
  BY <1>2, <1>3

(* The memmove keeps the unread bytes, in their order.                     *)
LEMMA ShiftedOk ==
  ASSUME NEW i \in Ids, NEW f, FetcherOk(i, f), f.mReadBuff # NoBuffer
  PROVE  /\ FetcherOk(i, Shifted(f)) /\ Shifted(f).mReadBuff # NoBuffer
         /\ SameButBuffer(f, Shifted(f))
         /\ Avail(Shifted(f)) = Avail(f)
         /\ Avail(f) = 0 => Shifted(f).mNused = 0
<1> DEFINE g == Shifted(f)
           b == [k \in DOMAIN f.mReadBuff |->
                   IF k < Avail(f) THEN f.mReadBuff[k + f.mReadOff] ELSE f.mReadBuff[k]]
<1>1. /\ f \in FetcherType /\ f.mNused \in Nat /\ f.mReadOff \in Nat
      /\ f.mReadBuff \in [0 .. BuffSize - 1 -> Byte]
      /\ f.mReadOff <= f.mNused /\ f.mNused <= BuffSize
      /\ BuffSize \in Nat /\ f.mBytesDone \in Nat
  BY ConstantFacts DEF FetcherOk, FetcherType, BufferOk
<1>2. Avail(f) \in Nat /\ Avail(f) = f.mNused - f.mReadOff
  BY <1>1 DEF Avail
<1>3. b \in [0 .. BuffSize - 1 -> Byte]
  BY <1>1, <1>2
<1>4. \A k \in 0 .. Avail(f) - 1 : b[k] = f.mReadBuff[k + f.mReadOff]
  BY <1>1, <1>2
<1>5. g = [f EXCEPT !.mReadBuff = b, !.mNused = Avail(f), !.mReadOff = 0]
  BY DEF Shifted
<1> HIDE DEF b, g
<1>6. g \in FetcherType
  BY <1>1, <1>2, <1>3, <1>5 DEF FetcherType
<1>7. /\ SameButBuffer(f, g) /\ g.mReadBuff = b
      /\ g.mNused = Avail(f) /\ g.mReadOff = 0
  BY <1>1, <1>5 DEF FetcherType, SameButBuffer
<1>8. b # NoBuffer
  BY <1>3, MemoryIsNotNull
<1>9. Avail(g) = Avail(f)
  BY <1>2, <1>7 DEF Avail
<1>10. \A k \in 0 .. Avail(f) - 1 : b[k] = f.mOffset + f.mBytesDone + k
  <2> SUFFICES ASSUME NEW k \in 0 .. Avail(f) - 1
               PROVE  b[k] = f.mOffset + f.mBytesDone + k
    OBVIOUS
  <2>1. k + f.mReadOff \in f.mReadOff .. f.mNused - 1 /\ (k + f.mReadOff) - f.mReadOff = k
    BY <1>1, <1>2
  <2>2. f.mReadBuff[k + f.mReadOff] =
          f.mOffset + f.mBytesDone + ((k + f.mReadOff) - f.mReadOff)
    BY <2>1 DEF FetcherOk, BufferOk
  <2> QED
    BY <1>4, <2>1, <2>2
<1>11. BufferOk(g)
  BY <1>1, <1>2, <1>7, <1>8, <1>10 DEF FetcherOk, BufferOk, SameButBuffer
<1>12. FetcherOk(i, g)
  BY <1>6, <1>7, <1>9, <1>11 DEF FetcherOk, SameButBuffer, Got
<1> QED
  BY <1>7, <1>8, <1>9, <1>12 DEF g

LEMMA MakeRoomOk ==
  ASSUME NEW i \in Ids, NEW f, FetcherOk(i, f), f.mReadBuff # NoBuffer, NEW n
  PROVE  /\ FetcherOk(i, MakeRoom(f, n)) /\ MakeRoom(f, n).mReadBuff # NoBuffer
         /\ SameButBuffer(f, MakeRoom(f, n))
         /\ Avail(MakeRoom(f, n)) = Avail(f)
         /\ Avail(f) = 0 => MakeRoom(f, n).mNused = 0
<1> DEFINE r == Rewound(f)
<1>1. /\ FetcherOk(i, r) /\ r.mReadBuff # NoBuffer /\ SameButBuffer(f, r)
      /\ Avail(r) = Avail(f)
      /\ Avail(f) = 0 => r.mNused = 0
  BY RewoundOk
<1> HIDE DEF r
<1>2. /\ FetcherOk(i, Shifted(r)) /\ Shifted(r).mReadBuff # NoBuffer
      /\ SameButBuffer(r, Shifted(r))
      /\ Avail(Shifted(r)) = Avail(r)
      /\ Avail(r) = 0 => Shifted(r).mNused = 0
  BY <1>1, ShiftedOk
<1>3. SameButBuffer(f, Shifted(r))
  BY <1>1, <1>2 DEF SameButBuffer
<1>4. MakeRoom(f, n) = Shifted(r) \/ MakeRoom(f, n) = r
  BY DEF MakeRoom, r
<1> QED
  BY <1>1, <1>2, <1>3, <1>4

(* What a callback leaves: bytes stored behind the unread ones, or a pause.*)
LEMMA StoreOk ==
  ASSUME NEW i \in Ids, NEW f, FetcherOk(i, f), f.mReadBuff # NoBuffer,
         NEW n \in Nat \ {0}, Fits(f, n), Got(f) + n <= f.mLen,
         NEW c, c = [k \in 1 .. n |-> f.mOffset + Got(f) + k - 1]
  PROVE  /\ FetcherOk(i, Store(f, c)) /\ Store(f, c).mReadBuff # NoBuffer
         /\ SameButBuffer(f, Store(f, c))
         /\ Avail(Store(f, c)) = Avail(f) + n
<1> DEFINE g == Store(f, c)
           b == [k \in DOMAIN f.mReadBuff |->
                   IF k \in f.mNused .. f.mNused + n - 1
                   THEN c[k - f.mNused + 1] ELSE f.mReadBuff[k]]
<1>1. /\ f \in FetcherType /\ f.mNused \in Nat /\ f.mReadOff \in Nat
      /\ f.mReadBuff \in [0 .. BuffSize - 1 -> Byte]
      /\ f.mReadOff <= f.mNused /\ f.mNused + n <= BuffSize
      /\ f.mReadOff <= f.mBytesDone
      /\ BuffSize \in Nat /\ f.mOffset \in Nat /\ f.mBytesDone \in Nat
      /\ f.mLen \in Int
  BY ConstantFacts DEF FetcherOk, FetcherType, BufferOk, Fits
<1>2. Len(c) = n
  OBVIOUS
<1>3. Got(f) = f.mBytesDone + (f.mNused - f.mReadOff)
  BY DEF Got, Avail
<1>4. \A k \in 1 .. n : c[k] = f.mOffset + Got(f) + k - 1 /\ c[k] \in Nat
  <2> DEFINE start == f.mOffset + Got(f)
  <2>1. start \in Nat
    BY <1>1, <1>3, SMTT(60)
  <2>2. c = [k \in 1 .. n |-> start + k - 1]
    OBVIOUS
  <2> HIDE DEF start
  <2>3. ASSUME NEW k \in 1 .. n PROVE c[k] = start + k - 1 /\ c[k] \in Nat
    <3>1. c[k] = start + k - 1
      BY <2>2, SMTT(30)
    <3>2. start + k - 1 \in Nat
      BY <2>1
    <3> QED
      BY <3>1, <3>2
  <2> QED
    BY <2>3 DEF start
<1>5. b \in [0 .. BuffSize - 1 -> Byte]
  <2>1. ASSUME NEW k \in 0 .. BuffSize - 1, k \in f.mNused .. f.mNused + n - 1
        PROVE  c[k - f.mNused + 1] \in Byte
    <3>1. k - f.mNused + 1 \in 1 .. n
      BY <1>1, <2>1, SMTT(60)
    <3> QED
      BY <1>4, <3>1 DEF Byte
  <2> QED
    BY <1>1, <2>1
<1>6. \A k \in f.mReadOff .. f.mNused + n - 1 :
        b[k] = f.mOffset + f.mBytesDone + (k - f.mReadOff)
  <2> SUFFICES ASSUME NEW k \in f.mReadOff .. f.mNused + n - 1
               PROVE  b[k] = f.mOffset + f.mBytesDone + (k - f.mReadOff)
    OBVIOUS
  <2>1. k \in DOMAIN f.mReadBuff
    BY <1>1
  <2>2. CASE k < f.mNused
    <3>1. b[k] = f.mReadBuff[k] /\ k \in f.mReadOff .. f.mNused - 1
      BY <2>1, <2>2, <1>1
    <3> QED
      BY <3>1 DEF FetcherOk, BufferOk
  <2>3. CASE k >= f.mNused
    <3>1. k - f.mNused + 1 \in 1 .. n /\ k \in f.mNused .. f.mNused + n - 1
      BY <2>3, <1>1, SMTT(60)
    <3>2. c[k - f.mNused + 1] = f.mOffset + Got(f) + (k - f.mNused + 1) - 1
      BY <1>4, <3>1
    <3>3. b[k] = c[k - f.mNused + 1]
      BY <2>1, <3>1
    <3> HIDE DEF b, g
    <3>4. f.mOffset + Got(f) + (k - f.mNused + 1) - 1 =
            f.mOffset + f.mBytesDone + (k - f.mReadOff)
      <4>1. /\ k \in Int /\ f.mNused \in Int /\ f.mReadOff \in Int
            /\ f.mBytesDone \in Int /\ f.mOffset \in Int
        BY <1>1
      <4> QED
        BY <4>1, <1>3, SMTT(60)
    <3> QED
      BY <3>2, <3>3, <3>4
  <2> QED
    BY <2>2, <2>3, <1>1
<1>7. g = [f EXCEPT !.mReadBuff = b, !.mNused = f.mNused + n]
  BY <1>2 DEF Store
<1> HIDE DEF b, g
<1>8. g \in FetcherType
  <2>1. f.mNused + n \in Nat
    BY <1>1
  <2> QED
    BY <1>1, <1>5, <1>7, <2>1 DEF FetcherType
<1>9. /\ SameButBuffer(f, g) /\ g.mReadBuff = b
      /\ g.mNused = f.mNused + n /\ g.mReadOff = f.mReadOff
  BY <1>1, <1>7 DEF FetcherType, SameButBuffer
<1>10. b # NoBuffer
  BY <1>5, MemoryIsNotNull
<1>11. Avail(g) = Avail(f) + n
  BY <1>1, <1>9 DEF Avail
<1>12. g.mBuffSize = BuffSize
  BY <1>9 DEF FetcherOk, BufferOk, SameButBuffer
<1>13. BufferOk(g)
  BY <1>1, <1>6, <1>9, <1>10, <1>12 DEF BufferOk, SameButBuffer
<1>14. Got(g) <= g.mLen
  BY <1>1, <1>3, <1>9, <1>11 DEF SameButBuffer, Got, Avail
<1>15. FetcherOk(i, g)
  BY <1>8, <1>9, <1>13, <1>14 DEF FetcherOk, SameButBuffer
<1> QED
  BY <1>9, <1>10, <1>11, <1>15 DEF g

LEMMA CallbackOk ==
  ASSUME NEW i \in Ids, NEW f, NEW x, LocalInv(i, f, x), ~ f.mPaused,
         NEW n \in 1 .. CurlMaxWrite, n <= x.left,
         x.kind \in {"data", "error"}, x.msg = "none"
  PROVE  LET g == WriterCallback(f, Contents(x, n))
             y == IF Accepts(f, n) THEN Passed(x, n) ELSE Held(x, n)
         IN  /\ LocalInv(i, g, y)
             /\ g.mState = f.mState /\ g.mBytesDone = f.mBytesDone
             /\ Avail(f) = 0 => Avail(g) > 0
<1> DEFINE r == MakeRoom(f, n)
           c == Contents(x, n)
           g == WriterCallback(f, c)
           y == IF Accepts(f, n) THEN Passed(x, n) ELSE Held(x, n)
<1>1. /\ n \in Nat \ {0} /\ x.kind = "data" /\ FetcherOk(i, f)
      /\ x \in TransferType /\ x.left \in Nat /\ x.next \in Nat
      /\ x.next = f.mOffset + Got(f)
      /\ x.next + x.left = f.mOffset + f.mLen
      /\ f.mState = "RUNNING" /\ f.mCurl = "live" /\ f.mReadBuff # NoBuffer
  BY ConstantFacts DEF LocalInv, StateOk, TransferOk, TransferType
<1>2. /\ FetcherOk(i, r) /\ r.mReadBuff # NoBuffer /\ SameButBuffer(f, r)
      /\ Avail(r) = Avail(f)
      /\ Avail(f) = 0 => r.mNused = 0
  BY <1>1, MakeRoomOk
<1>3. /\ r \in FetcherType /\ r.mNused \in Nat /\ r.mReadOff \in Nat
      /\ r.mBytesDone \in Nat /\ r.mOffset \in Nat /\ r.mLen \in Int
      /\ r.mBuffSize = BuffSize
  BY <1>2 DEF FetcherOk, BufferOk, FetcherType
<1>4. /\ Got(r) = Got(f) /\ Got(r) \in Int
      /\ x.next = r.mOffset + Got(r) /\ x.next + x.left = r.mOffset + r.mLen
  BY <1>1, <1>2, <1>3 DEF SameButBuffer, Got, Avail
<1>5. Len(c) = n
  BY <1>1 DEF Contents
<1> HIDE DEF r
<1>6. CASE Accepts(f, n)
  <2>1. Fits(r, n) /\ g = Store(r, c) /\ y = Passed(x, n)
    BY <1>5, <1>6 DEF Accepts, WriterCallback, r
  <2>2. c = [k \in 1 .. n |-> r.mOffset + Got(r) + k - 1]
    BY <1>1, <1>4 DEF Contents
  <2>3. Got(r) + n <= r.mLen
    BY <1>1, <1>3, <1>4
  <2> HIDE DEF c, g, y
  <2>4. /\ FetcherOk(i, g) /\ g.mReadBuff # NoBuffer /\ SameButBuffer(r, g)
        /\ Avail(g) = Avail(r) + n
    BY <1>1, <1>2, <2>1, <2>2, <2>3, StoreOk
  <2>5. Got(g) = Got(r) + n
    BY <1>1, <1>3, <2>4 DEF SameButBuffer, Got, Avail
  <2>6. /\ y \in TransferType /\ y.kind = "data" /\ y.msg = "none" /\ y.held = 0
        /\ y.next = x.next + n /\ y.left = x.left - n
    <3>1. x.next + n \in Nat /\ x.left - n \in Nat /\ 0 \in 0 .. CurlMaxWrite
      BY <1>1, ConstantFacts
    <3>2. y = [x EXCEPT !.next = x.next + n, !.left = x.left - n, !.held = 0]
      BY <1>1, <2>1 DEF Passed, TransferType
    <3> QED
      BY <1>1, <3>1, <3>2 DEF TransferType
  <2>7. g.mState = "RUNNING" /\ g.mCurl = "live" /\ ~ g.mPaused
    BY <1>1, <1>2, <2>4 DEF SameButBuffer
  <2>8. StateOk(g, y)
    BY <2>4, <2>7 DEF StateOk
  <2>9. TransferOk(g, y)
    BY <1>1, <1>3, <1>4, <2>4, <2>5, <2>6 DEF TransferOk, SameButBuffer
  <2>10. g.mState = f.mState /\ g.mBytesDone = f.mBytesDone
    BY <1>2, <2>4 DEF SameButBuffer
  <2>11. Avail(f) = 0 => Avail(g) > 0
    BY <1>1, <1>2, <2>4
  <2> QED
    BY <2>4, <2>8, <2>9, <2>10, <2>11 DEF LocalInv, g, y, c
<1>7. CASE ~ Accepts(f, n)
  <2>1. ~ Fits(r, n) /\ g = [r EXCEPT !.mPaused = TRUE] /\ y = Held(x, n)
    BY <1>5, <1>7 DEF Accepts, WriterCallback, r
  <2> HIDE DEF c, g, y
  <2>2. /\ g \in FetcherType
        /\ g.mState = r.mState /\ g.mCurl = r.mCurl /\ g.mReadBuff = r.mReadBuff
        /\ g.mConfBuffSize = r.mConfBuffSize /\ g.mBytesDone = r.mBytesDone
        /\ g.mNused = r.mNused /\ g.mReadOff = r.mReadOff
        /\ g.mOffset = r.mOffset /\ g.mLen = r.mLen /\ g.mBuffSize = r.mBuffSize
    BY <1>3, <2>1 DEF FetcherType
  <2>3. FetcherOk(i, g) /\ Got(g) = Got(r) /\ Avail(g) = Avail(r)
    BY <1>2, <2>2 DEF FetcherOk, BufferOk, Got, Avail
  <2>4. /\ y \in TransferType /\ y.kind = "data" /\ y.msg = "none" /\ y.held = n
        /\ y.next = x.next /\ y.left = x.left
    BY <1>1, <2>1 DEF Held, TransferType
  <2>5. g.mState = "RUNNING" /\ g.mCurl = "live" /\ g.mReadBuff # NoBuffer
    BY <1>1, <1>2, <2>2 DEF SameButBuffer
  <2>6. StateOk(g, y)
    BY <1>1, <2>4, <2>5 DEF StateOk
  <2>7. TransferOk(g, y)
    BY <1>1, <1>4, <2>2, <2>3, <2>4 DEF TransferOk
  <2>8. Avail(f) # 0
    BY <1>1, <1>2, <1>3, <2>1, ConstantFacts DEF Fits
  <2> QED
    BY <1>2, <2>2, <2>3, <2>6, <2>7, <2>8 DEF LocalInv, g, y, c, SameButBuffer
<1> QED
  BY <1>6, <1>7

(* curl_easy_pause is called with the fetcher no longer marked as paused.  *)
LEMMA UnpauseOk ==
  ASSUME NEW i \in Ids, NEW f, NEW x, LocalInv(i, f, x)
  PROVE  /\ LocalInv(i, Unpause(f), x) /\ ~ Unpause(f).mPaused
         /\ Avail(Unpause(f)) = Avail(f)
         /\ Unpause(f).mState = f.mState /\ Unpause(f).mBytesDone = f.mBytesDone
<1> DEFINE g == Unpause(f)
<1>1. f \in FetcherType /\ g = [f EXCEPT !.mPaused = FALSE]
  BY DEF LocalInv, FetcherOk, Unpause
<1> HIDE DEF g
<1>2. /\ g \in FetcherType /\ SameButBuffer([f EXCEPT !.mPaused = FALSE], g)
      /\ g.mPaused = FALSE
      /\ g.mState = f.mState /\ g.mCurl = f.mCurl /\ g.mReadBuff = f.mReadBuff
      /\ g.mConfBuffSize = f.mConfBuffSize /\ g.mBytesDone = f.mBytesDone
      /\ g.mNused = f.mNused /\ g.mReadOff = f.mReadOff /\ g.mLastRange = f.mLastRange
      /\ g.mOffset = f.mOffset /\ g.mLen = f.mLen /\ g.mBuffSize = f.mBuffSize
  BY <1>1 DEF FetcherType, SameButBuffer
<1>3. FetcherOk(i, g)
  BY <1>2 DEF LocalInv, FetcherOk, BufferOk, Got, Avail
<1>4. Got(g) = Got(f) /\ Avail(g) = Avail(f) /\ (Short(g) <=> Short(f))
      /\ RangeOf(g) = RangeOf(f)
  BY <1>2 DEF Got, Avail, Short, RangeOf
<1>5. StateOk(g, x) /\ TransferOk(g, x)
  BY <1>2, <1>4 DEF LocalInv, StateOk, TransferOk
<1> QED
  BY <1>2, <1>3, <1>4, <1>5 DEF LocalInv, g

-----------------------------------------------------------------------------

(* fail() and done() leave the buffer and the counts alone.                *)
LEMMA HandleOk ==
  ASSUME NEW i \in Ids, NEW f, NEW x, LocalInv(i, f, x), x.msg # "none",
         ~ ResultThrows(x.msg, ResponseCode(x))
  PROVE  LET g == HandleResult(f, x.msg, ResponseCode(x)) IN
         LocalInv(i, g, NoTransfer) /\ g.mBytesDone = f.mBytesDone
<1> DEFINE g == HandleResult(f, x.msg, ResponseCode(x))
<1>1. /\ x \in TransferType /\ x.kind # "none" /\ x.held = 0
      /\ f \in FetcherType /\ FetcherOk(i, f) /\ f.mState = "RUNNING" /\ ~ f.mPaused
      /\ f.mReadBuff # NoBuffer
  BY DEF LocalInv, FetcherOk, StateOk, TransferOk, NoTransfer
<1>2. CASE x.kind = "data" /\ x.msg = "OK"
  <2>1. g = [f EXCEPT !.mCurl = "null", !.mState = "DONE"]
    BY <1>1, <1>2 DEF HandleResult, ResponseCode, Done, Cleanup
  <2> HIDE DEF g
  <2>2. g \in FetcherType
    BY <1>1, <2>1 DEF FetcherType, States, Handles
  <2>3. /\ g.mState = "DONE" /\ g.mPaused = f.mPaused /\ g.mReadBuff = f.mReadBuff
        /\ g.mBytesDone = f.mBytesDone /\ g.mNused = f.mNused /\ g.mReadOff = f.mReadOff
        /\ g.mOffset = f.mOffset /\ g.mLen = f.mLen /\ g.mConfBuffSize = f.mConfBuffSize
        /\ g.mBuffSize = f.mBuffSize
    BY <1>1, <2>1 DEF FetcherType
  <2>4. FetcherOk(i, g)
    BY <1>1, <2>2, <2>3 DEF FetcherOk, BufferOk, Got, Avail
  <2>5. Got(f) = f.mLen
    <3>1. x.next = f.mOffset + Got(f) /\ x.next + x.left = f.mOffset + f.mLen /\ x.left = 0
      BY <1>2 DEF LocalInv, TransferOk
    <3>2. f.mOffset \in Nat /\ f.mLen \in Int /\ Got(f) \in Int
      BY <1>1 DEF FetcherType, Got, Avail
    <3> QED
      BY <3>1, <3>2
  <2>6. Got(g) = g.mLen
    BY <2>3, <2>5 DEF Got, Avail
  <2>7. StateOk(g, NoTransfer) /\ TransferOk(g, NoTransfer)
    BY <1>1, <2>3, <2>6, ConstantFacts DEF StateOk, TransferOk, NoTransfer, TransferType
  <2> QED
    BY <2>3, <2>4, <2>7 DEF LocalInv, g
<1>3. CASE ~ (x.kind = "data" /\ x.msg = "OK")
  <2>1. g = [f EXCEPT !.mCurl = "null", !.mState = "FAILED"]
    BY <1>1, <1>3 DEF HandleResult, ResponseCode, ResultThrows, Fail, Cleanup, TransferType
  <2> HIDE DEF g
  <2>2. g \in FetcherType
    BY <1>1, <2>1 DEF FetcherType, States, Handles
  <2>3. /\ g.mState = "FAILED" /\ g.mPaused = f.mPaused /\ g.mReadBuff = f.mReadBuff
        /\ g.mBytesDone = f.mBytesDone /\ g.mNused = f.mNused /\ g.mReadOff = f.mReadOff
        /\ g.mOffset = f.mOffset /\ g.mLen = f.mLen /\ g.mConfBuffSize = f.mConfBuffSize
        /\ g.mBuffSize = f.mBuffSize
    BY <1>1, <2>1 DEF FetcherType
  <2>4. FetcherOk(i, g)
    BY <1>1, <2>2, <2>3 DEF FetcherOk, BufferOk, Got, Avail
  <2>5. Short(f)
    <3>1. CASE x.kind \in {"asked", "error"}
      BY <3>1 DEF LocalInv, TransferOk
    <3>2. CASE x.kind = "data"
      <4>1. /\ x.next = f.mOffset + Got(f) /\ x.next + x.left = f.mOffset + f.mLen
            /\ x.left > 0
        BY <1>1, <1>3, <3>2 DEF LocalInv, TransferOk, TransferType
      <4>2. f.mOffset \in Nat /\ f.mLen \in Int /\ Got(f) \in Int /\ x.left \in Nat
        BY <1>1 DEF FetcherType, Got, Avail, TransferType
      <4> QED
        BY <4>1, <4>2 DEF Short
    <3> QED
      BY <1>1, <3>1, <3>2 DEF TransferType
  <2>6. Short(g)
    BY <2>3, <2>5 DEF Short, Got, Avail
  <2>7. StateOk(g, NoTransfer) /\ TransferOk(g, NoTransfer)
    BY <1>1, <2>3, <2>6, ConstantFacts DEF StateOk, TransferOk, NoTransfer, TransferType
  <2> QED
    BY <2>3, <2>4, <2>7 DEF LocalInv, g
<1> QED
  BY <1>2, <1>3

(* A message that is consumed without being handled leaves no transfer.    *)
LEMMA ConsumedOk ==
  ASSUME NEW i \in Ids, NEW f, NEW x, LocalInv(i, f, x), x.msg # "none"
  PROVE  LocalInv(i, f, NoTransfer)
<1>1. StateOk(f, NoTransfer)
  BY DEF LocalInv, StateOk, TransferOk, NoTransfer
<1>2. TransferOk(f, NoTransfer)
  BY ConstantFacts DEF TransferOk, NoTransfer, TransferType
<1> QED
  BY <1>1, <1>2 DEF LocalInv

(* The request of a fetcher is for the bytes it is short of, and these are *)
(* what a server that honours its last Range header sends.                 *)
LEMMA AnswerOk ==
  ASSUME GoodServer, NEW i \in Ids, NEW f, NEW x, LocalInv(i, f, x), x.kind = "asked"
  PROVE  /\ ~ PastEnd(Honoured(f))
         /\ LocalInv(i, f, DataReply(Honoured(f)))
         /\ \A n \in ErrorBodies : LocalInv(i, f, ErrorReply(n))
<1> DEFINE r == Honoured(f)
           from == f.mOffset + Got(f)
           to == f.mOffset + f.mLen - 1
<1>1. /\ f \in FetcherType /\ f.mState = "RUNNING" /\ f.mCurl = "live"
      /\ f.mReadBuff # NoBuffer /\ Short(f) /\ FetcherOk(i, f)
      /\ x \in TransferType /\ x.held = 0 /\ ~ f.mPaused
      /\ f.mLastRange = RangeOf(f)
  BY ConstantFacts DEF LocalInv, FetcherOk, StateOk, TransferOk, TransferType
<1>2. /\ f.mOffset \in Nat /\ f.mLen \in Nat /\ f.mBytesDone \in Nat
      /\ Got(f) = f.mBytesDone + Avail(f) /\ Got(f) \in Nat /\ Got(f) <= f.mLen
      /\ Avail(f) \in Nat
      /\ f.mOffset + f.mLen <= ObjectSize /\ ObjectSize \in Nat
      /\ f.mLen = 0 => ObjectSize = 0
  BY <1>1, ConstantFacts DEF FetcherOk, BufferOk, FetcherType, Got, Avail, GoodServer
<1>3. r = [from |-> from, to |-> to]
  BY <1>1, <1>2 DEF RangeOf, Honoured, GoodServer
<1>4. /\ ~ PastEnd(r)
      /\ FirstByte(r) = from
      /\ LastByte(r) - FirstByte(r) + 1 = f.mLen - Got(f)
  <2>1. r.from = from /\ r.to = to /\ from \in Nat /\ to \in Int /\ to >= -1
    BY <1>2, <1>3
  <2> HIDE DEF r
  <2>2. CASE f.mLen = 0
    <3>1. r.to < r.from /\ r.to # OpenEnd /\ ObjectSize = 0 /\ from = 0 /\ Got(f) = 0
      BY <2>1, <2>2, <1>2 DEF OpenEnd
    <3> QED
      BY <2>2, <3>1 DEF PastEnd, WholeObject, FirstByte, LastByte
  <2>3. CASE Got(f) < f.mLen
    <3>1. /\ r.from <= r.to /\ r.from < ObjectSize /\ r.to < ObjectSize
          /\ r.to # OpenEnd
      BY <2>1, <2>3, <1>2 DEF OpenEnd
    <3>2. r # NoRange
      BY <2>1 DEF NoRange
    <3>3. ~ WholeObject(r)
      BY <2>1, <3>1, <3>2 DEF WholeObject
    <3>4. FirstByte(r) = from /\ LastByte(r) = to /\ ~ PastEnd(r)
      BY <1>2, <2>1, <3>1, <3>3 DEF PastEnd, FirstByte, LastByte
    <3> QED
      BY <3>4, <1>2
  <2> QED
    BY <2>2, <2>3, <1>1 DEF Short
<1> HIDE DEF r
<1>5. LocalInv(i, f, DataReply(r))
  <2> DEFINE d == DataReply(r)
  <2>1. d = [NoTransfer EXCEPT !.kind = "data", !.next = from, !.left = f.mLen - Got(f)]
    BY <1>4 DEF DataReply
  <2>2. from \in Nat /\ f.mLen - Got(f) \in Nat /\ from + (f.mLen - Got(f)) = f.mOffset + f.mLen
    BY <1>2
  <2> HIDE DEF d
  <2>3. /\ d \in TransferType /\ d.kind = "data" /\ d.next = from
        /\ d.left = f.mLen - Got(f) /\ d.held = 0 /\ d.msg = "none"
    BY <2>1, <2>2, NoTransferType DEF TransferType
  <2>4. StateOk(f, d) /\ TransferOk(f, d)
    BY <1>1, <1>2, <2>2, <2>3 DEF StateOk, TransferOk
  <2> QED
    BY <1>1, <2>4 DEF LocalInv, d
<1>6. ASSUME NEW n \in ErrorBodies PROVE LocalInv(i, f, ErrorReply(n))
  <2> DEFINE d == ErrorReply(n)
  <2>1. d = [NoTransfer EXCEPT !.kind = "error", !.left = 0]
    BY DEF GoodServer, ErrorReply
  <2> HIDE DEF d
  <2>2. /\ d \in TransferType /\ d.kind = "error" /\ d.left = 0
        /\ d.held = 0 /\ d.msg = "none"
    BY <2>1, NoTransferType DEF TransferType
  <2>3. StateOk(f, d) /\ TransferOk(f, d)
    BY <1>1, <2>2 DEF StateOk, TransferOk
  <2> QED
    BY <1>1, <2>3 DEF LocalInv, d
<1> QED
  BY <1>4, <1>5, <1>6 DEF r

(* A transfer only ends well with a code when it is complete, and only     *)
(* breaks when it is not.                                                  *)
LEMMA EndedOk ==
  ASSUME NEW i \in Ids, NEW f, NEW x, LocalInv(i, f, x), NEW m \in {"OK", "BROKEN"},
         \/ m = "OK" /\ IsComplete(x)
         \/ m = "OK" /\ x.kind = "asked"
         \/ m = "BROKEN" /\ CanBreak(x)
  PROVE  LocalInv(i, f, [x EXCEPT !.msg = m])
<1> DEFINE y == [x EXCEPT !.msg = m]
<1>1. /\ x \in TransferType /\ x.left \in Nat /\ x.held \in Nat /\ x.held <= x.left
      /\ x.kind # "none" /\ x.kind \in {"asked", "error"} => x.left = 0
  BY ConstantFacts DEF LocalInv, TransferOk, TransferType, IsComplete, CanBreak
<1>2. /\ y \in TransferType /\ y.kind = x.kind /\ y.next = x.next /\ y.left = x.left
      /\ y.held = x.held /\ y.msg = m
  BY <1>1 DEF TransferType
<1> HIDE DEF y
<1>3. x.held = 0
  BY <1>1 DEF IsComplete, CanBreak, LocalInv, TransferOk
<1>4. StateOk(f, y)
  BY <1>2 DEF LocalInv, StateOk
<1>5. TransferOk(f, y)
  BY <1>1, <1>2, <1>3 DEF LocalInv, TransferOk, IsComplete, CanBreak
<1> QED
  BY <1>4, <1>5 DEF LocalInv, y

-----------------------------------------------------------------------------

LEMMA InitIInv == Init => IInv
<1> SUFFICES ASSUME Init PROVE IInv
  OBVIOUS
<1>1. \A i \in Ids : fetcher[i] = New(ConfBuffSize, Offset[i], Length[i])
                     /\ xfer[i] = NoTransfer
  BY DEF Init
<1>2. \A i \in Ids : LocalInv(i, fetcher[i], xfer[i])
  BY <1>1, NewOk
<1>3. FetchersOk
  BY <1>2, NoTransferType DEF FetchersOk, LocalInv, FetcherOk, TransferOk, Init
<1>4. /\ \A i \in Ids : fetcher[i].mState = "INIT" /\ fetcher[i].mBytesDone = 0
      /\ 1 \in Ids
  <2>1. \A i \in Ids : New(ConfBuffSize, Offset[i], Length[i]).mState = "INIT"
                       /\ New(ConfBuffSize, Offset[i], Length[i]).mBytesDone = 0
    BY DEF New
  <2>2. 1 \in Ids
    BY ConstantFacts DEF Ids
  <2> QED
    BY <1>1, <2>1, <2>2
<1>5. ListsOk
  BY <1>4, ConstantFacts DEF ListsOk, Init, Ids
<1>6. ControlOk
  <2>1. wild \in BOOLEAN
    BY DEF Init
  <2>2. front \in 1 .. NumFetchers + 1 /\ next \in front .. NumFetchers + 1
    BY ConstantFacts DEF Init
  <2> QED
    BY <2>1, <2>2 DEF ControlOk, Init
<1>7. DeliveredOk
  BY <1>4, ConstantFacts DEF DeliveredOk, DeliveredInOrder, Position, Init
<1> QED
  BY <1>3, <1>5, <1>6, <1>7 DEF IInv

(* A transfer in the multi handle belongs to an active, running fetcher.   *)
LEMMA RunningIsActive ==
  ASSUME IInv, pc # "closed", NEW i \in Ids, xfer[i].kind # "none"
  PROVE  i >= front /\ i < next /\ fetcher[i].mState = "RUNNING" /\ fetcher[i].mCurl = "live"
<1>1. fetcher[i].mState = "RUNNING" /\ fetcher[i].mCurl = "live"
  BY DEF IInv, FetchersOk, LocalInv, StateOk
<1>2. i \in Int /\ front \in Int /\ next \in Int
  BY ConstantFacts DEF IInv, ControlOk, Ids
<1> QED
  BY <1>1, <1>2 DEF IInv, ListsOk

(* A fetcher that is neither running nor finished has no transfer.         *)
LEMMA IdleHasNoTransfer ==
  ASSUME IInv, pc # "closed", NEW i \in Ids, fetcher[i].mState # "RUNNING"
  PROVE  xfer[i] = NoTransfer /\ ~ fetcher[i].mPaused
  BY NoTransferType DEF IInv, FetchersOk, LocalInv, StateOk, TransferOk

(* One transfer changes and keeps its invariant: so do all of them.        *)
LEMMA UpdateOk ==
  ASSUME IInv, pc # "closed", pc' # "closed",
         NEW i \in Ids, NEW g, NEW y, LocalInv(i, g, y),
         fetcher' = [fetcher EXCEPT ![i] = g], xfer' = [xfer EXCEPT ![i] = y]
  PROVE  /\ FetchersOk'
         /\ fetcher'[i] = g
         /\ \A j \in Ids : j # i => fetcher'[j] = fetcher[j]
<1>1. fetcher \in [Ids -> FetcherType] /\ xfer \in [Ids -> TransferType]
  BY DEF IInv, FetchersOk
<1>2. g \in FetcherType /\ y \in TransferType
  BY DEF LocalInv, FetcherOk, TransferOk
<1>3. \A j \in Ids : LocalInv(j, fetcher'[j], xfer'[j])
  BY <1>1 DEF IInv, FetchersOk
<1> QED
  BY <1>1, <1>2, <1>3 DEF FetchersOk, LocalInv

(* ... and when it is an active one that get() does not read from, the     *)
(* lists and the position stay as they were.                               *)
LEMMA ActiveUpdateOk ==
  ASSUME IInv, pc # "closed", pc' # "closed",
         NEW i \in Ids, i >= front, i < next, UNCHANGED <<front, next>>,
         NEW g, NEW y, LocalInv(i, g, y), g.mBytesDone = fetcher[i].mBytesDone,
         fetcher' = [fetcher EXCEPT ![i] = g], xfer' = [xfer EXCEPT ![i] = y]
  PROVE  FetchersOk' /\ ListsOk' /\ Position' = Position
<1>1. /\ FetchersOk' /\ fetcher'[i] = g
      /\ \A j \in Ids : j # i => fetcher'[j] = fetcher[j]
  BY UpdateOk
<1>2. \A j \in Ids : fetcher'[j].mBytesDone = fetcher[j].mBytesDone
  BY <1>1
<1>3. i \in Int /\ front \in Int /\ next \in Int /\ Ids \subseteq Int
  BY ConstantFacts DEF IInv, ControlOk, Ids
<1>4. ListsOk'
  BY <1>1, <1>2, <1>3 DEF IInv, ListsOk
<1>5. Position' = Position
  BY <1>2 DEF Position, Total
<1> QED
  BY <1>1, <1>4, <1>5

(* Steps without news for the caller.                                      *)
LEMMA DeliveredSame ==
  ASSUME IInv, Position' = Position, UNCHANGED delivered,
         result' = "eof" => front' = NumFetchers + 1 /\ pc' \in {"idle", "loop", "closed"}
  PROVE  DeliveredOk'
  BY DEF IInv, DeliveredOk, DeliveredInOrder

-----------------------------------------------------------------------------

LEMMA CallReadStep ==
  ASSUME IInv, NEW n \in ReadSizes, CallRead(n)
  PROVE  IInv'
<1>1. n \in Nat \ {0}
  BY PipelineAssumption
<1>2. FetchersOk' /\ ListsOk'
  BY DEF IInv, CallRead, FetchersOk, ListsOk
<1>3. ControlOk'
  BY <1>1 DEF IInv, CallRead, ControlOk
<1>4. Position' = Position
  BY DEF CallRead, Position, Total
<1>5. DeliveredOk'
  BY <1>4, DeliveredSame DEF IInv, CallRead, DeliveredOk
<1> QED
  BY <1>2, <1>3, <1>5 DEF IInv

(* What a fetcher about to be launched is.                                 *)
LEMMA LaunchFacts ==
  ASSUME IInv, pc = "loop", LaunchMore
  PROVE  /\ next \in Ids /\ next >= front /\ result # "eof"
         /\ fetcher[next].mState = "INIT" /\ ~ fetcher[next].mPaused
         /\ xfer[next] = NoTransfer
         /\ LocalInv(next, fetcher[next], NoTransfer)
         /\ FetcherOk(next, fetcher[next]) /\ Short(fetcher[next])
<1>1. next \in Ids /\ next >= front /\ result # "eof"
  BY ConstantFacts DEF IInv, ControlOk, DeliveredOk, LaunchMore, Ids
<1>2. fetcher[next].mState = "INIT"
  BY <1>1 DEF IInv, ListsOk, Ids
<1>3. xfer[next] = NoTransfer /\ ~ fetcher[next].mPaused
  BY <1>1, <1>2, IdleHasNoTransfer
<1>4. LocalInv(next, fetcher[next], NoTransfer)
  BY <1>1, <1>3 DEF IInv, FetchersOk
<1> QED
  BY <1>1, <1>2, <1>3, <1>4 DEF LocalInv, StateOk

(* The next pending transfer becomes active, started or not.               *)
LEMMA LaunchUpdate ==
  ASSUME IInv, pc = "loop", LaunchMore, pc' # "closed",
         next' = next + 1, UNCHANGED front,
         NEW g, NEW y, LocalInv(next, g, y), g.mBytesDone = fetcher[next].mBytesDone,
         fetcher' = [fetcher EXCEPT ![next] = g], xfer' = [xfer EXCEPT ![next] = y]
  PROVE  FetchersOk' /\ ListsOk' /\ Position' = Position
<1>1. next \in Ids /\ next >= front
  BY LaunchFacts
<1>2. /\ FetchersOk' /\ fetcher'[next] = g
      /\ \A j \in Ids : j # next => fetcher'[j] = fetcher[j]
  BY <1>1, UpdateOk
<1>3. \A j \in Ids : fetcher'[j].mBytesDone = fetcher[j].mBytesDone
  BY <1>2
<1>4. front \in Int /\ next \in Int /\ Ids \subseteq Int
  BY ConstantFacts DEF IInv, ControlOk, Ids
<1>5. ListsOk'
  BY <1>1, <1>2, <1>3, <1>4 DEF IInv, ListsOk
<1>6. Position' = Position
  BY <1>3 DEF Position, Total
<1> QED
  BY <1>2, <1>5, <1>6

LEMMA LaunchStep ==
  ASSUME IInv, Launch
  PROVE  IInv'
<1> DEFINE f == fetcher[next]
<1>1. /\ next \in Ids /\ next >= front /\ result # "eof"
      /\ f.mState = "INIT" /\ ~ f.mPaused /\ FetcherOk(next, f) /\ Short(f)
  BY LaunchFacts DEF Launch
<1>2. /\ fetcher' = [fetcher EXCEPT ![next] = Started(f)]
      /\ xfer' = [xfer EXCEPT ![next] = Asked]
      /\ next' = next + 1 /\ pc' = pc /\ pc = "loop"
      /\ UNCHANGED <<front, bufflen, result, delivered, faults, wild>>
  BY <1>1 DEF Launch, Startable
<1>3. LocalInv(next, Started(f), Asked) /\ Started(f).mBytesDone = f.mBytesDone
  BY <1>1, StartedOk
<1>4. FetchersOk' /\ ListsOk' /\ Position' = Position
  BY <1>2, <1>3, LaunchUpdate DEF Launch
<1>5. ControlOk'
  BY <1>1, <1>2, ConstantFacts DEF IInv, ControlOk, Ids
<1>6. DeliveredOk'
  BY <1>1, <1>2, <1>4, DeliveredSame
<1> QED
  BY <1>4, <1>5, <1>6 DEF IInv

LEMMA LaunchFailsStep ==
  ASSUME IInv, LaunchFails
  PROVE  IInv'
<1> DEFINE f == fetcher[next]
<1>1. /\ next \in Ids /\ next >= front
      /\ f.mState = "INIT" /\ LocalInv(next, f, NoTransfer) /\ xfer[next] = NoTransfer
  BY LaunchFacts DEF LaunchFails
<1>2. PICK g : /\ g = StartNoMemory(f) \/ g = WithBuffer(f)
               /\ fetcher' = [fetcher EXCEPT ![next] = g]
  BY DEF LaunchFails
<1>3. /\ next' = next + 1 /\ pc' = "idle" /\ pc = "loop" /\ result' = "error"
      /\ UNCHANGED <<xfer, front, bufflen, delivered, wild>>
      /\ LaunchMore
  BY DEF LaunchFails, Return
<1>4. LocalInv(next, g, NoTransfer) /\ g.mBytesDone = f.mBytesDone
  BY <1>1, <1>2, StartThrowsOk
<1>5. xfer' = [xfer EXCEPT ![next] = NoTransfer]
  BY <1>1, <1>3 DEF IInv, FetchersOk
<1>6. FetchersOk' /\ ListsOk' /\ Position' = Position
  BY <1>2, <1>3, <1>4, <1>5, LaunchUpdate
<1>7. faults' \in Nat
  BY PipelineAssumption DEF IInv, ControlOk, LaunchFails, Fault
<1>8. ControlOk'
  BY <1>1, <1>3, <1>7, ConstantFacts DEF IInv, ControlOk, Ids
<1>9. DeliveredOk'
  BY <1>3, <1>6, DeliveredSame
<1> QED
  BY <1>6, <1>8, <1>9 DEF IInv

(* Nothing is active only when nothing is pending either.                  *)
LEMMA LaunchedStep ==
  ASSUME IInv, Launched
  PROVE  IInv'
<1>1. FetchersOk' /\ ListsOk'
  BY DEF IInv, Launched, Return, FetchersOk, ListsOk
<1>2. Position' = Position
  BY DEF Launched, Position, Total
<1>3. Active = {} => front = NumFetchers + 1
  <2>1. front \in Int /\ next \in Int /\ front <= next /\ next <= NumFetchers + 1
        /\ mNConnections \in Nat \ {0} /\ NumFetchers \in Nat
    BY ConstantFacts DEF IInv, ControlOk
  <2>2. Active = {} => next = front
    <3>1. front < next => front \in Active
      BY <2>1 DEF Active
    <3> QED
      BY <2>1, <3>1
  <2> QED
    BY <2>1, <2>2 DEF Launched, LaunchMore
<1>4. ControlOk'
  BY DEF IInv, ControlOk, Launched, Return, Active
<1>5. result = "eof" => Active = {}
  BY ConstantFacts DEF IInv, ControlOk, DeliveredOk, Active
<1>6. DeliveredOk'
  BY <1>2, <1>3, <1>5, DeliveredSame DEF Launched, Return
<1> QED
  BY <1>1, <1>4, <1>6 DEF IInv

-----------------------------------------------------------------------------

(* Where get() is called there is an active fetcher.                       *)
LEMMA GetFacts ==
  ASSUME IInv, pc = "get"
  PROVE  /\ front \in Ids /\ front < next /\ result # "eof"
         /\ LocalInv(front, fetcher[front], xfer[front])
         /\ FetcherOk(front, fetcher[front])
<1>1. front \in Int /\ next \in Int /\ front >= 1 /\ next <= NumFetchers + 1
  BY ConstantFacts DEF IInv, ControlOk
<1>2. front < next
  BY <1>1 DEF IInv, ControlOk, Active
<1>3. front \in Ids /\ result # "eof"
  BY <1>1, <1>2, ConstantFacts DEF IInv, DeliveredOk, Ids
<1> QED
  BY <1>2, <1>3 DEF IInv, FetchersOk, LocalInv

(* read() returns the bytes that follow those it has returned before.      *)
LEMMA GetDataStep ==
  ASSUME IInv, GetData
  PROVE  IInv'
<1> DEFINE f == fetcher[front]
           m == TakeSize(f, bufflen)
           d == Taken(f, bufflen)
<1>1. /\ front \in Ids /\ front < next /\ LocalInv(front, f, xfer[front])
      /\ FetcherOk(front, f) /\ pc = "get" /\ Avail(f) > 0
  BY GetFacts DEF GetData
<1>2. bufflen \in Nat \ {0}
  BY <1>1 DEF IInv, ControlOk
<1>3. /\ LocalInv(front, Take(f, bufflen), xfer[front])
      /\ m \in Nat \ {0}
      /\ Take(f, bufflen).mBytesDone = f.mBytesDone + m
      /\ Take(f, bufflen).mState = f.mState
      /\ d = [k \in 1 .. m |-> f.mOffset + f.mBytesDone + k - 1]
  BY <1>1, <1>2, TakeOk
<1>4. /\ fetcher' = [fetcher EXCEPT ![front] = Take(f, bufflen)]
      /\ delivered' = delivered \o d
      /\ pc' = "idle" /\ result' = "data"
      /\ UNCHANGED <<xfer, front, next, bufflen, faults, wild>>
  BY DEF GetData, Return, IInv, FetchersOk
<1>5. xfer' = [xfer EXCEPT ![front] = xfer[front]]
  BY <1>4 DEF IInv, FetchersOk
<1> HIDE DEF m, d
<1>6. /\ FetchersOk' /\ fetcher'[front] = Take(f, bufflen)
      /\ \A j \in Ids : j # front => fetcher'[j] = fetcher[j]
  <2> DEFINE g == Take(f, bufflen)
             y == xfer[front]
  <2>1. LocalInv(front, g, y) /\ pc # "closed" /\ pc' # "closed"
    BY <1>1, <1>3, <1>4
  <2>2. fetcher' = [fetcher EXCEPT ![front] = g] /\ xfer' = [xfer EXCEPT ![front] = y]
    BY <1>4, <1>5
  <2> HIDE DEF g, y
  <2>3. /\ FetchersOk' /\ fetcher'[front] = g
        /\ \A j \in Ids : j # front => fetcher'[j] = fetcher[j]
    BY <1>1, <2>1, <2>2, UpdateOk
  <2> QED
    BY <2>3 DEF g
<1>7. ListsOk'
  <2>1. front \in Int /\ next \in Int /\ Ids \subseteq Int
    BY ConstantFacts DEF IInv, ControlOk, Ids
  <2> QED
    BY <1>1, <1>3, <1>4, <1>6, <2>1 DEF IInv, ListsOk
<1>8. ControlOk'
  BY <1>4 DEF IInv, ControlOk
<1>9. /\ Position = Offset[front] + f.mBytesDone - Offset[1]
      /\ Position' = Offset[front] + (f.mBytesDone + m) - Offset[1]
      /\ f.mOffset = Offset[front]
  BY <1>1, <1>3, <1>4, <1>6 DEF Position, FetcherOk
<1>10. /\ f.mBytesDone \in Nat /\ Offset[front] \in Nat /\ Offset[1] \in Nat
       /\ f.mOffset \in Nat
  BY <1>1, ConstantFacts DEF FetcherOk, FetcherType, Ids
<1>11. d \in Seq(Byte) /\ Len(d) = m
  <2>1. \A k \in 1 .. m : f.mOffset + f.mBytesDone + k - 1 \in Byte
    BY <1>3, <1>10, SMTT(60) DEF Byte
  <2> QED
    BY <1>3, <2>1
<1>12. delivered \in Seq(Byte) /\ Len(delivered) = Position /\ DeliveredInOrder
  BY DEF IInv, DeliveredOk
<1>13. delivered' \in Seq(Byte) /\ Len(delivered') = Len(delivered) + m
  <2>1. d \in Seq(Byte) /\ delivered \in Seq(Byte) /\ m \in Nat
    BY <1>3, <1>11, <1>12
  <2>2. delivered \o d \in Seq(Byte) /\ Len(delivered \o d) = Len(delivered) + Len(d)
    BY <2>1
  <2> QED
    BY <1>4, <1>11, <2>2
<1>14. DeliveredInOrder'
  <2> SUFFICES ASSUME NEW k \in 1 .. Len(delivered')
               PROVE  delivered'[k] = Offset[1] + k - 1
    BY DEF DeliveredInOrder
  <2>1. Len(delivered) \in Nat /\ k \in Nat
    BY <1>12
  <2>2. CASE k <= Len(delivered)
    BY <1>4, <1>11, <1>12, <2>1, <2>2 DEF DeliveredInOrder
  <2>3. CASE k > Len(delivered)
    <3>1. k - Len(delivered) \in 1 .. m
      BY <1>3, <1>13, <2>1, <2>3
    <3>2. delivered'[k] = d[k - Len(delivered)]
      BY <1>4, <1>11, <1>12, <1>13, <2>1, <2>3
    <3>3. d[k - Len(delivered)] = f.mOffset + f.mBytesDone + (k - Len(delivered)) - 1
      BY <1>3, <3>1
    <3>4. Len(delivered) = f.mOffset + f.mBytesDone - Offset[1]
      BY <1>9, <1>12
    <3> QED
      BY <1>10, <2>1, <3>2, <3>3, <3>4, SMTT(60)
  <2> QED
    BY <2>1, <2>2, <2>3
<1>15. Len(delivered') = Position'
  BY <1>3, <1>9, <1>10, <1>12, <1>13, SMTT(60)
<1>16. DeliveredOk'
  BY <1>4, <1>13, <1>14, <1>15 DEF DeliveredOk
<1> QED
  BY <1>6, <1>7, <1>8, <1>16 DEF IInv

(* A paused transfer has a whole reply on its way, some of it held back;   *)
(* the bytes held find an empty buffer, and are stored.                    *)
LEMMA GetUnpausesStep ==
  ASSUME IInv, GetUnpauses
  PROVE  IInv'
<1> DEFINE f == fetcher[front]
           x == xfer[front]
           n == x.held
           u == Unpause(f)
           g == WriterCallback(u, Contents(x, n))
           y == IF Accepts(u, n) THEN Passed(x, n) ELSE Held(x, n)
<1>1. /\ front \in Ids /\ front < next /\ LocalInv(front, f, x) /\ result # "eof"
      /\ pc = "get" /\ Avail(f) = 0 /\ f.mPaused
  BY GetFacts DEF GetUnpauses
<1>2. /\ n \in 1 .. CurlMaxWrite /\ n <= x.left
      /\ x.kind = "data" /\ x.msg = "none"
  BY <1>1, ConstantFacts, NoTransferType DEF LocalInv, StateOk, TransferOk, TransferType
<1>3. /\ LocalInv(front, u, x) /\ ~ u.mPaused /\ Avail(u) = 0
      /\ u.mBytesDone = f.mBytesDone
  BY <1>1, UnpauseOk
<1>4. fetcher' = [fetcher EXCEPT ![front] = g] /\ xfer' = [xfer EXCEPT ![front] = y]
  BY DEF GetUnpauses, Callback, IInv, FetchersOk
<1>5. UNCHANGED <<front, next, pc, bufflen, result, delivered, faults, wild>>
  BY DEF GetUnpauses
<1> HIDE DEF u, n
<1>6. LocalInv(front, g, y) /\ g.mBytesDone = u.mBytesDone /\ Avail(g) > 0
  BY <1>1, <1>2, <1>3, CallbackOk
<1> HIDE DEF g, y
<1>7. FetchersOk' /\ ListsOk' /\ Position' = Position
  <2>1. front >= front
    BY DEF IInv, ControlOk
  <2> QED
    BY <1>1, <1>3, <1>4, <1>5, <1>6, <2>1, ActiveUpdateOk
<1>8. ControlOk'
  BY <1>5 DEF IInv, ControlOk, Active
<1>9. DeliveredOk'
  BY <1>1, <1>5, <1>7, DeliveredSame
<1> QED
  BY <1>7, <1>8, <1>9 DEF IInv

(* The first transfer is used up: the position moves to the start of the   *)
(* next range without moving.                                              *)
LEMMA GetEofStep ==
  ASSUME IInv, GetEof
  PROVE  IInv'
<1> DEFINE f == fetcher[front]
<1>1. /\ front \in Ids /\ front < next /\ result # "eof"
      /\ LocalInv(front, f, xfer[front]) /\ FetcherOk(front, f)
      /\ pc = "get" /\ Avail(f) = 0 /\ f.mState = "DONE"
  BY GetFacts DEF GetEof, AtEof
<1>2. /\ front' = front + 1 /\ pc' = "loop"
      /\ UNCHANGED <<fetcher, xfer, next, bufflen, result, delivered, faults, wild>>
  BY DEF GetEof
<1>3. f.mBytesDone = Length[front]
  <2>1. Got(f) = f.mLen /\ f.mBytesDone \in Nat /\ f.mLen = Length[front]
    BY <1>1 DEF LocalInv, StateOk, FetcherOk, FetcherType
  <2> QED
    BY <1>1, <2>1 DEF Got
<1>4. front \in Nat /\ next \in Nat /\ front >= 1 /\ next <= NumFetchers + 1
      /\ Ids \subseteq Int
  BY ConstantFacts DEF IInv, ControlOk, Ids
<1>5. FetchersOk'
  BY <1>1, <1>2 DEF IInv, FetchersOk
<1>6. ListsOk'
  BY <1>1, <1>2, <1>4 DEF IInv, ListsOk
<1>7. ControlOk'
  BY <1>1, <1>2, <1>4, ConstantFacts DEF IInv, ControlOk, Ids
<1>8. Position' = Position
  <2>1. Position = Offset[front] + Length[front] - Offset[1]
    BY <1>1, <1>3 DEF Position
  <2>2. CASE front = NumFetchers
    <3>1. front + 1 \notin Ids
      BY <2>2, ConstantFacts DEF Ids
    <3> QED
      BY <1>2, <2>1, <2>2, <3>1 DEF Position, Total
  <2>3. CASE front # NumFetchers
    <3>1. front + 1 \in Ids /\ front \in 1 .. NumFetchers - 1
      BY <1>1, <2>3, ConstantFacts DEF Ids
    <3>2. Offset[front + 1] = Offset[front] + Length[front]
      BY <3>1, PipelineAssumption
    <3>3. fetcher[front + 1].mBytesDone = 0
      BY <1>4, <3>1 DEF IInv, ListsOk
    <3>4. Position' = Offset[front + 1] + 0 - Offset[1]
      BY <1>2, <3>1, <3>3 DEF Position
    <3>5. Offset[front + 1] \in Nat /\ Offset[1] \in Nat
      BY <3>1, ConstantFacts DEF Ids
    <3>6. Offset[front] \in Nat /\ Length[front] \in Nat
      BY <1>1, ConstantFacts
    <3> QED
      BY <2>1, <3>2, <3>4, <3>5, <3>6
  <2> QED
    BY <2>2, <2>3
<1>9. DeliveredOk'
  BY <1>1, <1>2, <1>8, DeliveredSame
<1> QED
  BY <1>5, <1>6, <1>7, <1>9 DEF IInv

(* Steps that leave the transfers and the lists alone.                     *)
LEMMA FrameOk ==
  ASSUME IInv, pc # "closed", pc' # "closed", UNCHANGED <<fetcher, xfer, front, next>>
  PROVE  FetchersOk' /\ ListsOk' /\ Position' = Position
  BY DEF IInv, FetchersOk, ListsOk, Position, Total

LEMMA GetNothingStep ==
  ASSUME IInv, GetNothing
  PROVE  IInv'
<1> DEFINE f == fetcher[front]
<1>1. /\ front \in Ids /\ front < next /\ result # "eof"
      /\ LocalInv(front, f, xfer[front]) /\ FetcherOk(front, f)
      /\ pc = "get"
  BY GetFacts DEF GetNothing, NeedMore
<1>2. pc' = "perform" /\ UNCHANGED <<front, next, bufflen, result, delivered, faults, wild>>
  BY DEF GetNothing
<1>3. FetchersOk' /\ ListsOk' /\ Position' = Position
  <2>1. CASE f.mState = "FAILED"
    <3> DEFINE g == Started(f)
    <3>1. Short(f) /\ ~ f.mPaused
      BY <1>1, <2>1, IdleHasNoTransfer DEF LocalInv, StateOk
    <3>2. LocalInv(front, g, Asked) /\ g.mBytesDone = f.mBytesDone
      BY <1>1, <3>1, StartedOk
    <3>3. fetcher' = [fetcher EXCEPT ![front] = g] /\ xfer' = [xfer EXCEPT ![front] = Asked]
      BY <2>1 DEF GetNothing, IInv, FetchersOk
    <3>4. front >= front
      BY DEF IInv, ControlOk
    <3> HIDE DEF g
    <3> QED
      BY <1>1, <1>2, <3>2, <3>3, <3>4, ActiveUpdateOk
  <2>2. CASE f.mState # "FAILED"
    BY <1>1, <1>2, <2>2, FrameOk DEF GetNothing
  <2> QED
    BY <2>1, <2>2
<1>4. ControlOk'
  BY <1>1, <1>2 DEF IInv, ControlOk
<1>5. DeliveredOk'
  BY <1>1, <1>2, <1>3, DeliveredSame
<1> QED
  BY <1>3, <1>4, <1>5 DEF IInv

LEMMA FaultType ==
  ASSUME IInv, NEW kind, Fault(kind)
  PROVE  faults' \in Nat
  BY PipelineAssumption DEF IInv, ControlOk, Fault

LEMMA RestartFailsStep ==
  ASSUME IInv, RestartFails
  PROVE  IInv'
<1>1. /\ pc = "get" /\ pc' = "idle" /\ result' = "error" /\ Fault("nohandle")
      /\ UNCHANGED <<fetcher, xfer, front, next, bufflen, delivered, wild>>
  BY DEF RestartFails, NeedMore, Return
<1>2. FetchersOk' /\ ListsOk' /\ Position' = Position
  BY <1>1, FrameOk
<1>3. ControlOk'
  BY <1>1, FaultType DEF IInv, ControlOk
<1>4. DeliveredOk'
  BY <1>1, <1>2, DeliveredSame
<1> QED
  BY <1>2, <1>3, <1>4 DEF IInv

-----------------------------------------------------------------------------

(* Inside curl_multi_perform nothing is reported to the caller.            *)
LEMMA PerformControl ==
  ASSUME IInv, pc = "perform", UNCHANGED <<front, next, pc, bufflen, result, wild>>,
         faults' \in Nat
  PROVE  ControlOk' /\ result' # "eof"
  BY DEF IInv, ControlOk, DeliveredOk, Active

LEMMA AnswerStep ==
  ASSUME GoodServer, IInv, NEW i \in Ids, Answer(i)
  PROVE  IInv'
<1> DEFINE f == fetcher[i]
           x == xfer[i]
<1>1. /\ pc = "perform" /\ x.kind = "asked" /\ LocalInv(i, f, x)
      /\ UNCHANGED <<fetcher, front, next, pc, bufflen, result, delivered, wild>>
  BY DEF Answer, IInv, FetchersOk
<1>2. faults' \in Nat
  BY FaultType DEF Answer, IInv, ControlOk
<1>3. PICK y : LocalInv(i, f, y) /\ xfer' = [xfer EXCEPT ![i] = y]
  BY <1>1, AnswerOk DEF Answer
<1>4. fetcher' = [fetcher EXCEPT ![i] = f]
  BY <1>1 DEF IInv, FetchersOk
<1>5. i >= front /\ i < next
  BY <1>1, RunningIsActive
<1>6. FetchersOk' /\ ListsOk' /\ Position' = Position
  BY <1>1, <1>3, <1>4, <1>5, ActiveUpdateOk
<1> QED
  BY <1>1, <1>2, <1>6, PerformControl, DeliveredSame DEF IInv

LEMMA ArriveStep ==
  ASSUME IInv, NEW i \in Ids, NEW n \in 1 .. CurlMaxWrite, Arrive(i, n)
  PROVE  IInv'
<1> DEFINE f == fetcher[i]
           x == xfer[i]
           g == WriterCallback(f, Contents(x, n))
           y == IF Accepts(f, n) THEN Passed(x, n) ELSE Held(x, n)
<1>1. /\ pc = "perform" /\ LocalInv(i, f, x) /\ CanArrive(x, n)
      /\ UNCHANGED <<front, next, pc, bufflen, result, delivered, faults, wild>>
  BY DEF Arrive, IInv, FetchersOk
<1>2. /\ x.kind \in {"data", "error"} /\ x.msg = "none" /\ x.held = 0 /\ n <= x.left
      /\ x.kind # "none"
  BY <1>1 DEF CanArrive
<1>3. ~ f.mPaused
  BY <1>1, <1>2 DEF LocalInv, StateOk
<1>4. fetcher' = [fetcher EXCEPT ![i] = g] /\ xfer' = [xfer EXCEPT ![i] = y]
  BY DEF Arrive, Callback, IInv, FetchersOk
<1>5. LocalInv(i, g, y) /\ g.mBytesDone = f.mBytesDone
  BY <1>1, <1>2, <1>3, CallbackOk
<1>6. i >= front /\ i < next
  BY <1>1, <1>2, RunningIsActive
<1> HIDE DEF g, y
<1>7. FetchersOk' /\ ListsOk' /\ Position' = Position
  BY <1>1, <1>4, <1>5, <1>6, ActiveUpdateOk
<1>8. faults' \in Nat
  BY <1>1 DEF IInv, ControlOk
<1> QED
  BY <1>1, <1>7, <1>8, PerformControl, DeliveredSame DEF IInv

LEMMA FinishStep ==
  ASSUME IInv, NEW i \in Ids, Finish(i)
  PROVE  IInv'
<1> DEFINE f == fetcher[i]
           x == xfer[i]
<1>1. /\ pc = "perform" /\ LocalInv(i, f, x)
      /\ UNCHANGED <<fetcher, front, next, pc, bufflen, result, delivered, wild>>
  BY DEF Finish, IInv, FetchersOk
<1>2. faults' \in Nat
  BY FaultType DEF Finish, IInv, ControlOk
<1>3. PICK m \in {"OK", "BROKEN"} :
        /\ xfer' = [xfer EXCEPT ![i] = [x EXCEPT !.msg = m]]
        /\ \/ m = "OK" /\ IsComplete(x)
           \/ m = "OK" /\ x.kind = "asked"
           \/ m = "BROKEN" /\ CanBreak(x)
  BY DEF Finish
<1> DEFINE y == [x EXCEPT !.msg = m]
<1>4. LocalInv(i, f, y)
  BY <1>1, <1>3, EndedOk
<1>5. fetcher' = [fetcher EXCEPT ![i] = f]
  BY <1>1 DEF IInv, FetchersOk
<1>6. x.kind # "none"
  BY <1>3 DEF IsComplete, CanBreak
<1>7. i >= front /\ i < next
  BY <1>1, <1>6, RunningIsActive
<1>8. xfer' = [xfer EXCEPT ![i] = y]
  BY <1>3
<1> HIDE DEF y
<1>9. FetchersOk' /\ ListsOk' /\ Position' = Position
  BY <1>1, <1>4, <1>5, <1>7, <1>8, ActiveUpdateOk
<1> QED
  BY <1>1, <1>2, <1>9, PerformControl, DeliveredSame DEF IInv

(* curl_multi_perform returns or fails; the messages are all read.         *)
LEMMA WaitSteps ==
  ASSUME IInv, Performed \/ PerformFails \/ ResultsDone
  PROVE  IInv'
<1>1. /\ pc \in {"perform", "results"} /\ pc' \in {"results", "idle", "loop"}
      /\ result' \in {result, "error"} /\ (pc' = "idle" => result' = "error")
      /\ UNCHANGED <<fetcher, xfer, front, next, bufflen, delivered, wild>>
  BY DEF Performed, PerformFails, ResultsDone, Return
<1>2. FetchersOk' /\ ListsOk' /\ Position' = Position
  BY <1>1, FrameOk
<1>3. faults' \in Nat
  BY FaultType DEF Performed, PerformFails, ResultsDone, IInv, ControlOk
<1>4. ControlOk'
  BY <1>1, <1>3 DEF IInv, ControlOk
<1>5. DeliveredOk'
  <2>1. result # "eof"
    BY <1>1 DEF IInv, DeliveredOk
  <2> QED
    BY <1>1, <1>2, <2>1, DeliveredSame
<1> QED
  BY <1>2, <1>4, <1>5 DEF IInv

(* Every message is for an active fetcher, so that read() has no internal  *)
(* error to report.                                                        *)
LEMMA HandleMessageStep ==
  ASSUME IInv, NEW i \in Ids, HandleMessage(i)
  PROVE  IInv'
<1> DEFINE f == fetcher[i]
           x == xfer[i]
           g == HandleResult(f, x.msg, ResponseCode(x))
<1>1. /\ pc = "results" /\ LocalInv(i, f, x) /\ x.msg # "none"
      /\ UNCHANGED <<front, next, bufflen, delivered, faults, wild>>
      /\ xfer' = [xfer EXCEPT ![i] = NoTransfer]
  BY DEF HandleMessage, IInv, FetchersOk
<1>2. x.kind # "none"
  BY <1>1, NoTransferType DEF LocalInv, TransferOk
<1>3. i >= front /\ i < next /\ f.mCurl = "live"
  BY <1>1, <1>2, RunningIsActive
<1>4. Found(i)
  BY <1>3, ConstantFacts DEF Found, Active, Ids, IInv, ControlOk
<1>5. result # "eof"
  BY <1>1 DEF IInv, DeliveredOk
<1>6. CASE ResultThrows(x.msg, ResponseCode(x))
  <2>1. UNCHANGED fetcher /\ pc' = "idle" /\ result' = "error"
    BY <1>4, <1>6 DEF HandleMessage, Return
  <2>2. LocalInv(i, f, NoTransfer)
    BY <1>1, ConsumedOk
  <2>3. fetcher' = [fetcher EXCEPT ![i] = f]
    BY <2>1 DEF IInv, FetchersOk
  <2>4. FetchersOk' /\ ListsOk' /\ Position' = Position
    BY <1>1, <1>3, <2>1, <2>2, <2>3, ActiveUpdateOk
  <2>5. ControlOk'
    BY <1>1, <2>1 DEF IInv, ControlOk
  <2>6. DeliveredOk'
    BY <1>1, <2>1, <2>4, DeliveredSame
  <2> QED
    BY <2>4, <2>5, <2>6 DEF IInv
<1>7. CASE ~ ResultThrows(x.msg, ResponseCode(x))
  <2>1. fetcher' = [fetcher EXCEPT ![i] = g] /\ UNCHANGED <<pc, result>>
    BY <1>4, <1>7 DEF HandleMessage, IInv, FetchersOk
  <2>2. LocalInv(i, g, NoTransfer) /\ g.mBytesDone = f.mBytesDone
    BY <1>1, <1>7, HandleOk
  <2> HIDE DEF g
  <2>3. FetchersOk' /\ ListsOk' /\ Position' = Position
    BY <1>1, <1>3, <2>1, <2>2, ActiveUpdateOk
  <2>4. ControlOk'
    BY <1>1, <2>1 DEF IInv, ControlOk
  <2>5. DeliveredOk'
    BY <1>1, <1>5, <2>1, <2>3, DeliveredSame
  <2> QED
    BY <2>3, <2>4, <2>5 DEF IInv
<1> QED
  BY <1>6, <1>7

(* cleanup() touches neither buffer nor counts.                            *)
LEMMA CloseStep ==
  ASSUME IInv, Close
  PROVE  IInv'
<1>1. /\ pc = "idle" /\ pc' = "closed"
      /\ wild' = \E i \in Active \cup Pending : CleanupIsWild(fetcher[i])
      /\ fetcher' = [i \in Ids |-> IF i \in Active \cup Pending THEN Cleanup(fetcher[i])
                                   ELSE fetcher[i]]
      /\ xfer' = [i \in Ids |-> NoTransfer]
      /\ UNCHANGED <<front, next, bufflen, result, delivered, faults>>
  BY DEF Close
<1>2. ASSUME NEW i \in Ids
      PROVE  /\ FetcherOk(i, fetcher'[i])
             /\ fetcher'[i].mBytesDone = fetcher[i].mBytesDone
             /\ fetcher'[i].mState = fetcher[i].mState
             /\ Avail(fetcher'[i]) = Avail(fetcher[i])
  <2> DEFINE f == fetcher[i]
             g == Cleanup(f)
  <2>1. FetcherOk(i, f) /\ f \in FetcherType
    BY DEF IInv, FetchersOk, FetcherOk
  <2>2. g = [f EXCEPT !.mCurl = "null"]
    BY DEF Cleanup
  <2>3. fetcher'[i] = g \/ fetcher'[i] = f
    BY <1>1
  <2> HIDE DEF f, g
  <2>4. /\ g \in FetcherType
        /\ g.mState = f.mState /\ g.mPaused = f.mPaused /\ g.mReadBuff = f.mReadBuff
        /\ g.mBytesDone = f.mBytesDone /\ g.mNused = f.mNused /\ g.mReadOff = f.mReadOff
        /\ g.mOffset = f.mOffset /\ g.mLen = f.mLen /\ g.mConfBuffSize = f.mConfBuffSize
        /\ g.mBuffSize = f.mBuffSize
    BY <2>1, <2>2 DEF FetcherType, Handles
  <2>5. FetcherOk(i, g) /\ Avail(g) = Avail(f)
    BY <2>1, <2>4 DEF FetcherOk, BufferOk, Got, Avail
  <2> QED
    BY <2>1, <2>3, <2>4, <2>5 DEF f
<1>3. FetchersOk'
  <2>1. \A i \in Ids : fetcher'[i] \in FetcherType
    BY <1>2 DEF FetcherOk
  <2>2. fetcher' \in [Ids -> FetcherType] /\ xfer' \in [Ids -> TransferType]
    BY <1>1, <2>1, NoTransferType
  <2>3. \A i \in Ids : FetcherOk(i, fetcher'[i]) /\ xfer'[i] = NoTransfer
    BY <1>1, <1>2
  <2> QED
    BY <1>1, <2>2, <2>3 DEF FetchersOk
<1>4. ListsOk'
  BY <1>1, <1>2 DEF IInv, ListsOk
<1>5. Position' = Position
  BY <1>1, <1>2 DEF Position, Total
<1>6. ControlOk'
  <2>1. wild' \in BOOLEAN
    BY <1>1
  <2> QED
    BY <1>1, <2>1 DEF IInv, ControlOk
<1>7. DeliveredOk'
  BY <1>1, <1>5, DeliveredSame DEF IInv, DeliveredOk
<1> QED
  BY <1>3, <1>4, <1>6, <1>7 DEF IInv

-----------------------------------------------------------------------------

(* Every step keeps the invariant.                                         *)
LEMMA NextIInv ==
  ASSUME GoodServer, IInv, [Next]_vars
  PROVE  IInv'
<1>1. CASE \E n \in ReadSizes : CallRead(n)
  BY <1>1, CallReadStep
<1>2. CASE Launch \/ LaunchFails \/ Launched
  BY <1>2, LaunchStep, LaunchFailsStep, LaunchedStep
<1>3. CASE Get
  BY <1>3, GetDataStep, GetUnpausesStep, GetEofStep, GetNothingStep, RestartFailsStep
  DEF Get
<1>4. CASE Network
  BY <1>4, AnswerStep, ArriveStep, FinishStep DEF Network
<1>5. CASE Performed \/ PerformFails \/ ResultsDone
  BY <1>5, WaitSteps
<1>6. CASE \E i \in Ids : HandleMessage(i)
  BY <1>6, HandleMessageStep
<1>7. CASE Close
  BY <1>7, CloseStep
<1>8. CASE Closed \/ UNCHANGED vars
  <2>1. UNCHANGED vars
    BY <1>8 DEF Closed
  <2>2. FetchersOk' /\ ListsOk' /\ ControlOk'
    BY <2>1 DEF vars, IInv, FetchersOk, ListsOk, ControlOk, Active
  <2>3. DeliveredOk'
    BY <2>1 DEF vars, IInv, DeliveredOk, DeliveredInOrder, Position, Total
  <2> QED
    BY <2>2, <2>3 DEF IInv
<1> QED
  BY <1>1, <1>2, <1>3, <1>4, <1>5, <1>6, <1>7, <1>8 DEF Next, Results

(* The invariant holds of the download side with a good server.            *)
THEOREM Safety == ASSUME GoodServer PROVE Spec => []IInv
<1>1. Init => IInv
  BY InitIInv
<1>2. IInv /\ [Next]_vars => IInv'
  BY NextIInv
<1> QED
  BY <1>1, <1>2, PTL DEF Spec

-----------------------------------------------------------------------------

(* Every variable has its type and no buffer index leaves the buffer.      *)
THEOREM PipelineTypeOK == ASSUME GoodServer PROVE Spec => []TypeOK
<1>1. ASSUME IInv PROVE TypeOK
  <2>1. \A i \in Ids :
          /\ fetcher[i].mReadOff <= fetcher[i].mNused
          /\ fetcher[i].mNused > 0 =>
               fetcher[i].mNused \in {n + 1 : n \in DOMAIN fetcher[i].mReadBuff}
    <3> SUFFICES ASSUME NEW i \in Ids
                 PROVE  /\ fetcher[i].mReadOff <= fetcher[i].mNused
                        /\ fetcher[i].mNused > 0 =>
                             fetcher[i].mNused \in {n + 1 : n \in DOMAIN fetcher[i].mReadBuff}
      OBVIOUS
    <3>1. /\ fetcher[i] \in FetcherType /\ BufferOk(fetcher[i])
          /\ fetcher[i].mNused \in Nat
      BY <1>1 DEF IInv, FetchersOk, FetcherOk, FetcherType
    <3>2. ASSUME fetcher[i].mNused > 0
          PROVE  fetcher[i].mNused \in {n + 1 : n \in DOMAIN fetcher[i].mReadBuff}
      <4>1. DOMAIN fetcher[i].mReadBuff = 0 .. BuffSize - 1 /\ fetcher[i].mNused <= BuffSize
        BY <3>1, <3>2 DEF BufferOk, FetcherType
      <4>2. /\ fetcher[i].mNused - 1 \in DOMAIN fetcher[i].mReadBuff
            /\ (fetcher[i].mNused - 1) + 1 = fetcher[i].mNused
        BY <3>1, <3>2, <4>1, ConstantFacts
      <4> QED
        BY <4>2
    <3> QED
      BY <3>1, <3>2 DEF BufferOk
  <2>2. xfer \in [Ids -> TransferType] /\ fetcher \in [Ids -> FetcherType]
    BY <1>1 DEF IInv, FetchersOk
  <2> QED
    BY <1>1, <2>1, <2>2 DEF TypeOK, IInv, ControlOk, DeliveredOk
<1> QED
  BY <1>1, Safety, PTL

(* The reads return the bytes of the range, in their order.                *)
THEOREM PipelineDeliversInOrder == ASSUME GoodServer PROVE Spec => []DeliveredInOrder
<1>1. IInv => DeliveredInOrder
  BY DEF IInv, DeliveredOk
<1> QED
  BY <1>1, Safety, PTL

(* End of file is reported after the last byte of the range.               *)
THEOREM PipelineEofIsComplete == ASSUME GoodServer PROVE Spec => []EofIsComplete
<1>1. IInv => EofIsComplete
  <2>1. NumFetchers + 1 \notin Ids
    BY ConstantFacts DEF Ids
  <2> QED
    BY <2>1 DEF IInv, DeliveredOk, EofIsComplete, Position
<1> QED
  BY <1>1, Safety, PTL

(* The errors the code declares impossible are.                            *)
THEOREM PipelineNoInternalError == ASSUME GoodServer PROVE Spec => []NoInternalError
<1>1. IInv => NoInternalError
  BY DEF IInv, ControlOk, NoInternalError
<1> QED
  BY <1>1, Safety, PTL

(* A paused fetcher can be unpaused, and libcurl has bytes for it.         *)
THEOREM PipelinePausedIsLive == ASSUME GoodServer PROVE Spec => []PausedIsLive
<1>1. ASSUME IInv PROVE PausedIsLive
  <2>1. ASSUME pc # "closed", NEW i \in Ids, fetcher[i].mPaused
        PROVE  fetcher[i].mCurl = "live" /\ xfer[i].held > 0
    <3>1. xfer[i].held > 0 /\ LocalInv(i, fetcher[i], xfer[i])
      BY <1>1, <2>1 DEF IInv, FetchersOk, LocalInv, StateOk
    <3>2. xfer[i].kind # "none"
      BY <3>1, NoTransferType DEF LocalInv, TransferOk
    <3> QED
      BY <3>1, <3>2 DEF LocalInv, StateOk
  <2> QED
    BY <2>1 DEF PausedIsLive
<1> QED
  BY <1>1, Safety, PTL

(* Every reply goes on where the buffer stops, restarted or not.           *)
THEOREM PipelineTransferAligned == ASSUME GoodServer PROVE Spec => []TransferAligned
<1>1. ASSUME IInv PROVE TransferAligned
  <2>1. ASSUME NEW i \in Ids, xfer[i].kind = "data"
        PROVE  /\ xfer[i].next = fetcher[i].mOffset + fetcher[i].mBytesDone + Avail(fetcher[i])
               /\ xfer[i].next + xfer[i].left = fetcher[i].mOffset + fetcher[i].mLen
    <3>1. LocalInv(i, fetcher[i], xfer[i])
      BY <1>1, <2>1, NoTransferType DEF IInv, FetchersOk
    <3>2. /\ fetcher[i].mOffset \in Nat /\ fetcher[i].mBytesDone \in Nat
          /\ Avail(fetcher[i]) \in Int
      BY <3>1 DEF LocalInv, FetcherOk, FetcherType, Avail
    <3> QED
      BY <2>1, <3>1, <3>2 DEF LocalInv, TransferOk, Got
  <2> QED
    BY <2>1 DEF TransferAligned
<1> QED
  BY <1>1, Safety, PTL

(* When get() unpauses a transfer, what libcurl has kept finds room.       *)
THEOREM PipelineRetriesOnce == ASSUME GoodServer PROVE Spec => []RetryOnce
<1>1. ASSUME IInv PROVE RetryOnce
  <2> DEFINE f == fetcher[front]
             u == Unpause(f)
             n == xfer[front].held
             r == MakeRoom(u, n)
  <2>1. SUFFICES ASSUME pc = "get", Avail(f) = 0, f.mPaused
                 PROVE  Accepts(u, n)
    BY DEF RetryOnce
  <2>2. front \in Ids /\ LocalInv(front, f, xfer[front])
    BY <1>1, <2>1, GetFacts
  <2>3. n \in 1 .. CurlMaxWrite /\ f.mState = "RUNNING"
    BY <2>1, <2>2, ConstantFacts, NoTransferType
    DEF LocalInv, StateOk, TransferOk, TransferType
  <2>4. FetcherOk(front, u) /\ u.mReadBuff # NoBuffer /\ Avail(u) = 0
    BY <2>1, <2>2, <2>3, UnpauseOk DEF LocalInv, StateOk
  <2> HIDE DEF u, n
  <2>5. FetcherOk(front, r) /\ r.mReadBuff # NoBuffer /\ r.mNused = 0
    BY <2>2, <2>4, MakeRoomOk
  <2>6. r.mBuffSize = BuffSize
    BY <2>5 DEF FetcherOk, BufferOk
  <2>7. n <= r.mBuffSize - r.mNused
    BY <2>3, <2>5, <2>6, ConstantFacts
  <2> QED
    BY <2>7 DEF Accepts, Fits
<1> QED
  BY <1>1, Safety, PTL

-----------------------------------------------------------------------------

(* No range ends past the end of the whole.                                *)
LEMMA RangesAreInside ==
  ASSUME NEW i \in Ids
  PROVE  Offset[i] + Length[i] <= Offset[NumFetchers] + Length[NumFetchers]
<1>1. NumFetchers \in Ids /\ i \in Nat /\ i <= NumFetchers
  BY ConstantFacts DEF Ids
<1>2. CASE i = NumFetchers
  BY <1>1, <1>2, ConstantFacts
<1>3. CASE i < NumFetchers
  <2>1. Offset[i] + Length[i] <= Offset[NumFetchers]
    BY <1>1, <1>3, PipelineAssumption DEF Ids
  <2> QED
    BY <1>1, <2>1, ConstantFacts
<1> QED
  BY <1>1, <1>2, <1>3, ConstantFacts

(* A read that returns bytes is a read of the abstract stream.             *)
LEMMA GetDataReads ==
  ASSUME IInv, IInv', GetData
  PROVE  \E n \in 1 .. Total : Stream!Read(n)
<1> DEFINE f == fetcher[front]
           m == TakeSize(f, bufflen)
           d == Taken(f, bufflen)
<1>1. /\ front \in Ids /\ LocalInv(front, f, xfer[front]) /\ result # "eof"
      /\ FetcherOk(front, f) /\ pc = "get" /\ Avail(f) > 0
  BY GetFacts DEF GetData
<1>2. bufflen \in Nat \ {0}
  BY <1>1 DEF IInv, ControlOk
<1>3. /\ m \in Nat \ {0} /\ f.mBytesDone + m <= f.mLen
      /\ d = [k \in 1 .. m |-> f.mOffset + f.mBytesDone + k - 1]
  BY <1>1, <1>2, TakeOk
<1>4. delivered' = delivered \o d /\ result' = "data"
  BY DEF GetData, Return
<1> HIDE DEF m, d
<1>5. /\ Len(delivered) = Offset[front] + f.mBytesDone - Offset[1]
      /\ Len(delivered) \in Nat
      /\ f.mOffset = Offset[front] /\ f.mLen = Length[front]
  BY <1>1 DEF IInv, DeliveredOk, Position, FetcherOk
<1>6. /\ f.mBytesDone \in Nat /\ Offset[front] \in Nat /\ Length[front] \in Nat
      /\ 1 \in Ids /\ NumFetchers \in Ids
      /\ Offset[1] \in Nat /\ Offset[NumFetchers] \in Nat /\ Length[NumFetchers] \in Nat
      /\ Offset[front] + Length[front] <= Offset[NumFetchers] + Length[NumFetchers]
  BY <1>1, RangesAreInside, ConstantFacts, SMTT(60) DEF FetcherOk, FetcherType, Ids
<1>7. Len(delivered) + m <= Total /\ Total \in Int /\ m \in 1 .. Total
  <2> DEFINE got == Len(delivered)
             done == f.mBytesDone
             start == Offset[front]
             len == Length[front]
             start1 == Offset[1]
             startN == Offset[NumFetchers]
             lenN == Length[NumFetchers]
  <2>1. /\ got = start + done - start1 /\ done + m <= len
        /\ start + len <= startN + lenN
        /\ Total = startN + lenN - start1
        /\ got \in Nat /\ m \in Nat \ {0} /\ done \in Nat
        /\ start \in Nat /\ len \in Nat /\ start1 \in Nat /\ startN \in Nat /\ lenN \in Nat
    BY <1>3, <1>5, <1>6 DEF Total
  <2> HIDE DEF got, done, start, len, start1, startN, lenN
  <2>2. got + m <= Total /\ Total \in Int /\ m \in 1 .. Total
    BY <2>1
  <2> QED
    BY <2>2 DEF got
<1>8. d = [k \in 1 .. m |-> Offset[1] + Len(delivered) + k - 1]
  <2>1. \A k \in 1 .. m : f.mOffset + f.mBytesDone + k - 1
                          = Offset[1] + Len(delivered) + k - 1
    BY <1>5, <1>6, SMTT(60)
  <2> QED
    BY <1>3, <2>1
<1>9. (result' = "eof") = (result = "eof") /\ ~ (result = "eof")
  BY <1>1, <1>4
<1>10. Stream!Read(m)
  BY <1>4, <1>7, <1>8, <1>9 DEF Stream!Read
<1> QED
  BY <1>7, <1>10

(* Any other step returns nothing, and reports the end only at the end.    *)
LEMMA OtherSteps ==
  ASSUME IInv, IInv', [Next]_vars, ~ GetData
  PROVE  /\ delivered' = delivered
         /\ result = "eof" => result' = "eof"
         /\ result' = "eof" => Len(delivered) = Total
<1>1. delivered' = delivered
  BY DEF Next, vars, CallRead, Launch, LaunchFails, Launched, Get, GetUnpauses, GetEof,
         GetNothing, RestartFails, Network, Answer, Arrive, Finish, Performed,
         PerformFails, Results, HandleMessage, ResultsDone, Close, Closed
<1>2. ASSUME result = "eof" PROVE result' = "eof"
  <2>1. front = NumFetchers + 1 /\ next = NumFetchers + 1
        /\ pc \in {"idle", "loop", "closed"}
    BY <1>2, ConstantFacts DEF IInv, DeliveredOk, ControlOk
  <2>2. ~ LaunchMore
    BY <2>1, ConstantFacts DEF LaunchMore
  <2>3. /\ pc # "get" /\ pc # "perform" /\ pc # "results"
    BY <2>1
  <2>4. ~ Get /\ ~ Network /\ ~ Performed /\ ~ PerformFails /\ ~ Results
        /\ ~ Launch /\ ~ LaunchFails
    BY <2>2, <2>3 DEF Get, GetData, GetUnpauses, GetEof, GetNothing, NeedMore, RestartFails,
       Network, Answer, Arrive, Finish, Performed, PerformFails, Results, HandleMessage,
       ResultsDone, Launch, LaunchFails
  <2>5. (\E n \in ReadSizes : CallRead(n)) \/ Close \/ Closed \/ UNCHANGED vars
        => result' = result
    BY DEF CallRead, Close, Closed, vars
  <2>6. Launched => result' \in {result, "eof"}
    BY DEF Launched, Return
  <2> QED
    BY <1>2, <2>4, <2>5, <2>6 DEF Next
<1>3. ASSUME result' = "eof" PROVE Len(delivered) = Total
  <2>1. NumFetchers + 1 \notin Ids
    BY ConstantFacts DEF Ids
  <2> QED
    BY <1>1, <1>3, <2>1 DEF IInv, DeliveredOk, Position, Total
<1> QED
  BY <1>1, <1>2, <1>3

(* Whatever the plan, the sizes, the interleaving of the transfers and     *)
(* the failures, a reader is the byte stream of qingstor.h.                *)
THEOREM PipelineIsByteStream == ASSUME GoodServer PROVE Spec => ImplementsByteStream
<1>1. Init => Stream!Init
  BY DEF Init, Stream!Init
<1>2. ASSUME IInv, IInv', [Next]_vars
      PROVE  [Stream!Next]_<<delivered, result = "eof">>
  <2>1. CASE GetData
    BY <1>2, <2>1, GetDataReads DEF Stream!Next
  <2>2. CASE ~ GetData /\ (result = "eof" <=> result' = "eof")
    <3>1. delivered' = delivered /\ (result' = "eof") = (result = "eof")
      BY <1>2, <2>2, OtherSteps
    <3> QED
      BY <3>1
  <2>3. CASE ~ GetData /\ ~ (result = "eof" <=> result' = "eof")
    <3>1. /\ delivered' = delivered /\ Len(delivered) = Total
          /\ (result' = "eof") = TRUE
      BY <1>2, <2>3, OtherSteps
    <3>2. Stream!Eof
      BY <3>1 DEF Stream!Eof
    <3> QED
      BY <3>2 DEF Stream!Next
  <2> QED
    BY <2>1, <2>2, <2>3
<1> QED
  BY <1>1, <1>2, Safety, PTL DEF Spec, ImplementsByteStream, Stream!Spec

-----------------------------------------------------------------------------

(* A callback that finds an unread buffer leaves one.                      *)
LEMMA CallbackLeavesUnread ==
  ASSUME NEW f \in FetcherType, f.mReadOff \in {0, f.mNused}, NEW c
  PROVE  WriterCallback(f, c).mReadOff = 0
<1> DEFINE r == Rewound(f)
<1>1. r \in FetcherType /\ r.mReadOff = 0
  BY DEF Rewound, FetcherType
<1> HIDE DEF r
<1>2. MakeRoom(f, Len(c)) = r
  BY <1>1 DEF MakeRoom, r
<1>3. Store(r, c).mReadOff = 0 /\ [r EXCEPT !.mPaused = TRUE].mReadOff = 0
  BY <1>1 DEF Store, FetcherType
<1> QED
  BY <1>2, <1>3 DEF WriterCallback

(* No callback has to move unread bytes.                                   *)
THEOREM PipelineNeverShifts == ASSUME GoodServer PROVE Spec => []NothingToShift
<1>1. ASSUME IInv, IInv', NothingToShift, [Next]_vars
      PROVE  NothingToShift'
  <2> SUFFICES ASSUME pc' = "perform", NEW i \in Ids
               PROVE  fetcher'[i].mReadOff \in {0, fetcher'[i].mNused}
    BY DEF NothingToShift
  <2>1. CASE i # front'     \* used up before, or not read from yet
    <3>1. /\ fetcher'[i].mReadOff \in Nat /\ fetcher'[i].mNused \in Nat
          /\ fetcher'[i].mReadOff <= fetcher'[i].mBytesDone
          /\ i \in Int /\ front' \in Int
      <4> DEFINE g == fetcher'[i]
      <4>1. FetcherOk(i, g)
        BY <1>1 DEF IInv, FetchersOk
      <4>2. i \in Int /\ front' \in Int
        BY <1>1, ConstantFacts DEF IInv, ControlOk, Ids
      <4> HIDE DEF g
      <4>3. g.mReadOff \in Nat /\ g.mNused \in Nat /\ g.mReadOff <= g.mBytesDone
        BY <4>1 DEF FetcherOk, BufferOk, FetcherType
      <4> QED
        BY <4>2, <4>3 DEF g
    <3>2. CASE i < front'
      BY <1>1, <3>1, <3>2 DEF IInv, ListsOk, Avail
    <3>3. CASE i > front'
      BY <1>1, <3>1, <3>3 DEF IInv, ListsOk
    <3> QED
      BY <2>1, <3>1, <3>2, <3>3
  <2>2. CASE i = front'
    <3>1. \/ GetNothing
          \/ \E j \in Ids : Answer(j) \/ Finish(j)
          \/ \E j \in Ids, n \in 1 .. CurlMaxWrite : Arrive(j, n)
          \/ UNCHANGED vars
      BY <1>1 DEF Next, CallRead, Launch, LaunchFails, Launched, Return, Get, GetData,
         GetUnpauses, GetEof, RestartFails, Network, Performed, PerformFails, Results,
         HandleMessage, ResultsDone, Close, Closed, vars
    <3>2. CASE GetNothing
      <4> DEFINE f == fetcher[i]
      <4>1. i = front /\ FetcherOk(i, f) /\ LocalInv(i, f, xfer[i]) /\ Avail(f) = 0 /\ pc = "get"
        BY <1>1, <2>2, <3>2, GetFacts DEF GetNothing, NeedMore
      <4>2. CASE f.mState = "FAILED"
        <5>1. Short(f) /\ ~ f.mPaused
          BY <1>1, <4>1, <4>2, IdleHasNoTransfer DEF LocalInv, StateOk
        <5>2. Avail(Started(f)) = 0
          BY <4>1, <5>1, StartedOk
        <5>3. fetcher'[i] = Started(f)
          BY <1>1, <3>2, <4>1, <4>2 DEF GetNothing, IInv, FetchersOk
        <5> QED
          BY <1>1, <5>2, <5>3 DEF IInv, FetchersOk, FetcherType, Avail
      <4>3. CASE f.mState # "FAILED"
        BY <1>1, <3>2, <4>1, <4>3 DEF GetNothing, IInv, FetchersOk, FetcherType, Avail
      <4> QED
        BY <4>2, <4>3
    <3>3. CASE (\E j \in Ids : Answer(j) \/ Finish(j)) \/ UNCHANGED vars
      BY <1>1, <3>3 DEF Answer, Finish, vars, NothingToShift
    <3>4. ASSUME NEW j \in Ids, NEW n \in 1 .. CurlMaxWrite, Arrive(j, n)
          PROVE  fetcher'[i].mReadOff \in {0, fetcher'[i].mNused}
      <4> DEFINE c == Contents(xfer[j], n)
      <4>1. /\ fetcher' = [fetcher EXCEPT ![j] = WriterCallback(fetcher[j], c)]
            /\ pc = "perform" /\ fetcher \in [Ids -> FetcherType]
        BY <1>1, <3>4 DEF Arrive, Callback, IInv, FetchersOk
      <4>2. fetcher[j].mReadOff \in {0, fetcher[j].mNused} /\ fetcher[j] \in FetcherType
        BY <1>1, <4>1 DEF NothingToShift
      <4> HIDE DEF c
      <4>3. CASE j = i
        BY <4>1, <4>2, <4>3, CallbackLeavesUnread
      <4>4. CASE j # i
        BY <1>1, <4>1, <4>4 DEF NothingToShift
      <4> QED
        BY <4>3, <4>4
    <3> QED
      BY <3>1, <3>2, <3>3, <3>4
  <2> QED
    BY <2>1, <2>2
<1>2. Init => NothingToShift
  BY DEF Init, NothingToShift
<1> QED
  BY <1>1, <1>2, Safety, PTL DEF Spec

=============================================================================
