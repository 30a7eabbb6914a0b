----------------------- MODULE QingStorReader_proofs -----------------------
(***************************************************************************)
(* The plan of a download, for objects, ranges and chunks of any size: the *)
(* transfers tile the range, as long as their lengths fit into the C int   *)
(* that a fetcher keeps them in (LengthsFit).                              *)
(***************************************************************************)
EXTENDS QingStorReader, TLAPS

LEMMA ToIntFits ==
  ASSUME NEW v \in Nat
  PROVE  ToInt(v) \in Int /\ (v <= IntMax => ToInt(v) = v)
  BY ReaderAssumption DEF ToInt

-----------------------------------------------------------------------------

(* Nothing is planned before there is a range.                             *)
RangeOk ==
  /\ pc \in {"idle", "head", "einval", "failed"} => pending = <<>>
  /\ pc \in {"head", "plan", "ready"} => object.start <= object.end + 1

(* The locals of setupPipeline in its loop; after its first turn the loop  *)
(* only goes on while bytes are left.                                      *)
LoopOk ==
  /\ pc \in {"plan", "ready"} =>
       IF config.mNConnections > 1
       THEN /\ chunkSize = config.mChunkSize
            /\ buffSize = IF config.mChunkSize > MaxChunkBuffer
                          THEN MaxChunkBuffer ELSE config.mChunkSize
       ELSE chunkSize = -1
  /\ pc = "plan" =>
       /\ object.start <= offset /\ offset <= object.end + 1
       /\ IF pending = <<>> THEN offset = object.start ELSE offset <= object.end

(* What is known of each transfer planned so far.                          *)
TransferOk(f) ==
  /\ object.start <= object.end => f.mLen > 0
  /\ config.mNConnections > 1 =>
       /\ f.mLen <= config.mChunkSize
       /\ f.mConfBuffSize = IF config.mChunkSize > MaxChunkBuffer
                            THEN MaxChunkBuffer ELSE config.mChunkSize

TransfersOk == LengthsFit => \A i \in 1 .. Len(pending) : TransferOk(pending[i])

IInv == TypeOK /\ RangeOk /\ LoopOk /\ TransfersOk /\ ChunksTileRange

LEMMA InitIInv == Init => IInv
  BY ReaderAssumption
  DEF Init, IInv, TypeOK, RangeOk, LoopOk, TransfersOk, ChunksTileRange, ChunksAdjacent

(* qingstorGetObject: a negative end comes with a negative start only.     *)
LEMMA GetObjectStep ==
  ASSUME IInv,
         NEW first \in RangeArgs, NEW last \in RangeArgs, NEW size \in Sizes,
         GetObject(size, first, last)
  PROVE  IInv'
<1>1. first \in Int /\ last \in Int /\ size \in Nat /\ first <= last
  BY ReaderAssumption DEF GetObject
<1>2. /\ object' = [size |-> size, start |-> IF first < 0 THEN 0 ELSE first,
                    end |-> IF last < 0 THEN size - 1 ELSE last]
      /\ pending = <<>> /\ pc' = "head"
      /\ UNCHANGED <<config, chunkSize, buffSize, offset, pending>>
  BY DEF IInv, RangeOk, GetObject
<1>3. TypeOK'
  BY <1>1, <1>2 DEF IInv, TypeOK
<1>4. RangeOk'
  BY <1>1, <1>2 DEF RangeOk
<1>5. LoopOk' /\ TransfersOk' /\ ChunksTileRange'
  BY <1>2 DEF LoopOk, TransfersOk, ChunksTileRange, ChunksAdjacent
<1> QED
  BY <1>3, <1>4, <1>5 DEF IInv

LEMMA SetupStep ==
  ASSUME IInv, SetupPipeline
  PROVE  IInv'
<1>1. /\ config.mNConnections \in Nat /\ config.mChunkSize \in Nat \ {0}
      /\ MaxChunkBuffer \in Nat
  BY ReaderAssumption DEF IInv, TypeOK
<1>2. /\ pc' = "plan" /\ pending' = <<>> /\ offset' = object.start
      /\ UNCHANGED <<config, object>>
      /\ object.start \in Nat /\ object.end \in Int
      /\ object.start <= object.end + 1
  BY DEF IInv, TypeOK, RangeOk, SetupPipeline
<1>3. TypeOK'
  BY <1>1, <1>2 DEF IInv, TypeOK, SetupPipeline
<1>4. RangeOk' /\ TransfersOk' /\ ChunksTileRange'
  BY <1>2 DEF RangeOk, TransfersOk, ChunksTileRange, ChunksAdjacent
<1>5. LoopOk'
  BY <1>1, <1>2 DEF LoopOk, SetupPipeline
<1> QED
  BY <1>3, <1>4, <1>5 DEF IInv

(* The length of the next chunk: it stays inside the range, and it is only *)
(* empty when the range is.                                                *)
LEMMA NextLenFacts ==
  ASSUME IInv, pc = "plan"
  PROVE  /\ NextLen \in Nat
         /\ LengthsFit => NextLen <= IntMax
         /\ offset + NextLen <= object.end + 1
         /\ object.start <= object.end => NextLen > 0
         /\ config.mNConnections > 1 => NextLen <= config.mChunkSize
         /\ offset + NextLen > object.end => offset + NextLen = object.end + 1
<1>1. /\ offset \in Nat /\ object.start \in Nat /\ object.end \in Int
      /\ config.mNConnections \in Nat /\ config.mChunkSize \in Nat \ {0}
      /\ IntMax \in Nat /\ chunkSize \in Int
  BY ReaderAssumption DEF IInv, TypeOK
<1>2. /\ object.start <= offset /\ offset <= object.end + 1
      /\ object.start <= object.end => offset <= object.end
  BY <1>1 DEF IInv, LoopOk
<1>3. CASE config.mNConnections > 1
  <2>1. chunkSize = config.mChunkSize
    BY <1>3 DEF IInv, LoopOk
  <2> QED
    BY <1>1, <1>2, <1>3, <2>1 DEF NextLen, LengthsFit
<1>4. CASE ~ (config.mNConnections > 1)
  <2>1. chunkSize = -1
    BY <1>4 DEF IInv, LoopOk
  <2> QED
    BY <1>1, <1>2, <1>4, <2>1 DEF NextLen, LengthsFit
<1> QED
  BY <1>3, <1>4

(* A turn of the loop.                                                     *)
LEMMA AddChunkStep ==
  ASSUME IInv, AddChunk
  PROVE  IInv'
<1> DEFINE new == Fetcher(buffSize, offset, NextLen)
           n == Len(pending)
<1>1. /\ pc = "plan"
      /\ pending' = Append(pending, new)
      /\ offset' = offset + NextLen
      /\ pc' = IF offset + NextLen <= object.end THEN "plan" ELSE "ready"
      /\ UNCHANGED <<config, object, chunkSize, buffSize>>
  BY DEF AddChunk, AddChunkOnce
<1>2. /\ NextLen \in Nat
      /\ LengthsFit => NextLen <= IntMax
      /\ offset + NextLen <= object.end + 1
      /\ object.start <= object.end => NextLen > 0
      /\ config.mNConnections > 1 => NextLen <= config.mChunkSize
      /\ offset + NextLen > object.end => offset + NextLen = object.end + 1
  BY <1>1, NextLenFacts
<1>3. /\ new = [mConfBuffSize |-> buffSize, mOffset |-> offset, mLen |-> ToInt(NextLen)]
      /\ ToInt(NextLen) \in Int /\ (LengthsFit => ToInt(NextLen) = NextLen)
      /\ LengthsFit' = LengthsFit
  BY <1>1, <1>2, ToIntFits DEF Fetcher, LengthsFit
<1>4. /\ offset \in Nat /\ NextLen \in Nat /\ buffSize \in Int
      /\ object.start \in Nat /\ object.end \in Int
  BY <1>2 DEF IInv, TypeOK
<1>5. new \in FetcherType
  BY <1>3, <1>4 DEF FetcherType
<1>6. /\ pending \in Seq(FetcherType) /\ n \in Nat
      /\ Len(pending') = n + 1 /\ pending' # <<>>
      /\ pending'[n + 1] = new
      /\ \A i \in 1 .. n : pending'[i] = pending[i]
  <2>1. pending \in Seq(FetcherType)
    BY DEF IInv, TypeOK
  <2> HIDE DEF new
  <2> QED
    BY <1>1, <1>5, <2>1
<1> HIDE DEF new, n
<1>7. TypeOK'
  BY <1>1, <1>4, <1>5 DEF IInv, TypeOK
<1>8. RangeOk'
  BY <1>1 DEF IInv, RangeOk
<1>9. LoopOk'
  <2>1. object.start <= offset
    BY <1>1 DEF IInv, LoopOk
  <2> QED
    BY <1>1, <1>2, <1>4, <2>1 DEF IInv, LoopOk
<1>10. TransfersOk'
  <2> SUFFICES ASSUME LengthsFit PROVE \A i \in 1 .. Len(pending') : TransferOk(pending'[i])
    BY <1>1, <1>3 DEF TransfersOk, TransferOk
  <2>1. ASSUME NEW i \in 1 .. Len(pending') PROVE TransferOk(pending'[i])
    <3>1. CASE i \in 1 .. n
      BY <3>1, <1>1, <1>6 DEF IInv, TransfersOk, TransferOk, n
    <3>2. CASE i = n + 1
      BY <3>2, <1>1, <1>2, <1>3, <1>6 DEF IInv, LoopOk, TransferOk
    <3> QED
      BY <1>6, <3>1, <3>2
  <2> QED
    BY <2>1
<1>11. LengthsFit => ChunksAdjacent'
  <2> SUFFICES ASSUME LengthsFit PROVE ChunksAdjacent'
    OBVIOUS
  <2>1. ASSUME NEW i \in 1 .. Len(pending')
        PROVE  pending'[i].mOffset =
                 IF i = 1 THEN object'.start
                 ELSE pending'[i - 1].mOffset + pending'[i - 1].mLen
    <3>1. CASE i \in 1 .. n
      BY <3>1, <1>1, <1>6 DEF IInv, ChunksTileRange, ChunksAdjacent, n
    <3>2. CASE i = n + 1 /\ n = 0
      BY <3>2, <1>1, <1>3, <1>6 DEF IInv, ChunksTileRange, ChunksAdjacent, n
    <3>3. CASE i = n + 1 /\ n > 0
      <4>1. offset = pending[n].mOffset + pending[n].mLen
        BY <3>3, <1>1 DEF IInv, ChunksTileRange, ChunksAdjacent, n
      <4> QED
        BY <3>3, <4>1, <1>3, <1>6
    <3> QED
      BY <1>6, <3>1, <3>2, <3>3
  <2>2. offset' = pending'[n + 1].mOffset + pending'[n + 1].mLen
    BY <1>1, <1>3, <1>6
  <2> QED
    BY <2>1, <2>2, <1>6 DEF ChunksAdjacent
<1>12. ChunksTileRange'
  BY <1>1, <1>2, <1>3, <1>4, <1>11 DEF ChunksTileRange
<1> QED
  BY <1>7, <1>8, <1>9, <1>10, <1>12 DEF IInv

LEMMA NextIInv == IInv /\ [Next]_vars => IInv'
<1> SUFFICES ASSUME IInv, [Next]_vars PROVE IInv'
  OBVIOUS
<1> USE DEF IInv
<1>1. ASSUME NEW first \in RangeArgs, NEW last \in RangeArgs,
             RejectRange(first, last) \/ HeadFails(first, last)
      PROVE  IInv'
  BY <1>1 DEF RejectRange, HeadFails, TypeOK, RangeOk, LoopOk, TransfersOk, TransferOk,
              ChunksTileRange, ChunksAdjacent, LengthsFit
<1>2. CASE SetupPipeline
  BY <1>2, SetupStep
<1>3. CASE AddChunk
  BY <1>3, AddChunkStep
<1>4. CASE UNCHANGED vars
  BY <1>4 DEF vars, TypeOK, RangeOk, LoopOk, TransfersOk, TransferOk,
              ChunksTileRange, ChunksAdjacent, LengthsFit
<1> QED
  BY <1>1, <1>2, <1>3, <1>4, GetObjectStep DEF Next, Opened

LEMMA Safety == Spec => []IInv
  BY InitIInv, NextIInv, PTL DEF Spec

-----------------------------------------------------------------------------

(* What setupPipeline puts on the pending list is the range that           *)
(* qingstorGetObject was asked for, cut into adjacent transfers: no byte   *)
(* is left out, asked for twice, or outside the range.  The object and the *)
(* range may have any size; with several connections the chunk size must   *)
(* fit an int, with one the length of the range.                           *)
THEOREM PlanTilesRange == Spec => []ChunksTileRange
<1>1. IInv => ChunksTileRange
  BY DEF IInv
<1> QED
  BY <1>1, Safety, PTL

(* The planner's locals and the fetchers' arguments keep their types.      *)
THEOREM PlanTypeOK == Spec => []TypeOK
<1>1. IInv => TypeOK
  BY DEF IInv
<1> QED
  BY <1>1, Safety, PTL

(* The chunk loop makes progress with each turn, and a prefetched chunk    *)
(* fits the buffer its fetcher will allocate.                              *)
THEOREM PlanChunksFit == Spec => []ChunksFit
<1>1. ASSUME IInv, LengthsFit, object.start <= object.end, NEW i \in 1 .. Len(pending)
      PROVE  pending[i].mLen > 0
  BY <1>1 DEF IInv, TransfersOk, TransferOk
<1>2. ASSUME IInv, LengthsFit, config.mNConnections > 1, config.mChunkSize <= MaxChunkBuffer,
             NEW i \in 1 .. Len(pending)
      PROVE  pending[i].mLen <= BufferOf(pending[i])
  <2>1. pending[i] \in FetcherType /\ TransferOk(pending[i])
    BY <1>2 DEF IInv, TypeOK, TransfersOk
  <2>2. config.mChunkSize \in Nat /\ MaxChunkBuffer \in Nat /\ CurlMaxWrite \in Nat
    BY <1>2, ReaderAssumption DEF IInv, TypeOK
  <2> QED
    BY <1>2, <2>1, <2>2 DEF TransferOk, FetcherType, BufferOf
<1>3. IInv => ChunksFit
  BY <1>1, <1>2 DEF ChunksFit
<1> QED
  BY <1>3, Safety, PTL

-----------------------------------------------------------------------------
(* The closed form of the plan *)

LEMMA TimesMonotonic ==
  ASSUME NEW c \in Nat, NEW x \in Int, NEW y \in Int, x <= y
  PROVE  c * x <= c * y
<1> DEFINE d == y - x
<1>1. d \in Nat /\ y = x + d
  OBVIOUS
<1> HIDE DEF d
<1>2. c * d \in Nat
  BY <1>1
<1>3. c * y = c * x + c * d
  BY <1>1
<1> QED
  BY <1>2, <1>3

(* What makes q the quotient of a by c.                                    *)
LEMMA QuotientIs ==
  ASSUME NEW a \in Int, NEW c \in Nat \ {0}, NEW q \in Int, c * q <= a, a < c * (q + 1)
  PROVE  a \div c = q
<1> DEFINE p == a \div c
<1>1. p \in Int /\ c * p <= a /\ a < c * (p + 1)
  OBVIOUS
<1> HIDE DEF p
<1>2. ~ (p + 1 <= q)
  <2>1. p + 1 <= q => c * (p + 1) <= c * q
    BY <1>1, TimesMonotonic
  <2>2. c * (p + 1) \in Int /\ c * q \in Int
    BY <1>1
  <2> QED
    BY <1>1, <2>1, <2>2
<1>3. ~ (q + 1 <= p)
  <2>1. q + 1 <= p => c * (q + 1) <= c * p
    BY <1>1, TimesMonotonic
  <2>2. c * (q + 1) \in Int /\ c * p \in Int
    BY <1>1
  <2> QED
    BY <1>1, <2>1, <2>2
<1>4. p = q
  BY <1>1, <1>2, <1>3
<1> QED
  BY <1>4 DEF p

(* The length of the range, and that of the chunks of its plan.            *)
RangeLen == object.end - object.start + 1
PlanChunk == IF config.mNConnections > 1 THEN config.mChunkSize
             ELSE IF RangeLen = 0 THEN 1 ELSE RangeLen

(* Each transfer is the one the closed form has in its place, the loop's   *)
(* offset is where the next one starts, and at the end none is missing.    *)
Closed ==
  /\ pc \in {"plan", "ready"} /\ LengthsFit =>
       \A i \in 1 .. Len(pending) :
         /\ pending[i].mOffset = ChunkStart(object.start, PlanChunk, i)
         /\ pending[i].mLen = ChunkLen(object.start, object.end, PlanChunk, i)
  /\ pc = "plan" => offset = ChunkStart(object.start, PlanChunk, Len(pending) + 1)
  /\ pc = "ready" => Len(pending) = NumChunks(RangeLen, PlanChunk)

(* With one connection, too, the loop takes the length of the closed form. *)
LEMMA NextLenClosed ==
  ASSUME IInv, pc = "plan"
  PROVE  /\ PlanChunk \in Nat \ {0}
         /\ NextLen = IF offset + PlanChunk > object.end THEN object.end - offset + 1
                      ELSE PlanChunk
<1>1. /\ offset \in Nat /\ object.start \in Nat /\ object.end \in Int
      /\ config.mNConnections \in Nat /\ config.mChunkSize \in Nat \ {0}
  BY ReaderAssumption DEF IInv, TypeOK
<1>2. object.start <= offset /\ object.start <= object.end + 1
  BY DEF IInv, RangeOk, LoopOk
<1>3. CASE config.mNConnections > 1
  <2>1. chunkSize = config.mChunkSize /\ PlanChunk = config.mChunkSize
    BY <1>3 DEF IInv, LoopOk, PlanChunk
  <2> QED
    BY <1>1, <2>1 DEF NextLen
<1>4. CASE ~ (config.mNConnections > 1)
  <2>1. chunkSize = -1 /\ PlanChunk = IF RangeLen = 0 THEN 1 ELSE RangeLen
    BY <1>4 DEF IInv, LoopOk, PlanChunk
  <2>2. PlanChunk \in Nat \ {0} /\ offset + PlanChunk > object.end
    BY <1>1, <1>2, <2>1 DEF RangeLen
  <2> QED
    BY <2>1, <2>2 DEF NextLen
<1> QED
  BY <1>3, <1>4

LEMMA AddChunkClosed ==
  ASSUME IInv, Closed, AddChunk
  PROVE  Closed'
<1> DEFINE n == Len(pending)
           c == PlanChunk
           start == object.start
           last == object.end
           new == Fetcher(buffSize, offset, NextLen)
<1>1. /\ pc = "plan"
      /\ pending' = Append(pending, new)
      /\ offset' = offset + NextLen
      /\ pc' = IF offset + NextLen <= last THEN "plan" ELSE "ready"
      /\ UNCHANGED <<config, object>>
  BY DEF AddChunk, AddChunkOnce
<1>2. /\ NextLen \in Nat
      /\ LengthsFit => NextLen <= IntMax
      /\ offset + NextLen > last => offset + NextLen = last + 1
  BY <1>1, NextLenFacts
<1>3. new.mOffset = offset /\ (LengthsFit => new.mLen = NextLen)
  BY <1>2, ToIntFits DEF Fetcher
<1>4. /\ offset \in Nat /\ start \in Nat /\ last \in Int /\ NextLen \in Nat
      /\ pending \in Seq(FetcherType) /\ n \in Nat
  BY <1>2 DEF IInv, TypeOK
<1>5. c \in Nat \ {0} /\ NextLen = IF offset + c > last THEN last - offset + 1 ELSE c
  BY <1>1, NextLenClosed
<1>6. offset = start + n * c
  BY <1>1, <1>4, <1>5 DEF Closed, ChunkStart
<1>7. c' = c /\ start' = start /\ last' = last /\ RangeLen' = RangeLen
      /\ LengthsFit' = LengthsFit
  BY <1>1 DEF PlanChunk, RangeLen, LengthsFit
<1>8. /\ Len(pending') = n + 1 /\ pending'[n + 1] = new
      /\ \A i \in 1 .. n : pending'[i] = pending[i]
  <2> HIDE DEF new
  <2> QED
    BY <1>1, <1>4
<1>9. /\ offset = ChunkStart(start, c, n + 1)
      /\ NextLen = ChunkLen(start, last, c, n + 1)
  BY <1>4, <1>5, <1>6 DEF ChunkStart, ChunkLen
<1>10. ASSUME LengthsFit, NEW i \in 1 .. Len(pending')
       PROVE  /\ pending'[i].mOffset = ChunkStart(start, c, i)
              /\ pending'[i].mLen = ChunkLen(start, last, c, i)
  <2>1. CASE i \in 1 .. n
    BY <1>1, <1>8, <1>10, <2>1 DEF Closed
  <2>2. CASE i = n + 1
    BY <1>3, <1>8, <1>9, <1>10, <2>2
  <2> QED
    BY <1>4, <1>8, <2>1, <2>2
<1>11. pc' = "plan" => offset' = ChunkStart(start, c, Len(pending') + 1)
  <2> SUFFICES ASSUME pc' = "plan"
               PROVE  offset' = ChunkStart(start, c, Len(pending') + 1)
    OBVIOUS
  <2>1. NextLen = c
    BY <1>1, <1>4, <1>5
  <2>2. (n + 1) * c = n * c + c
    BY <1>4, <1>5
  <2>3. offset' = start + (n + 1) * c
    BY <1>1, <1>4, <1>5, <1>6, <2>1, <2>2
  <2>4. (n + 1) + 1 - 1 = n + 1
    BY <1>4
  <2> QED
    BY <1>8, <2>3, <2>4 DEF ChunkStart
<1>12. pc' = "ready" => Len(pending') = NumChunks(RangeLen, c)
  <2> SUFFICES ASSUME pc' = "ready"
               PROVE  n + 1 = NumChunks(RangeLen, c)
    BY <1>8
  <2> DEFINE len == RangeLen
  <2>1. len = last - start + 1 /\ len \in Nat
    BY <1>1, <1>4 DEF IInv, RangeOk, RangeLen
  <2>2. n * c \in Nat /\ c * n = n * c /\ c * (n + 1) = n * c + c
        /\ c * ((n + 1) + 1) = n * c + c + c
    BY <1>4, <1>5
  <2>3. offset + NextLen > last /\ offset + c > last
    BY <1>1, <1>4, <1>5
  <2>4. CASE len = 0
    <3>1. n = 0
      <4>1. n # 0 => offset <= last
        BY <1>1, <1>4 DEF IInv, LoopOk
      <4> QED
        BY <1>4, <1>6, <2>1, <2>2, <2>4, <4>1
    <3> QED
      BY <2>4, <3>1 DEF NumChunks
  <2>5. CASE len # 0
    <3>1. offset <= last
      <4>1. n = 0 => n * c = 0
        BY <1>5
      <4>2. n # 0 => offset <= last
        BY <1>1, <1>4 DEF IInv, LoopOk
      <4> QED
        BY <1>4, <1>6, <2>1, <2>5, <4>1, <4>2
    <3>2. c * (n + 1) <= len + c - 1 /\ len + c - 1 < c * ((n + 1) + 1)
      <4> DEFINE before == n * c
                 low == c * (n + 1)
                 high == c * ((n + 1) + 1)
      <4>1. before \in Nat /\ offset = start + before
        BY <1>6, <2>2
      <4>2. low = before + c /\ high = before + c + c
        BY <2>2
      <4>3. c \in Nat /\ start \in Nat /\ last \in Int
        BY <1>4, <1>5
      <4> HIDE DEF before, low, high, n, c, len, start, last
      <4>4. low <= len + c - 1 /\ len + c - 1 < high
        BY <2>1, <2>3, <3>1, <4>1, <4>2, <4>3
      <4> QED
        BY <4>4 DEF low, high
    <3>3. (len + c - 1) \div c = n + 1
      <4>1. len + c - 1 \in Int /\ n + 1 \in Int
        BY <1>4, <1>5, <2>1
      <4> HIDE DEF c, n, len
      <4> QED
        BY <1>5, <3>2, <4>1, QuotientIs
    <3> QED
      BY <2>5, <3>3 DEF NumChunks
  <2> QED
    BY <2>4, <2>5
<1> HIDE DEF c, start, last, n, new
<1> QED
  BY <1>1, <1>7, <1>10, <1>11, <1>12 DEF Closed, c, start, last

(* The do-while loop of setupPipeline computes the plan that ChunkPlan     *)
(* writes down, transfer by transfer: with it the instances of the         *)
(* DownloadPipeline start from lists that the reader can really make.      *)
THEOREM PlanClosedForm == Spec => []PlanIsClosedForm
<1>1. Init => Closed
  BY DEF Init, Closed
<1>2. IInv /\ IInv' /\ Closed /\ [Next]_vars => Closed'
  <2> SUFFICES ASSUME IInv, Closed, [Next]_vars PROVE Closed'
    OBVIOUS
  <2>1. CASE AddChunk
    BY <2>1, AddChunkClosed
  <2>2. CASE SetupPipeline
    <3>1. /\ pc' = "plan" /\ pending' = <<>> /\ offset' = object.start
          /\ UNCHANGED <<config, object>> /\ object.start \in Nat
      BY <2>2 DEF SetupPipeline, IInv, TypeOK, RangeOk
    <3>2. PlanChunk' = PlanChunk /\ PlanChunk \in Nat
      <4>1. PlanChunk' = PlanChunk
        BY <3>1 DEF PlanChunk, RangeLen
      <4>2. /\ config.mChunkSize \in Nat /\ object.end \in Int
            /\ object.start <= object.end + 1
        BY <2>2, ReaderAssumption DEF SetupPipeline, IInv, TypeOK, RangeOk
      <4>3. RangeLen \in Nat
        BY <3>1, <4>2 DEF RangeLen
      <4> QED
        BY <4>1, <4>2, <4>3 DEF PlanChunk
    <3>3. Len(pending') = 0 /\ 0 * PlanChunk = 0 /\ (0 + 1) - 1 = 0
      BY <3>1, <3>2
    <3>4. offset' = ChunkStart(object'.start, PlanChunk', Len(pending') + 1)
      BY <3>1, <3>2, <3>3 DEF ChunkStart
    <3> QED
      BY <3>1, <3>3, <3>4 DEF Closed
  <2>3. CASE \E first, last \in RangeArgs :
                \/ RejectRange(first, last) \/ HeadFails(first, last)
                \/ \E size \in Sizes : GetObject(size, first, last)
    BY <2>3 DEF RejectRange, HeadFails, GetObject, Closed
  <2>4. CASE UNCHANGED vars
    BY <2>4 DEF vars, Closed, PlanChunk, RangeLen, LengthsFit
  <2> QED
    BY <2>1, <2>2, <2>3, <2>4 DEF Next, Opened
<1>3. Closed => PlanIsClosedForm
  BY DEF Closed, PlanIsClosedForm, PlanChunk, RangeLen
<1> QED
  BY <1>1, <1>2, <1>3, Safety, PTL DEF Spec

=============================================================================
