--------------------------- MODULE QingStorReader ---------------------------
(***************************************************************************)
(* Opening an object for reading: qingstorGetObject checks and completes   *)
(* the range its caller asked for, and QingStorReader::setupPipeline cuts  *)
(* that range into the transfers (HTTPFetchers) it puts on the pending     *)
(* list of the DownloadPipeline.                                           *)
(*                                                                         *)
(* The modules HTTPFetcher and DownloadPipeline say what is done with the  *)
(* transfers; here a transfer is the arguments of its constructor.         *)
(***************************************************************************)
EXTENDS Integers, Sequences, ChunkPlan

CONSTANTS
  Sizes,          \* sizes an object may have (content_length of its HEAD)
  RangeArgs,      \* values of the arguments range_start and range_end
  ChunkSizes,     \* values of Configuration::mChunkSize
  Connections,    \* values of Configuration::mNConnections
  IntMax,         \* largest value of a C int (HTTPFetcher::mLen is an int)
  MaxChunkBuffer, \* the 128 MB above which a chunk's buffer does not grow
  CurlMaxWrite    \* CURL_MAX_WRITE_SIZE, the smallest buffer of a fetcher

ASSUME ReaderAssumption ==
  /\ Sizes \subseteq Nat
  /\ RangeArgs \subseteq Int
  /\ ChunkSizes \subseteq Nat \ {0}
  /\ Connections \subseteq Nat \ {0}
  /\ IntMax \in Nat \ {0}
  /\ MaxChunkBuffer \in Nat \ {0}
  /\ CurlMaxWrite \in Nat \ {0}

VARIABLES
  pc,         \* "idle", "head", "plan", "ready", "einval" or "failed"
  config,     \* the two fields of the Configuration the reader looks at
  object,     \* ObjectInfo: its size and the range to read
  chunkSize,  \* setupPipeline's locals
  buffSize,
  offset,
  pending     \* mPendingFetchers of the new DownloadPipeline

vars == <<pc, config, object, chunkSize, buffSize, offset, pending>>

-----------------------------------------------------------------------------

(* The value a C int holds after an int64_t has been assigned to it.       *)
ToInt(v) ==
  IF -IntMax - 1 <= v /\ v <= IntMax
  THEN v
  ELSE ((v + IntMax + 1) % (2 * (IntMax + 1))) - (IntMax + 1)

(* The constructor of an HTTPFetcher, whose parameter len is an int.       *)
Fetcher(buff, off, len) ==
  [mConfBuffSize |-> buff, mOffset |-> off, mLen |-> ToInt(len)]

(* What HTTPFetcher::start will allocate for the transfer.                 *)
BufferOf(f) ==
  IF CurlMaxWrite > f.mConfBuffSize THEN CurlMaxWrite ELSE f.mConfBuffSize

Init ==
  /\ pc = "idle"
  /\ config \in [mNConnections : Connections, mChunkSize : ChunkSizes]
  /\ object = [size |-> 0, start |-> 0, end |-> -1]
  /\ chunkSize = 0
  /\ buffSize = 0
  /\ offset = 0
  /\ pending = <<>>

(* PARAMETER_ASSERT(range_end >= range_start) of qingstorGetObject.        *)
RejectRange(first, last) ==
  /\ pc = "idle"
  /\ last < first
  /\ pc' = "einval"
  /\ UNCHANGED <<config, object, chunkSize, buffSize, offset, pending>>

(* qingstorGetObject: the HEAD request throws, and there is no handle.     *)
HeadFails(first, last) ==
  /\ pc = "idle"
  /\ last >= first
  /\ pc' = "failed"
  /\ UNCHANGED <<config, object, chunkSize, buffSize, offset, pending>>

(* Seeded fault: the caller's negative range_start is kept.                *)
GetObjectNegativeStart(size, first, last) ==
  /\ pc = "idle"
  /\ last >= first
  /\ object' = [size  |-> size,
                start |-> first,
                end   |-> IF last < 0 THEN size - 1 ELSE last]
  /\ pc' = "head"
  /\ UNCHANGED <<config, chunkSize, buffSize, offset, pending>>

(* qingstorGetObject: the HEAD request tells the size, and a negative end  *)
(* of the range stands for the object's own.  Nothing compares an explicit *)
(* range_end with the size.                                                *)
GetObject(size, first, last) ==
  /\ pc = "idle"
  /\ last >= first
  /\ object' = [size  |-> size,
                start |-> IF first < 0 THEN 0 ELSE first,
                end   |-> IF last < 0 THEN size - 1 ELSE last]
  /\ pc' = "head"
  /\ UNCHANGED <<config, chunkSize, buffSize, offset, pending>>

(* setupPipeline up to its loop: one transfer for a single connection,     *)
(* chunks for several.                                                     *)
SetupPipeline ==
  /\ pc = "head"
  /\ IF config.mNConnections > 1
     THEN /\ chunkSize' = config.mChunkSize
          /\ buffSize' = IF config.mChunkSize > MaxChunkBuffer
                         THEN MaxChunkBuffer ELSE config.mChunkSize
     ELSE chunkSize' = -1 /\ buffSize' = -1
  /\ offset' = object.start
  /\ pc' = "plan"
  /\ UNCHANGED <<config, object, pending>>

(* Seeded faults: the last chunk is a byte too long; the last chunk is     *)
(* taken to begin one byte early.                                          *)
NextLenLong ==
  IF chunkSize = -1 \/ offset + chunkSize > object.end
  THEN object.end - offset + 2
  ELSE chunkSize
NextLenEarly ==
  IF chunkSize = -1 \/ offset + chunkSize >= object.end
  THEN object.end - offset + 1
  ELSE chunkSize

(* The length of the chunk that starts at the loop's offset.               *)
NextLen ==
  IF chunkSize = -1 \/ offset + chunkSize > object.end
  THEN object.end - offset + 1          \* last chunk
  ELSE chunkSize

(* The body of the do-while loop; more is the outcome of its closing test. *)
AddChunkOnce(more) ==
  /\ pc = "plan"
  /\ pending' = Append(pending, Fetcher(buffSize, offset, NextLen))
  /\ offset' = offset + NextLen
  /\ pc' = IF more THEN "plan" ELSE "ready"
  /\ UNCHANGED <<config, object, chunkSize, buffSize>>

(* Seeded fault: one more turn once the range is used up.                  *)
AddChunkTooMany == AddChunkOnce(offset + NextLen <= object.end + 1 /\ NextLen > 0)

(* One turn of the loop, its closing test included.                        *)
AddChunk == AddChunkOnce(offset + NextLen <= object.end)

(* The handle has been returned (or refused): nothing more happens here.   *)
Opened ==
  /\ pc \in {"ready", "einval", "failed"}
  /\ UNCHANGED vars

Next ==
  \/ \E first, last \in RangeArgs :
       \/ RejectRange(first, last) \/ HeadFails(first, last)
       \/ \E size \in Sizes : GetObject(size, first, last)
  \/ SetupPipeline
  \/ AddChunk
  \/ Opened

Spec == Init /\ [][Next]_vars

-----------------------------------------------------------------------------

(* Types, and what the planner's locals stand for in each phase.           *)
FetcherType == [mConfBuffSize : Int, mOffset : Nat, mLen : Int]

TypeOK ==
  /\ pc \in {"idle", "head", "plan", "ready", "einval", "failed"}
  /\ config \in [mNConnections : Connections, mChunkSize : ChunkSizes]
  /\ object \in [size : Nat, start : Nat, end : Int]
  /\ chunkSize \in Int
  /\ buffSize \in Int
  /\ offset \in Nat
  /\ pending \in Seq(FetcherType)

(* The lengths of the transfers fit into the int that a fetcher keeps them *)
(* in.  With several connections, as the code always has them, these are   *)
(* the lengths of chunks: how large the object is does not matter.         *)
LengthsFit ==
  IF config.mNConnections > 1
  THEN config.mChunkSize <= IntMax
  ELSE object.end - object.start + 1 <= IntMax

(* The transfers follow one another without a gap or an overlap from the   *)
(* start of the range to the loop's offset.                                *)
ChunksAdjacent ==
  /\ \A i \in 1 .. Len(pending) :
       pending[i].mOffset = IF i = 1 THEN object.start
                            ELSE pending[i - 1].mOffset + pending[i - 1].mLen
  /\ pc \in {"plan", "ready"} =>
       offset = IF pending = <<>> THEN object.start
                ELSE pending[Len(pending)].mOffset + pending[Len(pending)].mLen

(* Once the object is open, what its transfers ask for is exactly the      *)
(* range: each byte in [start, end] once, in order, and no byte outside    *)
(* it, as "Divide the file into chunks of requested size" says.  Negative  *)
(* bounds, the empty object, whose range is [0, -1], and objects longer    *)
(* than the largest int included.                                          *)
ChunksTileRange ==
  LengthsFit =>
    /\ ChunksAdjacent
    /\ pc = "ready" => offset = object.end + 1

(* Every turn of the loop gets ahead, so that the loop ends: an empty      *)
(* transfer would leave the offset where it was (and be asked for with the *)
(* header "bytes=n-(n-1)").  Only an empty range has one.  And, as the     *)
(* comment "use a buffer that's large enough to hold whole chunk" says, a  *)
(* prefetching transfer never has to pause for want of space, unless its   *)
(* chunk is above the 128 MB limit.                                        *)
ChunksFit ==
  LengthsFit =>
    /\ object.start <= object.end => \A i \in 1 .. Len(pending) : pending[i].mLen > 0
    /\ config.mNConnections > 1 /\ config.mChunkSize <= MaxChunkBuffer =>
         \A i \in 1 .. Len(pending) : pending[i].mLen <= BufferOf(pending[i])

(* The loop computes the closed form of the plan.                          *)
PlanIsClosedForm ==
  pc = "ready" /\ LengthsFit =>
    LET n == object.end - object.start + 1
        c == IF config.mNConnections > 1 THEN config.mChunkSize
             ELSE IF n = 0 THEN 1 ELSE n
    IN  /\ Len(pending) = NumChunks(n, c)
        /\ \A i \in 1 .. Len(pending) :
             /\ pending[i].mOffset = ChunkStart(object.start, c, i)
             /\ pending[i].mLen = ChunkLen(object.start, object.end, c, i)

=============================================================================
