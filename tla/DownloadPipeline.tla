-------------------------- MODULE DownloadPipeline --------------------------
(***************************************************************************)
(* The download side: a QingStorReader whose transfers have been planned,  *)
(* the DownloadPipeline it owns, the HTTPFetchers in the pipeline, and     *)
(* libcurl's multi handle with the server behind it.                       *)
(*                                                                         *)
(* Everything runs on the thread that calls qingstorRead.  Between two     *)
(* calls nothing happens: libcurl works, and calls WriterCallback, only    *)
(* inside curl_multi_perform and curl_easy_pause.  pc says where in        *)
(* DownloadPipeline::read the thread is:                                   *)
(*                                                                         *)
(*   "idle"     outside, in the program that uses the library              *)
(*   "loop"     at the head of the for(;;), launching transfers            *)
(*   "get"      about to ask the first active fetcher for bytes            *)
(*   "perform"  in curl_multi_wait and curl_multi_perform                  *)
(*   "results"  in the curl_multi_info_read loop                           *)
(*   "closed"   after qingstorCloseObject has deleted the reader           *)
(*                                                                         *)
(* mPendingFetchers and mActiveFetchers are lists that are only pushed at  *)
(* the back and popped at the front, and a fetcher moves from the first to *)
(* the second: with the transfers numbered as planned, the active ones are *)
(* always front .. next - 1 and the pending ones next .. NumFetchers.      *)
(***************************************************************************)
EXTENDS Integers, Sequences, HTTPFetcher, CurlMulti

CONSTANTS
  NumFetchers,     \* transfers planned by QingStorReader::setupPipeline
  Offset, Length,  \* their ranges: functions on 1 .. NumFetchers
  ConfBuffSize,    \* the buffer size they were planned with
  mNConnections,   \* the most transfers active at once
  ReadSizes,       \* lengths the caller passes to qingstorRead
  Faults,          \* kinds of failure that may happen
  MaxFaults,       \* at most so many of them (a bound of the model), or
  FaultsForever    \* TRUE: without end

ASSUME PipelineAssumption ==
  /\ NumFetchers \in Nat \ {0}
  /\ Offset \in [1 .. NumFetchers -> Nat]
  /\ Length \in [1 .. NumFetchers -> Nat]
  /\ \A i \in 1 .. NumFetchers - 1 : Offset[i + 1] = Offset[i] + Length[i]
  /\ \A i, j \in 1 .. NumFetchers : i < j => Offset[i] + Length[i] <= Offset[j]
  /\ \A i \in 1 .. NumFetchers : NumFetchers > 1 => Length[i] > 0
  /\ ConfBuffSize \in Int
  /\ mNConnections \in Nat \ {0}
  /\ ReadSizes \subseteq Nat \ {0}
  /\ Faults \subseteq {"net", "http", "nocode", "nomem", "nohandle", "multi"}
  /\ MaxFaults \in Nat
  /\ FaultsForever \in BOOLEAN

VARIABLES
  fetcher,    \* the HTTPFetchers
  xfer,       \* libcurl's transfer of each
  front,      \* first active fetcher
  next,       \* first pending fetcher
  pc,
  bufflen,    \* argument of the running read()
  result,     \* outcome of the last read(): "none", "data", "eof", "error",
              \* or "internal" for an error the code says cannot occur
  delivered,  \* the bytes all read()s have returned
  faults,     \* failures so far
  wild        \* cleanup() has passed an uninitialised mCurl to libcurl

vars == <<fetcher, xfer, front, next, pc, bufflen, result, delivered, faults, wild>>

Ids == 1 .. NumFetchers
Active == front .. next - 1
Pending == next .. NumFetchers

Init ==
  /\ fetcher = [i \in Ids |-> New(ConfBuffSize, Offset[i], Length[i])]
  /\ xfer = [i \in Ids |-> NoTransfer]
  /\ front = 1
  /\ next = 1
  /\ pc = "idle"
  /\ bufflen = 0
  /\ result = "none"
  /\ delivered = <<>>
  /\ faults = 0
  /\ wild = FALSE

(* A failure of the environment: one of the kinds allowed, while the       *)
(* budget lasts.                                                           *)
Fault(kind) ==
  /\ kind \in Faults
  /\ IF FaultsForever THEN UNCHANGED faults
     ELSE faults < MaxFaults /\ faults' = faults + 1

-----------------------------------------------------------------------------

(* qingstorRead: PARAMETER_ASSERT has refused a length of 0 or less.       *)
CallRead(n) ==
  /\ pc = "idle"
  /\ bufflen' = n
  /\ pc' = "loop"
  /\ UNCHANGED <<fetcher, xfer, front, next, result, delivered, faults, wild>>

(* read() leaves with a result, or by an exception.                        *)
Return(r) == pc' = "idle" /\ result' = r

(* The condition under which launch() starts one more transfer.            *)
LaunchMore == next - front < mNConnections /\ next <= NumFetchers

(* launch(), one turn of its loop: the fetcher is on the active list       *)
(* before start() is called.                                               *)
Launch ==
  /\ pc = "loop"
  /\ LaunchMore
  /\ next' = next + 1
  /\ IF Startable(fetcher[next])
     THEN /\ fetcher' = [fetcher EXCEPT ![next] = Started(@)]
          /\ xfer' = [xfer EXCEPT ![next] = Asked]
          /\ UNCHANGED <<pc, result>>
     ELSE Return("internal") /\ UNCHANGED <<fetcher, xfer>>
  /\ UNCHANGED <<front, bufflen, delivered, faults, wild>>

(* launch(), when start() throws: for want of memory, or of a curl handle. *)
LaunchFails ==
  /\ pc = "loop"
  /\ LaunchMore
  /\ next' = next + 1
  /\ \/ Fault("nomem") /\ fetcher' = [fetcher EXCEPT ![next] = StartNoMemory(@)]
     \/ Fault("nohandle") /\ fetcher' = [fetcher EXCEPT ![next] = WithBuffer(@)]
  /\ Return("error")
  /\ UNCHANGED <<xfer, front, bufflen, delivered, wild>>

(* launch() is done: nothing is active only if nothing is left.            *)
Launched ==
  /\ pc = "loop"
  /\ ~ LaunchMore
  /\ IF Active = {} THEN Return("eof")
     ELSE pc' = "get" /\ UNCHANGED result
  /\ UNCHANGED <<fetcher, xfer, front, next, bufflen, delivered, faults, wild>>

-----------------------------------------------------------------------------

(* get() returns bytes of the current fetcher, and read() returns them.    *)
GetData ==
  /\ pc = "get"
  /\ Avail(fetcher[front]) > 0
  /\ delivered' = delivered \o Taken(fetcher[front], bufflen)
  /\ fetcher' = [fetcher EXCEPT ![front] = Take(@, bufflen)]
  /\ Return("data")
  /\ UNCHANGED <<xfer, front, next, bufflen, faults, wild>>

(* WriterCallback called with the next n bytes of transfer i.              *)
Callback(i, f, n) ==
  /\ fetcher' = [fetcher EXCEPT ![i] = WriterCallback(f, Contents(xfer[i], n))]
  /\ xfer' = [xfer EXCEPT ![i] = IF Accepts(f, n) THEN Passed(@, n) ELSE Held(@, n)]

(* get() of a paused fetcher whose buffer is used up: curl_easy_pause      *)
(* calls WriterCallback with what libcurl holds, and get() looks again.    *)
GetUnpauses ==
  /\ pc = "get"
  /\ Avail(fetcher[front]) = 0
  /\ fetcher[front].mPaused
  /\ Callback(front, Unpause(fetcher[front]), xfer[front].held)
  /\ UNCHANGED <<front, next, pc, bufflen, result, delivered, faults, wild>>

(* get() reports the end of the current fetcher: the next one's turn.      *)
GetEof ==
  /\ pc = "get"
  /\ AtEof(fetcher[front])
  /\ front' = front + 1
  /\ pc' = "loop"
  /\ UNCHANGED <<fetcher, xfer, next, bufflen, result, delivered, faults, wild>>

(* Seeded fault: read() goes on to wait although there are unread bytes.   *)
NeedMoreUnread ==
  /\ pc = "get"
  /\ ~ fetcher[front].mPaused
  /\ fetcher[front].mState # "DONE"

(* get() has nothing yet: a failed current fetcher is restarted, and       *)
(* read() goes on to wait.                                                 *)
NeedMore ==
  /\ pc = "get"
  /\ Avail(fetcher[front]) = 0
  /\ ~ fetcher[front].mPaused
  /\ fetcher[front].mState # "DONE"

(* Seeded fault: the failed fetcher is not restarted.                      *)
GetNothingNoRestart ==
  /\ NeedMore
  /\ pc' = "perform"
  /\ UNCHANGED <<fetcher, xfer, front, next, bufflen, result, delivered, faults, wild>>

GetNothing ==
  /\ NeedMore
  /\ IF fetcher[front].mState = "FAILED"
     THEN /\ fetcher' = [fetcher EXCEPT ![front] = Started(@)]
          /\ xfer' = [xfer EXCEPT ![front] = Asked]
     ELSE UNCHANGED <<fetcher, xfer>>
  /\ pc' = "perform"
  /\ UNCHANGED <<front, next, bufflen, result, delivered, faults, wild>>

(* The restart throws: there is no curl handle to be had.  (The buffer is  *)
(* there since the first start.)                                           *)
RestartFails ==
  /\ NeedMore
  /\ fetcher[front].mState = "FAILED"
  /\ Fault("nohandle")
  /\ Return("error")
  /\ UNCHANGED <<fetcher, xfer, front, next, bufflen, delivered, wild>>

-----------------------------------------------------------------------------

(* Inside curl_multi_perform.  The server answers a request ...            *)
Answer(i) ==
  /\ pc = "perform"
  /\ xfer[i].kind = "asked" /\ xfer[i].msg = "none"
  /\ \/ /\ ~ PastEnd(Honoured(fetcher[i]))
        /\ xfer' = [xfer EXCEPT ![i] = DataReply(Honoured(fetcher[i]))]
        /\ UNCHANGED faults
     \/ /\ IF PastEnd(Honoured(fetcher[i])) THEN UNCHANGED faults ELSE Fault("http")
        /\ \E n \in ErrorBodies : xfer' = [xfer EXCEPT ![i] = ErrorReply(n)]
  /\ UNCHANGED <<fetcher, front, next, pc, bufflen, result, delivered, wild>>

(* ... bytes of its reply arrive ...                                       *)
Arrive(i, n) ==
  /\ pc = "perform"
  /\ CanArrive(xfer[i], n)
  /\ Callback(i, fetcher[i], n)
  /\ UNCHANGED <<front, next, pc, bufflen, result, delivered, faults, wild>>

(* ... the reply is complete; or the connection fails or times out; or it  *)
(* ends well without an HTTP status.                                       *)
Finish(i) ==
  /\ pc = "perform"
  /\ \/ /\ IsComplete(xfer[i])
        /\ xfer' = [xfer EXCEPT ![i].msg = "OK"]
        /\ UNCHANGED faults
     \/ /\ CanBreak(xfer[i])
        /\ Fault("net")
        /\ xfer' = [xfer EXCEPT ![i].msg = "BROKEN"]
     \/ /\ xfer[i].kind = "asked" /\ xfer[i].msg = "none"
        /\ Fault("nocode")
        /\ xfer' = [xfer EXCEPT ![i].msg = "OK"]
  /\ UNCHANGED <<fetcher, front, next, pc, bufflen, result, delivered, wild>>

(* curl_multi_perform returns: something happened, or a second went by.    *)
Performed ==
  /\ pc = "perform"
  /\ pc' = "results"
  /\ UNCHANGED <<fetcher, xfer, front, next, bufflen, result, delivered, faults, wild>>

(* curl_multi_wait or curl_multi_perform report an error, and read()       *)
(* throws QingStorNetworkException.                                        *)
PerformFails ==
  /\ pc = "perform"
  /\ Fault("multi")
  /\ Return("error")
  /\ UNCHANGED <<fetcher, xfer, front, next, bufflen, delivered, wild>>

-----------------------------------------------------------------------------

(* One turn of the curl_multi_info_read loop: the message is consumed and  *)
(* handed to the active fetcher whose handle it names.  Nothing more comes *)
(* of the transfer: fail() and done() take its handle out of the multi     *)
(* handle, and when there was no response code it stays there, finished.   *)
Found(i) == i \in Active /\ fetcher[i].mCurl = "live"

HandleMessage(i) ==
  LET x == xfer[i] IN
  /\ pc = "results"
  /\ x.msg # "none"
  /\ IF ~ Found(i) \/ ResultThrows(x.msg, ResponseCode(x))
     THEN /\ Return(IF Found(i) THEN "error" ELSE "internal")
          /\ UNCHANGED fetcher
     ELSE /\ fetcher' = [fetcher EXCEPT ![i] = HandleResult(@, x.msg, ResponseCode(x))]
          /\ UNCHANGED <<pc, result>>
  /\ xfer' = [xfer EXCEPT ![i] = NoTransfer]
  /\ UNCHANGED <<front, next, bufflen, delivered, faults, wild>>

(* No message is left: read() tries again from the top.                    *)
ResultsDone ==
  /\ pc = "results"
  /\ \A i \in Ids : xfer[i].msg = "none"
  /\ pc' = "loop"
  /\ UNCHANGED <<fetcher, xfer, front, next, bufflen, result, delivered, faults, wild>>

(* qingstorCloseObject of a reader: QingStorReader::close does nothing,    *)
(* and deleting the reader destroys the pipeline and every fetcher in it,  *)
(* the ones still pending too.                                             *)
Close ==
  /\ pc = "idle"
  /\ pc' = "closed"
  /\ wild' = \E i \in Active \cup Pending : CleanupIsWild(fetcher[i])
  /\ fetcher' = [i \in Ids |-> IF i \in Active \cup Pending THEN Cleanup(fetcher[i])
                               ELSE fetcher[i]]
  /\ xfer' = [i \in Ids |-> NoTransfer]
  /\ UNCHANGED <<front, next, bufflen, result, delivered, faults>>

Closed ==
  /\ pc = "closed"
  /\ UNCHANGED vars

Network ==
  \E i \in Ids : Answer(i) \/ (\E n \in 1 .. CurlMaxWrite : Arrive(i, n)) \/ Finish(i)

Get == GetData \/ GetUnpauses \/ GetEof \/ GetNothing \/ RestartFails

Results == (\E i \in Ids : HandleMessage(i)) \/ ResultsDone

Next ==
  \/ \E n \in ReadSizes : CallRead(n)
  \/ Launch \/ LaunchFails \/ Launched
  \/ Get
  \/ Network \/ Performed \/ PerformFails
  \/ Results
  \/ Close
  \/ Closed

Spec == Init /\ [][Next]_vars

(* The thread that called qingstorRead runs on, and time and the network   *)
(* do not stand still: while transfers can proceed, one of them eventually *)
(* does.  Strong fairness, since curl_multi_perform keeps returning after  *)
(* a second without news.  Nothing obliges the caller to call again.       *)
Fairness ==
  /\ WF_vars(Launch \/ Launched)
  /\ WF_vars(Get)
  /\ WF_vars(Performed)
  /\ WF_vars(Results)
  /\ SF_vars(Network)

FairSpec == Spec /\ Fairness

(* ... unless it wants the whole range.                                    *)
ReadOn == \E n \in ReadSizes : CallRead(n)
EagerSpec == FairSpec /\ WF_vars(ReadOn)

-----------------------------------------------------------------------------

BuffSize == AllocSize(New(ConfBuffSize, 0, 0))

FetcherType ==
  [mState : States, mCurl : Handles, mPaused : BOOLEAN,
   mFirstRange : RangeHeader, mLastRange : RangeHeader,
   mConfBuffSize : Int, mOffset : Nat, mLen : Int, mBytesDone : Nat,
   mReadBuff : {NoBuffer} \cup [0 .. BuffSize - 1 -> Byte],
   mBuffSize : Nat, mNused : Nat, mReadOff : Nat]

(* Types, the bounds of the buffer, and the order of the two lists.        *)
TypeOK ==
  /\ fetcher \in [Ids -> FetcherType]
  /\ \A i \in Ids :
       /\ fetcher[i].mReadOff <= fetcher[i].mNused
       /\ fetcher[i].mNused > 0 => fetcher[i].mNused \in {n + 1 : n \in DOMAIN fetcher[i].mReadBuff}
  /\ xfer \in [Ids -> TransferType]
  /\ front \in 1 .. NumFetchers + 1
  /\ next \in front .. NumFetchers + 1
  /\ pc \in {"idle", "loop", "get", "perform", "results", "closed"}
  /\ pc = "get" => Active # {}
  /\ bufflen \in Nat
  /\ result \in {"none", "data", "eof", "error", "internal"}
  /\ delivered \in Seq(Byte)
  /\ faults \in Nat
  /\ wild \in BOOLEAN

(* What qingstorRead returns is the range, in order: whatever the sizes of *)
(* the reads, the interleaving of the transfers and the failures they      *)
(* recover from, no byte is lost, repeated or out of place.                *)
DeliveredInOrder ==
  \A k \in 1 .. Len(delivered) : delivered[k] = Offset[1] + k - 1

Total == Offset[NumFetchers] + Length[NumFetchers] - Offset[1]

(* End of file is reported when, and only when, the whole range has been   *)
(* returned.                                                               *)
EofIsComplete == result = "eof" => Len(delivered) = Total

(* The errors the code declares impossible are: a message for a transfer   *)
(* that is not active, and a start in the wrong state.                     *)
NoInternalError == result # "internal"

(* A paused fetcher has a live handle for get() to unpause, and libcurl    *)
(* has kept the bytes it refused.                                          *)
PausedIsLive ==
  pc # "closed" =>
    \A i \in Ids : fetcher[i].mPaused => fetcher[i].mCurl = "live" /\ xfer[i].held > 0

(* get() takes its "goto retry" once: by then the buffer is empty, and the *)
(* bytes libcurl has kept fit into it, however much was received before.   *)
RetryOnce ==
  pc = "get" /\ Avail(fetcher[front]) = 0 /\ fetcher[front].mPaused =>
    Accepts(Unpause(fetcher[front]), xfer[front].held)

(* WriterCallback's memmove is never needed: read() only waits when the    *)
(* buffer it reads from is empty, and the other buffers are read from      *)
(* their beginning later.                                                  *)
NothingToShift ==
  pc = "perform" => \A i \in Ids : fetcher[i].mReadOff \in {0, fetcher[i].mNused}

(* A transfer's bytes arrive where the last ones stopped: the next byte of *)
(* every running transfer is the one that follows the buffer's contents,   *)
(* also after a restart from the middle of a chunk.                        *)
TransferAligned ==
  \A i \in Ids : xfer[i].kind = "data" =>
    /\ xfer[i].next = fetcher[i].mOffset + fetcher[i].mBytesDone + Avail(fetcher[i])
    /\ xfer[i].next + xfer[i].left = fetcher[i].mOffset + fetcher[i].mLen

(* The download side implements the byte stream of qingstor.h.             *)
Stream == INSTANCE ByteStream
            WITH First <- Offset[1], Total <- Total,
                 out <- delivered, ended <- result = "eof"
ImplementsByteStream == Stream!Spec

(* A call of qingstorRead returns.                                         *)
ReadReturns == pc = "loop" ~> pc = "idle"

(* A caller that keeps reading gets to the end of the range.               *)
DownloadCompletes == <>(result = "eof" \/ pc = "closed")

(* Of the body of an HTTP error reply, no byte is returned as data.        *)
NoErrorBytes == \A k \in 1 .. Len(delivered) : delivered[k] # ErrorByte

(* Closing an object releases handles that exist.                          *)
NoWildCleanup == ~ wild

=============================================================================
