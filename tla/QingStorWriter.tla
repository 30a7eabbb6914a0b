--------------------------- MODULE QingStorWriter ---------------------------
(***************************************************************************)
(* The upload side: an object opened with qingstorPutObject, the           *)
(* QingStorWriter behind it with its buffer and part counter, and the HTTP *)
(* requests it makes through DoGetJSON, which tries each of them several   *)
(* times.                                                                  *)
(*                                                                         *)
(* Everything runs on the thread that makes the call.  pc says where it    *)
(* is: "idle" outside the library, "fill" in the copying loop of           *)
(* transferData, "request" in DoGetJSON, "reply" after it.  api is the     *)
(* call that is being served and op the request that it is making.         *)
(*                                                                         *)
(* A byte is its position in the stream of all bytes handed to             *)
(* qingstorWrite.                                                          *)
(***************************************************************************)
EXTENDS Integers, Sequences, FiniteSets, MultipartServer

CONSTANTS
  mBuffSize,     \* Configuration::mChunkSize, the size of mBuffer
  retries,       \* Configuration::mConnectionRetries
  CacheModes,    \* values of qingstorPutObject's argument cache
  WriteSizes,    \* lengths passed to qingstorWrite
  MaxBytes,      \* bound of the model: bytes handed to qingstorWrite in all
  MaxCancels,    \* bound of the model: calls of qingstorCancelObject
  Faults         \* ways in which a request may fail

ASSUME WriterAssumption ==
  /\ mBuffSize \in Nat \ {0}
  /\ retries \in Nat
  /\ CacheModes \subseteq BOOLEAN
  /\ WriteSizes \subseteq Nat \ {0}
  /\ MaxBytes \in Nat
  /\ MaxCancels \in Nat
  /\ Faults \subseteq {"connect", "midbody", "lostreply", "errorbody", "errorempty"}

VARIABLES
  handle,     \* the qingstorObject: "none", "open" or "freed"
  pc, api, op,
  mCache, mBuffer, mPartNum, mCanceled,  \* QingStorWriter; mWritePos is Len(mBuffer)
  buffer, buffPos,  \* transferData's argument, and how much of it is copied
  md,         \* MemoryData: what the read callback has still to hand out
  failing,    \* failed attempts of the request so far
  reply,      \* how DoGetJSON ended: "ok", "badjson" or "throw"
  server,     \* the object store
  result,     \* outcome of the last call: "none", "ok" or "error"
  given,      \* bytes handed to qingstorWrite so far
  taken,      \* the bytes the writer has taken charge of, in order
  accepted,   \* the bytes of the calls of qingstorWrite that returned their length
  cancels     \* calls of qingstorCancelObject so far

writer == <<mCache, mBuffer, mPartNum, mCanceled>>
call == <<pc, api, op, buffer, buffPos, md, failing, reply>>
ghosts == <<given, taken, accepted, cancels>>
vars == <<handle, writer, call, server, result, ghosts>>

Init ==
  /\ handle = "none"
  /\ pc = "idle" /\ api = "none" /\ op = "none"
  /\ mCache \in CacheModes
  /\ mBuffer = <<>> /\ mPartNum = 0 /\ mCanceled = FALSE
  /\ buffer = <<>> /\ buffPos = 0 /\ md = <<>> /\ failing = 0 /\ reply = "ok"
  /\ server = NoUpload
  /\ result = "none"
  /\ given = 0 /\ taken = <<>> /\ accepted = <<>> /\ cancels = 0

-----------------------------------------------------------------------------

(* DoGetJSON is entered with a request and its body.                       *)
Request(kind, body) ==
  /\ pc' = "request"
  /\ op' = kind
  /\ md' = body
  /\ failing' = 0

(* The call returns to the program; locals of the call are gone.           *)
Return(r) ==
  /\ pc' = "idle"
  /\ result' = r
  /\ op' = "none" /\ api' = "none"
  /\ buffer' = <<>> /\ buffPos' = 0 /\ md' = <<>> /\ failing' = 0 /\ reply' = "ok"

(* qingstorPutObject: the constructor of QingStorWriter starts the upload. *)
PutObject ==
  /\ handle = "none" /\ pc = "idle"
  /\ api' = "put"
  /\ Request("init", <<>>)
  /\ UNCHANGED <<handle, writer, buffer, buffPos, reply, server, result, ghosts>>

(* qingstorWrite of n bytes: transferData of a cached writer goes through  *)
(* the buffer, an uncached one sends its argument as a part.               *)
Write(n) ==
  /\ handle = "open" /\ pc = "idle"
  /\ given + n <= MaxBytes
  /\ given' = given + n
  /\ api' = "write"
  /\ buffer' = [k \in 1 .. n |-> given + k]
  /\ IF mCache THEN pc' = "fill" /\ UNCHANGED <<op, md, failing>>
     ELSE Request("upload", buffer')
  /\ UNCHANGED <<handle, writer, buffPos, reply, server, result, taken, accepted, cancels>>

(* transferData, cached: copy until the buffer is full or the input used   *)
(* up; a full buffer is sent, be it full from an earlier call whose send   *)
(* failed.                                                                 *)
Room == mBuffSize - Len(mBuffer)
CopyLen == IF Len(buffer) - buffPos < Room THEN Len(buffer) - buffPos ELSE Room

(* Seeded fault: every turn copies from the beginning of the argument.     *)
CopiedFromStart == SubSeq(buffer, 1, CopyLen)

Copied == SubSeq(buffer, buffPos + 1, buffPos + CopyLen)

Fill ==
  /\ pc = "fill"
  /\ buffPos # Len(buffer)
  /\ mBuffer' = mBuffer \o Copied
  /\ taken' = taken \o Copied
  /\ buffPos' = buffPos + CopyLen
  /\ IF Len(mBuffer') = mBuffSize THEN Request("upload", mBuffer')
     ELSE UNCHANGED <<pc, op, md, failing>>
  /\ UNCHANGED <<handle, mCache, mPartNum, mCanceled, api, buffer, reply, server,
                 result, given, accepted, cancels>>

(* The argument is used up, and qingstorWrite returns its length.          *)
Written ==
  /\ pc = "fill"
  /\ buffPos = Len(buffer)
  /\ Return("ok")
  /\ accepted' = accepted \o buffer
  /\ UNCHANGED <<handle, writer, server, given, taken, cancels>>

(* Seeded fault: close() completes the upload without flush().             *)
CloseNoFlush ==
  /\ handle = "open" /\ pc = "idle"
  /\ IF mCanceled
     THEN handle' = "freed" /\ Return("ok")
     ELSE /\ api' = "close"
          /\ Request("complete", PartList(mPartNum))
          /\ UNCHANGED <<handle, buffer, buffPos, reply, result>>
  /\ UNCHANGED <<writer, server, ghosts>>

(* qingstorCloseObject: a cancelled writer has nothing to do; else flush() *)
(* sends the buffer, even when it is empty, or, uncached, an empty part    *)
(* for an object nobody wrote to.                                          *)
Close ==
  /\ handle = "open" /\ pc = "idle"
  /\ IF mCanceled
     THEN handle' = "freed" /\ Return("ok")
     ELSE /\ api' = "close"
          /\ IF mCache \/ mPartNum = 0 THEN Request("upload", mBuffer)
             ELSE Request("complete", PartList(mPartNum))
          /\ UNCHANGED <<handle, buffer, buffPos, reply, result>>
  /\ UNCHANGED <<writer, server, ghosts>>

(* qingstorCancelObject aborts the upload.                                 *)
Cancel ==
  /\ handle = "open" /\ pc = "idle"
  /\ cancels < MaxCancels
  /\ cancels' = cancels + 1
  /\ api' = "cancel"
  /\ Request("abort", <<>>)
  /\ UNCHANGED <<handle, writer, buffer, buffPos, reply, server, result, given, taken, accepted>>

-----------------------------------------------------------------------------

(* One attempt of DoGetJSON_Internal.  The HTTP status is not looked at:   *)
(* of a request that wants no JSON an empty body is success, and any other *)
(* body an exception; starting an upload wants JSON, takes any body that   *)
(* parses, and finds out later that it has no upload_id.                   *)
Outcome(body) ==
  CASE op = "init" -> (CASE body = "json" -> "ok" [] body = "error" -> "badjson"
                         [] OTHER -> "throw")
    [] OTHER       -> IF body = "empty" THEN "ok" ELSE "throw"

GoodBody == IF op = "init" THEN "json" ELSE "empty"

(* Seeded fault: one attempt too many.                                     *)
ConcludeOneMore(outcome) ==
  IF outcome = "throw" /\ failing < retries
  THEN failing' = failing + 1 /\ UNCHANGED <<pc, reply>>
  ELSE pc' = "reply" /\ reply' = outcome /\ UNCHANGED failing

(* The retry loop of DoGetJSON: an attempt that threw is followed by       *)
(* another one with the same MemoryData, from where the last one left it.  *)
Conclude(outcome) ==
  IF outcome = "throw" /\ failing + 1 < retries
  THEN failing' = failing + 1 /\ UNCHANGED <<pc, reply>>
  ELSE pc' = "reply" /\ reply' = outcome /\ UNCHANGED failing

(* mem_read_callback has handed out k bytes of the body.                   *)
Consume(k) == md' = SubSeq(md, k + 1, Len(md))

Accepted == Legal(server, op, md, mPartNum)

(* The request arrives, the store does what it asks for, and answers.      *)
AttemptOk ==
  /\ Accepted
  /\ server' = Effect(server, op, md, mPartNum)
  /\ Consume(Len(md))
  /\ Conclude(Outcome(GoodBody))

(* The store refuses: because it has to, or for a reason of its own.  It   *)
(* may have read some of the body.                                         *)
AttemptRefused ==
  /\ \/ ~ Accepted /\ Conclude(Outcome("error"))
     \/ "errorbody" \in Faults /\ Conclude(Outcome("error"))
     \/ "errorempty" \in Faults /\ Conclude(Outcome("empty"))
  /\ \E k \in 0 .. Len(md) : Consume(k)
  /\ UNCHANGED server

(* The connection fails before, while or after the request is sent.        *)
AttemptBroken ==
  /\ \/ "connect" \in Faults /\ UNCHANGED <<md, server>>
     \/ "midbody" \in Faults /\ UNCHANGED server
          /\ \E k \in 1 .. Len(md) : Consume(k)
     \/ "lostreply" \in Faults /\ Accepted
          /\ server' = Effect(server, op, md, mPartNum)
          /\ Consume(Len(md))
  /\ Conclude("throw")

Attempt ==
  /\ pc = "request"
  /\ AttemptOk \/ AttemptRefused \/ AttemptBroken
  /\ UNCHANGED <<handle, writer, api, op, buffer, buffPos, result, ghosts>>

-----------------------------------------------------------------------------

(* The upload has been started: the handle is returned.                    *)
Opened ==
  /\ pc = "reply" /\ op = "init" /\ reply = "ok"
  /\ handle' = "open"
  /\ Return("ok")
  /\ UNCHANGED <<writer, server, ghosts>>

(* doSend counts the part.  A cached writer empties its buffer and goes on *)
(* with its argument, or with the completion; an uncached one is done, or  *)
(* goes on with the completion.                                            *)
PartSentAs(num, rest) ==
  /\ pc = "reply" /\ op = "upload" /\ reply = "ok"
  /\ mPartNum' = num
  /\ mBuffer' = rest
  /\ \/ /\ api = "write" /\ mCache
        /\ pc' = "fill"
        /\ UNCHANGED <<op, api, buffer, buffPos, md, failing, reply, result, taken, accepted>>
     \/ /\ api = "write" /\ ~ mCache
        /\ taken' = taken \o buffer
        /\ accepted' = accepted \o buffer
        /\ Return("ok")
     \/ /\ api = "close"
        /\ Request("complete", PartList(num))
        /\ UNCHANGED <<api, buffer, buffPos, reply, result, taken, accepted>>
  /\ UNCHANGED <<handle, mCache, mCanceled, server, given, cancels>>

(* Seeded faults: the part is not counted; nor is the buffer emptied.      *)
PartSentUncounted == PartSentAs(mPartNum, <<>>)
PartSentUnnoted == PartSentAs(mPartNum, mBuffer)

PartSent == PartSentAs(mPartNum + 1, <<>>)

(* The upload has been completed: the handle is freed.                     *)
Completed ==
  /\ pc = "reply" /\ op = "complete" /\ reply = "ok"
  /\ handle' = "freed"
  /\ Return("ok")
  /\ UNCHANGED <<writer, server, ghosts>>

(* cancel() after the abort.                                               *)
Aborted ==
  /\ pc = "reply" /\ op = "abort" /\ reply = "ok"
  /\ mPartNum' = 0
  /\ mCanceled' = TRUE
  /\ Return("ok")
  /\ UNCHANGED <<handle, mCache, mBuffer, server, ghosts>>

(* Seeded fault: mWritePos is reset although the buffer was not sent.      *)
FailedBufferLost ==
  /\ pc = "reply" /\ reply # "ok"
  /\ handle' = IF api \in {"put", "close"} THEN "freed" ELSE handle
  /\ mBuffer' = IF op = "upload" THEN <<>> ELSE mBuffer
  /\ Return("error")
  /\ UNCHANGED <<mCache, mPartNum, mCanceled, server, ghosts>>

(* The exception, or the reply without an upload_id, ends the call: an     *)
(* object that could not be opened has no handle, and one that could not   *)
(* be closed loses it; the writer is otherwise as doSend left it.          *)
Failed ==
  /\ pc = "reply" /\ reply # "ok"
  /\ handle' = IF api \in {"put", "close"} THEN "freed" ELSE handle
  /\ Return("error")
  /\ UNCHANGED <<writer, server, ghosts>>

Freed ==
  /\ handle = "freed"
  /\ UNCHANGED vars

Running ==
  \/ Fill \/ Written
  \/ Attempt
  \/ Opened \/ PartSent \/ Completed \/ Aborted \/ Failed

Next ==
  \/ PutObject
  \/ \E n \in WriteSizes : Write(n)
  \/ Close \/ Cancel
  \/ Running
  \/ Freed

Spec == Init /\ [][Next]_vars

(* A call runs on until it returns.                                        *)
FairSpec == Spec /\ WF_vars(Running)

-----------------------------------------------------------------------------

(* Types, and the bounds of the buffer, the retries and the copying.       *)
TypeOK ==
  /\ handle \in {"none", "open", "freed"}
  /\ pc \in {"idle", "fill", "request", "reply"}
  /\ api \in {"none", "put", "write", "close", "cancel"}
  /\ op \in {"none", "init", "upload", "complete", "abort"}
  /\ pc = "idle" => op = "none"
  /\ mCache \in BOOLEAN /\ mCanceled \in BOOLEAN
  /\ mBuffer \in Seq(Nat) /\ Len(mBuffer) <= (IF mCache THEN mBuffSize ELSE 0)
  /\ mPartNum \in Nat
  /\ buffer \in Seq(Nat) /\ buffPos \in 0 .. Len(buffer)
  /\ md \in Seq(Nat)
  /\ failing \in Nat /\ (failing = 0 \/ failing < retries)
  /\ reply \in {"ok", "badjson", "throw"}
  /\ result \in {"none", "ok", "error"}
  /\ given \in 0 .. MaxBytes
  /\ taken \in Seq(Nat) /\ accepted \in Seq(Nat)
  /\ cancels \in 0 .. MaxCancels

(* Nothing is lost or doubled on the way: while the upload is open, the    *)
(* parts counted so far followed by the buffer are the bytes taken.  This  *)
(* must hold over part numbers that are used again after a failure, and    *)
(* over a full buffer that is sent again by a later call.                  *)
PartsHeld ==
  handle = "open" /\ ~ mCanceled /\ server.upload = "open"
      /\ (pc = "reply" => reply # "ok") =>
    /\ \A p \in 0 .. mPartNum - 1 : p \in DOMAIN server.parts
    /\ Assembled(server.parts, mPartNum) \o mBuffer = taken

(* The bytes of the calls that returned their length are among those the   *)
(* writer has taken, which are in the order they were written.             *)
AcceptedKept ==
  /\ ToSet(accepted) \subseteq ToSet(taken)
  /\ \A i, j \in 1 .. Len(taken) : i < j => taken[i] < taken[j]

(* A close that returns 0 leaves the object in the store with exactly the  *)
(* bytes taken, unless it was cancelled.                                   *)
ClosedIsStored ==
  handle = "freed" /\ result = "ok" /\ ~ mCanceled => server.object = taken

(* The upload side implements the object upload above.                     *)
Upload == INSTANCE ObjectUpload
            WITH Bytes <- 1 .. MaxBytes, Nothing <- Absent,
                 stream <- taken, object <- server.object,
                 status <- IF handle = "freed" THEN "closed"
                           ELSE IF mCanceled THEN "cancelled" ELSE "open"
ImplementsObjectUpload == Upload!Spec

(* Every call returns, even when all its requests fail.                    *)
CallReturns == pc # "idle" ~> pc = "idle"

=============================================================================
