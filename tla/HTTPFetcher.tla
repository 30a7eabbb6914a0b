----------------------------- MODULE HTTPFetcher -----------------------------
(***************************************************************************)
(* One transfer of a download: the fields of class HTTPFetcher as a record *)
(* and its methods as operators from a fetcher to a fetcher.  The methods  *)
(* run on the caller's thread, called by DownloadPipeline, and             *)
(* WriterCallback by libcurl from inside DownloadPipeline::read; the       *)
(* module DownloadPipeline says when.                                      *)
(*                                                                         *)
(* A byte of the object is its position in the object, so that a byte in   *)
(* the wrong place is seen to be wrong.                                    *)
(***************************************************************************)
EXTENDS Integers, Sequences

CONSTANT CurlMaxWrite   \* CURL_MAX_WRITE_SIZE

ASSUME FetcherAssumption == CurlMaxWrite \in Nat \ {0}

ErrorByte == -1         \* a byte of the body of an HTTP error reply
Junk == -2              \* a byte malloc returned and nobody wrote
Byte == Nat \cup {ErrorByte, Junk}

States == {"INIT", "RUNNING", "FAILED", "DONE"}

(* mCurl: a handle, NULL, or what the memory held before the constructor,  *)
(* which does not initialise it.                                           *)
Handles == {"live", "null", "garbage"}

(* A "Range: bytes=from-to" header; the end may be left open.  mHeaders    *)
(* only ever grows, and the first and the last of its Range headers are    *)
(* what a server can tell apart.                                           *)
OpenEnd == -2
RangeHeader == [from : Int, to : Int]
NoRange == [from |-> -1, to |-> -1]

NoBuffer == [i \in {} |-> Junk]

(* The constructor.                                                        *)
New(confBuffSize, offset, len) ==
  [mState |-> "INIT", mCurl |-> "garbage", mPaused |-> FALSE,
   mFirstRange |-> NoRange, mLastRange |-> NoRange,
   mConfBuffSize |-> confBuffSize, mOffset |-> offset, mLen |-> len,
   mBytesDone |-> 0,
   mReadBuff |-> NoBuffer, mBuffSize |-> 0, mNused |-> 0, mReadOff |-> 0]

-----------------------------------------------------------------------------

(* Bytes received and not yet returned to the caller.                      *)
Avail(f) == f.mNused - f.mReadOff

(* WriterCallback, first step: an empty buffer is used from its beginning. *)
Rewound(f) ==
  IF f.mNused = f.mReadOff THEN [f EXCEPT !.mNused = 0, !.mReadOff = 0] ELSE f

(* Seeded fault: the room is one byte more than there is.                  *)
FitsOneMore(f, n) == n <= f.mBuffSize - f.mNused + 1

Fits(f, n) == n <= f.mBuffSize - f.mNused

(* WriterCallback's memmove: the valid bytes go to the front.  (Inside the *)
(* pipeline it is never needed: NothingToShift in DownloadPipeline.)       *)
Shifted(f) ==
  [f EXCEPT !.mReadBuff = [i \in DOMAIN f.mReadBuff |->
                             IF i < Avail(f) THEN f.mReadBuff[i + f.mReadOff]
                             ELSE f.mReadBuff[i]],
            !.mNused = Avail(f),
            !.mReadOff = 0]

(* Seeded fault: used bytes are never reclaimed.                           *)
MakeRoomNot(f, n) == f

(* The room WriterCallback can make for n bytes.                           *)
MakeRoom(f, n) ==
  IF ~ Fits(Rewound(f), n) /\ Rewound(f).mReadOff > 0
  THEN Shifted(Rewound(f))
  ELSE Rewound(f)

(* WriterCallback: the bytes are appended, or refused with                 *)
(* CURL_WRITEFUNC_PAUSE when they do not fit as a whole.                   *)
Accepts(f, n) == Fits(MakeRoom(f, n), n)

Store(f, contents) ==
  [f EXCEPT !.mReadBuff =
              [i \in DOMAIN f.mReadBuff |->
                 IF i \in f.mNused .. f.mNused + Len(contents) - 1
                 THEN contents[i - f.mNused + 1]
                 ELSE f.mReadBuff[i]],
            !.mNused = f.mNused + Len(contents)]

WriterCallback(f, contents) ==
  IF Accepts(f, Len(contents))
  THEN Store(MakeRoom(f, Len(contents)), contents)
  ELSE [MakeRoom(f, Len(contents)) EXCEPT !.mPaused = TRUE]

-----------------------------------------------------------------------------

(* start(): the buffer is allocated once and kept over restarts; the size  *)
(* is noted before malloc is asked.                                        *)
AllocSize(f) ==
  IF CurlMaxWrite > f.mConfBuffSize THEN CurlMaxWrite ELSE f.mConfBuffSize

WithBuffer(f) ==
  IF f.mReadBuff = NoBuffer
  THEN [f EXCEPT !.mBuffSize = AllocSize(f),
                 !.mReadBuff = [i \in 0 .. AllocSize(f) - 1 |-> Junk]]
  ELSE f

(* start(), leaving by its "could not allocate enough memory" exception.   *)
StartNoMemory(f) == [f EXCEPT !.mBuffSize = AllocSize(f)]

Startable(f) == f.mState \in {"INIT", "FAILED"}

(* Seeded fault: a restart asks for the whole chunk again.                 *)
RangeOfFromScratch(f) == [from |-> f.mOffset, to |-> f.mOffset + f.mLen - 1]

(* Seeded fault: the last byte is taken for the byte after the last.       *)
RangeOfEndExclusive(f) ==
  LET offset == f.mOffset + Avail(f) + f.mBytesDone
  IN  [from |-> offset, to |-> offset + f.mLen - Avail(f) - f.mBytesDone]

(* The Range header of a (re)start: from where the bytes received stop.    *)
RangeOf(f) ==
  LET offset == f.mOffset + Avail(f) + f.mBytesDone
      len == f.mLen - Avail(f) - f.mBytesDone
  IN  [from |-> offset, to |-> IF len >= 0 THEN offset + len - 1 ELSE OpenEnd]

(* The range a start appends to mHeaders, if it does: HeaderContent_Add    *)
(* appends and nothing ever clears the list.                               *)
WithRange(f) ==
  IF f.mOffset + f.mBytesDone > 0 \/ f.mLen >= 0
  THEN [f EXCEPT !.mFirstRange = IF f.mFirstRange = NoRange THEN RangeOf(f)
                                 ELSE f.mFirstRange,
                 !.mLastRange = RangeOf(f)]
  ELSE f

(* start() to its end.  qs_parse_url throws nothing here: the HEAD that    *)
(* came before has parsed the same URL.                                    *)
Started(f) ==
  [WithRange(WithBuffer(f)) EXCEPT !.mCurl = "live", !.mState = "RUNNING"]

-----------------------------------------------------------------------------

(* cleanup(): tests mCurl, removes it from the multi handle and frees it.  *)
(* On a fetcher that was never started the value tested is not a handle.   *)
Cleanup(f) == [f EXCEPT !.mCurl = "null"]
CleanupIsWild(f) == f.mCurl = "garbage"

(* Seeded fault: a failed transfer drops what it has received.             *)
FailDropsBuffer(f) ==
  [Cleanup(f) EXCEPT !.mState = "FAILED", !.mBytesDone = @ + Avail(f),
                     !.mNused = f.mReadOff]

(* fail(): the bytes received are kept, and so is mPaused.                 *)
Fail(f) == [Cleanup(f) EXCEPT !.mState = "FAILED"]

(* done(): unread bytes stay in the buffer.                                *)
Done(f) == [Cleanup(f) EXCEPT !.mState = "DONE"]

(* Seeded fault: a timeout leaves the fetcher running.                     *)
HandleResultNoTimeout(f, res, code) ==
  CASE res = "OK" /\ code = "206"   -> Done(f)
    [] res = "OK" /\ code = "error" -> Fail(f)
    [] OTHER                        -> f

(* handleResult(): the state an HTTP reply leads to.  A response code of 0 *)
(* leaves by an exception, with the fetcher as it was.                     *)
HandleResult(f, res, code) ==
  CASE res = "OK" /\ code = "none"  -> f
    [] res = "OK" /\ code = "206"   -> Done(f)
    [] res = "OK" /\ code = "error" -> Fail(f)
    [] res = "BROKEN"               -> Fail(f)
ResultThrows(res, code) == res = "OK" /\ code = "none"

-----------------------------------------------------------------------------

(* get(), when there are unread bytes: at most bufflen of them.            *)
TakeSize(f, bufflen) == IF Avail(f) > bufflen THEN bufflen ELSE Avail(f)
Taken(f, bufflen) ==
  [k \in 1 .. TakeSize(f, bufflen) |-> f.mReadBuff[f.mReadOff + k - 1]]
Take(f, bufflen) ==
  [f EXCEPT !.mReadOff = @ + TakeSize(f, bufflen),
            !.mBytesDone = @ + TakeSize(f, bufflen)]

(* Seeded faults: the pause is not noted as over; the end is reported over *)
(* unread bytes; no bytes now is taken for the end.                        *)
UnpauseUnnoted(f) == f
AtEofUnread(f) == ~ f.mPaused /\ f.mState = "DONE"
AtEofEarly(f) == Avail(f) = 0 /\ ~ f.mPaused

(* get(), when there are none: unpause, report the end, or ask for more.   *)
Unpause(f) == [f EXCEPT !.mPaused = FALSE]
AtEof(f) == Avail(f) = 0 /\ ~ f.mPaused /\ f.mState = "DONE"

=============================================================================
