----------------------------- MODULE CInterface -----------------------------
(***************************************************************************)
(* The functions of qingstor.h as they are called by the threads of a      *)
(* program: handles, the ownership of what is behind them, and the error a *)
(* thread finds after a call.                                              *)
(*                                                                         *)
(* A request is one call of DoGetJSON, with all its attempts; the streams  *)
(* behind object handles have models of their own.  The program uses the   *)
(* handles it has, each in one thread at a time, and destroys the context  *)
(* when none of its threads is in a call.                                  *)
(***************************************************************************)
EXTENDS Integers, Sequences, Exceptions

CONSTANTS
  Threads,
  Handles,        \* objects opened, successfully or not
  NoHandle,
  Calls,          \* the context's functions that the program calls
  MaxPages,       \* bound of the model: pages of a listing
  InitFaults,     \* what the constructor of Context may throw
  RequestFaults,  \* DoGetJSON_Internal
  ReadFaults,     \* DownloadPipeline::read
  ForeignFaults   \* the C++ library, while a reply is read

ASSUME InterfaceAssumption ==
  /\ NoHandle \notin Handles /\ "context" \notin Handles
  /\ Calls \subseteq {"listBuckets", "createBucket", "deleteBucket", "listObjects",
                      "headObject", "deleteObject"}
  /\ MaxPages \in Nat \ {0}
  /\ InitFaults \subseteq {"QingStorConfigInvalid", "QingStorIOException",
                           "OutOfMemoryException", "bad_alloc", "logic_error"}
  /\ RequestFaults \subseteq {"OutOfMemoryException", "InvalidParameter",
                              "QingStorNetworkException",
                              "QingStorNetworkConnectException", "bad_alloc"}
  /\ ReadFaults \subseteq {"QingStorNetworkException", "OutOfMemoryException",
                           "QingStorException", "InvalidParameter", "bad_alloc"}
  /\ ForeignFaults \subseteq {"bad_alloc", "logic_error"}

VARIABLES
  context,        \* "none", "live" or "destroyed"
  configuration,  \* the Configuration: "none", "live" or "freed"
  owners,         \* those that have a shared_ptr to it
  object,         \* the QingStorObjectInternalWrapper of each handle
  thread,         \* the call each thread is in, and its locals
  error,          \* errno and ErrorMessage of each thread
  failure,        \* what made the last call of each thread that failed fail
                  \* (read by the properties alone)
  crashed         \* undefined behaviour has ended the program

vars == <<context, configuration, owners, object, thread, error, failure, crashed>>

-----------------------------------------------------------------------------

(* The requests that are answered with JSON, or with the headers that are  *)
(* made into JSON; the functions that open an object; those that use one.  *)
Queries == {"listBuckets", "listObjects", "headObject", "getObject", "putObject"}
Opening == {"getObject", "putObject"}
StreamCalls == {"read", "write", "cancel", "close"}

Idle == [call |-> "none", pc |-> "idle", handle |-> NoHandle, pages |-> 0,
         resp |-> "null", refs |-> 0, exc |-> Thrown("exception")]

(* What can make a call fail, besides an exception of some class, and what *)
(* there is before the first failure.                                      *)
Nothing == "Success"
Argument == "argument"

(* A failure that is reported: its cause, and whether a handler on the way *)
(* throws it again.  It gets stale when a later failure is not reported.   *)
Failure(cause, again) == [cause |-> cause, again |-> again, stale |-> FALSE]

Init ==
  /\ context = "none" /\ configuration = "none" /\ owners = {}
  /\ object = [h \in Handles |-> [state |-> "none", reader |-> TRUE, rw |-> "null"]]
  /\ thread = [t \in Threads |-> Idle]
  /\ error = [t \in Threads |-> [errno |-> "0", message |-> "Success"]]
  /\ failure = [t \in Threads |-> Failure(Nothing, FALSE)]
  /\ crashed = FALSE

At(t, pc) == ~ crashed /\ thread[t].pc = pc
Free(h) == \A t \in Threads : thread[t].pc = "idle" \/ thread[t].handle # h

Becomes(t, th) == thread' = [thread EXCEPT ![t] = th]
Returns(t) == Becomes(t, Idle)

-----------------------------------------------------------------------------
(* Errors *)

(* The call of t fails, because of an argument or with an exception of     *)
(* class c, which the handlers of the library throw again or not.          *)
Fails(t, c, again) == failure' = [failure EXCEPT ![t] = Failure(c, again)]

(* Seeded fault: the buffer of the message is shared by all threads.       *)
ReportShared(t, errno, text) ==
  error' = [u \in Threads |-> [errno |-> IF u = t THEN errno ELSE error[u].errno,
                               message |-> text]]

(* SetErrorMessage, and the assignment to errno that follows it.           *)
Report(t, errno, text) ==
  error' = [error EXCEPT ![t] = [errno |-> errno, message |-> text]]

(* The two last handlers of each function: bad_alloc, and everything else. *)
ReportException(t, e) ==
  Report(t, IF IsA(e.class, "bad_alloc") THEN "ENOMEM" ELSE ErrnoOf(e.class), e.what)

(* PARAMETER_ASSERT, for the arguments that are not handles.               *)
BadArgument(t) ==
  /\ At(t, "idle")
  /\ Report(t, "EINVAL", Argument)
  /\ Fails(t, Argument, FALSE)
  /\ UNCHANGED <<context, configuration, owners, object, thread, crashed>>

-----------------------------------------------------------------------------
(* The context and the configuration it shares with the streams *)

(* Seeded fault: whoever goes first deletes the configuration.             *)
DropFirst(owner) ==
  /\ owners' = owners \ {owner}
  /\ configuration' = "freed"

(* A shared_ptr to the configuration is destroyed.                         *)
Drop(owner) ==
  /\ owners' = owners \ {owner}
  /\ configuration' = IF owners' = {} THEN "freed" ELSE configuration

InitContext(t) ==
  /\ At(t, "idle") /\ context = "none"
  /\ context' = "live" /\ configuration' = "live" /\ owners' = {"context"}
  /\ UNCHANGED <<thread, object, error, failure, crashed>>

(* The constructor of Context throws; the handler deletes the pointer that *)
(* was to be assigned.                                                     *)
InitContextThrows(t) ==
  /\ At(t, "idle") /\ context = "none"
  /\ \E c \in InitFaults : Fails(t, c, FALSE) /\ ReportException(t, Thrown(c))
  /\ crashed' \in BOOLEAN
  /\ UNCHANGED <<context, configuration, owners, object, thread>>

DestroyContext(t) ==
  /\ At(t, "idle") /\ context = "live"
  /\ \A u \in Threads : thread[u].pc = "idle"
  /\ context' = "destroyed"
  /\ Drop("context")
  /\ UNCHANGED <<thread, object, error, failure, crashed>>

-----------------------------------------------------------------------------
(* Requests *)

(* A function calls Context, or the constructor of QingStorWriter, which   *)
(* has its own copy of the shared_ptr from the start.                      *)
Begin(t, call) ==
  /\ At(t, "idle") /\ context = "live"
  /\ call \in Calls
  /\ Becomes(t, [Idle EXCEPT !.call = call, !.pc = "request"])
  /\ UNCHANGED <<context, configuration, owners, object, error, failure, crashed>>

BeginOpening(t, call, h) ==
  /\ At(t, "idle") /\ context = "live"
  /\ call \in Opening /\ object[h].state = "none"
  /\ object' = [object EXCEPT ![h].state = "opening"]
  /\ owners' = IF call = "putObject" THEN owners \cup {h} ELSE owners
  /\ Becomes(t, [Idle EXCEPT !.call = call, !.pc = "request", !.handle = h])
  /\ UNCHANGED <<context, configuration, error, failure, crashed>>

(* DoGetJSON returns, with a reply if the request has one.                 *)
RequestReturns(t) ==
  /\ At(t, "request")
  /\ Becomes(t, IF thread[t].call \in Queries
                THEN [thread[t] EXCEPT !.pc = "extract", !.resp = "reply",
                                       !.refs = @ + 1, !.pages = @ + 1]
                ELSE [thread[t] EXCEPT !.pc = "return"])
  /\ UNCHANGED <<context, configuration, owners, object, error, failure, crashed>>

(* The handler of a function's caller runs next if it has no handler for   *)
(* the exception itself.                                                   *)
Throws(t, e) ==
  Becomes(t, [thread[t] EXCEPT !.exc = e,
                !.pc = IF IsA(e.class, "QingStorException") THEN "catch" ELSE "unwind"])

(* All attempts have failed; DoGetJSON_Internal has thrown again.          *)
RequestThrows(t) ==
  /\ At(t, "request")
  /\ \E c \in RequestFaults : Fails(t, c, TRUE) /\ Throws(t, ThrownAgain(Thrown(c)))
  /\ UNCHANGED <<context, configuration, owners, object, error, crashed>>

(* The reply is read and put, except that QingStorWriter keeps it.         *)
Extracted(t) ==
  /\ At(t, "extract")
  /\ LET put == IF thread[t].call = "putObject" THEN thread[t]
                ELSE [thread[t] EXCEPT !.resp = "put", !.refs = @ - 1] IN
     \/ /\ thread[t].call = "listObjects" /\ thread[t].pages < MaxPages
        /\ Becomes(t, [put EXCEPT !.pc = "request"])
     \/ Becomes(t, [put EXCEPT !.pc = IF thread[t].call \in Opening THEN "construct"
                                      ELSE "return"])
  /\ UNCHANGED <<context, configuration, owners, object, error, failure, crashed>>

(* A reply that is not what was expected.                                  *)
BadReply(call) ==
  {"QingStorNetworkException"} \cup
    IF call = "listObjects" THEN {"AccessControlException", "InvalidParameter"} ELSE {}

ExtractThrows(t) ==
  /\ At(t, "extract")
  /\ \E c \in BadReply(thread[t].call) \cup ForeignFaults :
       Fails(t, c, TRUE) /\ Throws(t, Thrown(c))
  /\ UNCHANGED <<context, configuration, owners, object, error, crashed>>

(* Seeded fault: the handler does not put the reply.                       *)
CleanupNothing(t) ==
  /\ Becomes(t, [thread[t] EXCEPT !.pc = "unwind", !.exc = ThrownAgain(@)])
  /\ UNCHANGED crashed

(* Seeded fault: resp_body is put without the test that there is one.      *)
CleanupAlways(t) ==
  /\ Becomes(t, [thread[t] EXCEPT !.pc = "unwind", !.exc = ThrownAgain(@),
                   !.refs = @ - 1, !.resp = "put"])
  /\ UNCHANGED crashed

(* The handlers marked "always cleanup".  After a page of a listing has    *)
(* been put, resp_body still points to it.                                 *)
Cleanup(t) ==
  /\ Becomes(t, [thread[t] EXCEPT !.pc = "unwind", !.exc = ThrownAgain(@),
                   !.refs = IF thread[t].resp = "reply" THEN @ - 1 ELSE @,
                   !.resp = IF @ = "reply" THEN "put" ELSE @])
  /\ IF thread[t].resp = "put" THEN crashed' \in BOOLEAN ELSE UNCHANGED crashed

Catch(t) ==
  /\ At(t, "catch")
  /\ Cleanup(t)
  /\ UNCHANGED <<context, configuration, owners, object, error, failure>>

-----------------------------------------------------------------------------
(* Opening an object *)

(* Seeded fault: setReader is not called for a writer.                     *)
OpenedReader(h, rw) == [object EXCEPT ![h].state = "open", ![h].rw = rw]

(* setReader and setRW.                                                    *)
Opened(h, rw) ==
  [object EXCEPT ![h] = [state |-> "open", reader |-> rw = "Reader", rw |-> rw]]

(* The rest of the constructor, and the end of the function.               *)
Construct(t) ==
  /\ At(t, "construct")
  /\ owners' = owners \cup {thread[t].handle}
  /\ object' = Opened(thread[t].handle,
                      IF thread[t].call = "getObject" THEN "Reader" ELSE "Writer")
  /\ Returns(t)
  /\ UNCHANGED <<context, configuration, error, failure, crashed>>

(* A reader needs a multi handle of libcurl, a writer its buffer.          *)
ConstructThrows(t) ==
  /\ At(t, "construct")
  /\ \E c \in {"QingStorException", "bad_alloc"} :
       /\ c = "QingStorException" => thread[t].call = "getObject"
       /\ Fails(t, c, FALSE)
       /\ Becomes(t, [thread[t] EXCEPT !.pc = "unwind", !.exc = Thrown(c)])
  /\ UNCHANGED <<context, configuration, owners, object, error, crashed>>

(* The other functions return; the result of a query is copied first.      *)
Return(t) ==
  /\ At(t, "return")
  /\ Returns(t)
  /\ UNCHANGED <<context, configuration, owners, object, error, failure, crashed>>

(* qingstorListObjects checks that it has memory for the copy.  If not, it *)
(* returns what it has: the half of a result, or NULL.                     *)
CopyThrows(t) ==
  /\ At(t, "return") /\ thread[t].call = "listObjects"
  /\ Fails(t, "OutOfMemoryException", FALSE)
  /\ ReportException(t, Thrown("OutOfMemoryException"))
  /\ Returns(t)
  /\ UNCHANGED <<context, configuration, owners, object, crashed>>

-----------------------------------------------------------------------------
(* Calls on an object *)

Allowed(call, h) == CASE call = "read" -> object[h].reader
                      [] call \in {"write", "cancel"} -> ~ object[h].reader
                      [] OTHER -> TRUE

BeginStream(t, call, h) ==
  /\ At(t, "idle") /\ object[h].state = "open" /\ Free(h)
  /\ Allowed(call, h)
  /\ Becomes(t, [Idle EXCEPT !.call = call, !.pc = "stream", !.handle = h])
  /\ UNCHANGED <<context, configuration, owners, object, error, failure, crashed>>

(* A read from a writer, or a write to a reader.                           *)
WrongKind(t, call, h) ==
  /\ At(t, "idle") /\ object[h].state = "open" /\ Free(h)
  /\ call \in {"read", "write"} /\ ~ Allowed(call, h)
  /\ Report(t, "EINVAL", Argument)
  /\ Fails(t, Argument, FALSE)
  /\ UNCHANGED <<context, configuration, owners, object, thread, crashed>>

(* The cancel of a reader returns -1, and leaves the errno and the text of *)
(* an earlier failure, or of none, as they are.                            *)
CancelReader(t, h) ==
  /\ At(t, "idle") /\ object[h].state = "open" /\ Free(h)
  /\ ~ Allowed("cancel", h)
  /\ failure' = [failure EXCEPT ![t].stale = TRUE]
  /\ UNCHANGED <<context, configuration, owners, object, thread, error, crashed>>

(* ~QingStorObjectInternalWrapper, which deletes the stream.               *)
Delete(h) ==
  /\ object' = [object EXCEPT ![h].state = "closed", ![h].rw = "deleted"]
  /\ Drop(h)

StreamReturns(t) ==
  /\ At(t, "stream")
  /\ IF thread[t].call = "close" THEN Delete(thread[t].handle)
     ELSE UNCHANGED <<object, owners, configuration>>
  /\ Returns(t)
  /\ UNCHANGED <<context, error, failure, crashed>>

(* What a reader throws arrives as it was thrown; a writer's requests have *)
(* been thrown again.  The close of a reader throws nothing.               *)
StreamFaults(t) ==
  IF thread[t].call = "read" THEN ReadFaults
  ELSE IF object[thread[t].handle].reader THEN {} ELSE RequestFaults

StreamThrows(t) ==
  /\ At(t, "stream")
  /\ \E c \in StreamFaults(t) :
       /\ Fails(t, c, thread[t].call # "read")
       /\ Becomes(t, [thread[t] EXCEPT !.pc = "unwind",
                        !.exc = IF thread[t].call = "read" THEN Thrown(c)
                                ELSE ThrownAgain(Thrown(c))])
  /\ UNCHANGED <<context, configuration, owners, object, error, crashed>>

(* Only a read gets to the end, which is no failure.                       *)
StreamEnds(t) ==
  /\ At(t, "stream") /\ thread[t].call = "read"
  /\ Becomes(t, [thread[t] EXCEPT !.pc = "unwind", !.exc = Thrown("QingStorEndOfStream")])
  /\ UNCHANGED <<context, configuration, owners, object, error, failure, crashed>>

-----------------------------------------------------------------------------
(* The handlers of the C functions *)

(* Seeded fault: a close that fails forgets the object.                    *)
AbandonForget(t) ==
  LET h == thread[t].handle IN
  CASE thread[t].call = "getObject" ->
         object' = [object EXCEPT ![h].state = "lost"] /\ UNCHANGED <<owners, configuration>>
    [] thread[t].call = "putObject" ->
         object' = [object EXCEPT ![h].state = "lost"] /\ Drop(h)
    [] thread[t].call = "close" ->
         object' = [object EXCEPT ![h].state = "closed"] /\ UNCHANGED <<owners, configuration>>
    [] OTHER -> UNCHANGED <<object, owners, configuration>>

(* What becomes of the object: a wrapper that was being filled is lost,    *)
(* the writer under construction goes with its base class; close deletes   *)
(* the object in any case.                                                 *)
Abandon(t) ==
  LET h == thread[t].handle IN
  CASE thread[t].call = "getObject" ->
         object' = [object EXCEPT ![h].state = "lost"] /\ UNCHANGED <<owners, configuration>>
    [] thread[t].call = "putObject" ->
         object' = [object EXCEPT ![h].state = "lost"] /\ Drop(h)
    [] thread[t].call = "close" -> Delete(h)
    [] OTHER -> UNCHANGED <<object, owners, configuration>>

Unwind(t) ==
  /\ At(t, "unwind")
  /\ thread[t].exc.class # "QingStorEndOfStream"
  /\ Abandon(t)
  /\ ReportException(t, thread[t].exc)
  /\ Returns(t)
  /\ UNCHANGED <<context, failure, crashed>>

(* qingstorRead returns 0.                                                 *)
EndOfStream(t) ==
  /\ At(t, "unwind")
  /\ thread[t].exc.class = "QingStorEndOfStream"
  /\ Returns(t)
  /\ UNCHANGED <<context, configuration, owners, object, error, failure, crashed>>

-----------------------------------------------------------------------------

Step(t) ==
  \/ InitContext(t) \/ InitContextThrows(t) \/ DestroyContext(t)
  \/ BadArgument(t)
  \/ \E call \in Calls : Begin(t, call)
  \/ \E call \in Opening, h \in Handles : BeginOpening(t, call, h)
  \/ RequestReturns(t) \/ RequestThrows(t)
  \/ Extracted(t) \/ ExtractThrows(t) \/ Catch(t)
  \/ Construct(t) \/ ConstructThrows(t)
  \/ Return(t) \/ CopyThrows(t)
  \/ \E call \in StreamCalls, h \in Handles : BeginStream(t, call, h) \/ WrongKind(t, call, h)
  \/ \E h \in Handles : CancelReader(t, h)
  \/ StreamReturns(t) \/ StreamThrows(t) \/ StreamEnds(t)
  \/ Unwind(t) \/ EndOfStream(t)

Stopped == crashed /\ UNCHANGED vars

Next == (\E t \in Threads : Step(t)) \/ Stopped

Spec == Init /\ [][Next]_vars

-----------------------------------------------------------------------------

Streams == {h \in Handles : object[h].rw \in {"Reader", "Writer"}}
Constructing == {h \in Handles : \E t \in Threads :
                   /\ thread[t].pc # "idle"
                   /\ thread[t].call = "putObject" /\ thread[t].handle = h}

(* Types; a call holds at most one reference to a reply.                   *)
TypeOK ==
  /\ context \in {"none", "live", "destroyed"}
  /\ configuration \in {"none", "live", "freed"}
  /\ owners \subseteq Handles \cup {"context"}
  /\ object \in [Handles -> [state : {"none", "opening", "open", "closed", "lost"},
                             reader : BOOLEAN,
                             rw : {"null", "Reader", "Writer", "deleted"}]]
  /\ \A t \in Threads :
       /\ thread[t].pc \in {"idle", "request", "extract", "catch", "construct", "return",
                            "stream", "unwind"}
       /\ thread[t].handle \in Handles \cup {NoHandle}
       /\ thread[t].pages \in 0 .. MaxPages
       /\ thread[t].resp \in {"null", "reply", "put"}
       /\ thread[t].refs \in 0 .. 1
  /\ crashed \in BOOLEAN

(* The void pointer of a handle is cast to the class of what it points to, *)
(* in every call and in the destructor, and that has not been deleted.     *)
CastsMatch ==
  /\ \A h \in Handles : object[h].state = "open" =>
       object[h].rw = IF object[h].reader THEN "Reader" ELSE "Writer"
  /\ \A t \in Threads : thread[t].pc = "stream" => object[thread[t].handle].state = "open"

(* Every stream belongs to a handle the program has and can close: none is *)
(* left behind by a call that failed, a close that failed included.        *)
NoStreamLost == \A h \in Streams : object[h].state = "open"

(* The configuration exists as long as the context or a stream uses it, in *)
(* whatever order they go, and no longer.                                  *)
ConfigurationShared ==
  configuration = "live" <=>
    context = "live" \/ Streams # {} \/ (configuration # "none" /\ Constructing # {})

(* When a request is over, and after every page of a listing, the replies  *)
(* it was given have been put, failures included.  The reply that starts   *)
(* an upload is the exception: nothing puts it (QingStorWriter.cpp:98-124).*)
RepliesPut ==
  \A t \in Threads :
    /\ thread[t].pc \in {"request", "construct", "return", "unwind"}
    /\ thread[t].call # "putObject"
    => thread[t].refs = 0

(* The class of which the handler of the C function finds an exception     *)
(* that was thrown for failure f, and the errno for a cause.               *)
Found(f) == IF f.again /\ IsA(f.cause, "QingStorException")
            THEN "QingStorException" ELSE f.cause

ErrnoFor(c) == CASE c = Nothing -> "0"
                 [] c = Argument -> "EINVAL"
                 [] c = "bad_alloc" -> "ENOMEM"
                 [] OTHER -> ClosestErrno(c)

(* Between two calls, errno and qingstorGetLastError describe the last     *)
(* call of the thread that asks that failed, the cancel of a reader, which *)
(* reports nothing, excepted: whatever that thread and the others have     *)
(* done since, and whatever handlers the exception went through.  The text *)
(* is that of the exception thrown first; errno is that of its class if no *)
(* handler of the library throws it again, and EINTERNAL, that of the base *)
(* class, if one does.                                                     *)
ErrorIsOwn ==
  \A t \in Threads : thread[t].pc = "idle" =>
    error[t] = [errno |-> ErrnoFor(Found(failure[t])), message |-> failure[t].cause]

(* "All APIs set errno to meaningful values" (qingstor.h:32): between two  *)
(* calls, errno is the one for what made the last call that failed fail,   *)
(* and that call has set it.                                               *)
ErrnoOfCause ==
  \A t \in Threads : thread[t].pc = "idle" =>
    ~ failure[t].stale /\ error[t].errno = ErrnoFor(failure[t].cause)

=============================================================================
