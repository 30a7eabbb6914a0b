-------------------------- MODULE CInterface_proofs --------------------------
(***************************************************************************)
(* Safety of the C functions for any number of threads and handles: what a *)
(* handle's pointer is cast to, who owns the configuration, which replies  *)
(* have been put, and the error that a thread finds after its calls.       *)
(***************************************************************************)
EXTENDS CInterface, TLAPS

-----------------------------------------------------------------------------
(* Exceptions *)

LEMMA Ups ==
  /\ Up("exception") = "exception" /\ Up("QingStorException") = "exception"
  /\ Up("QingStorIOException") = "QingStorException"
  /\ Up("QingStorEndOfStream") = "QingStorIOException"
  /\ Up("QingStorNetworkException") = "QingStorIOException"
  /\ Up("QingStorNetworkConnectException") = "QingStorNetworkException"
  /\ Up("AccessControlException") = "QingStorException"
  /\ Up("QingStorCanceled") = "QingStorException"
  /\ Up("QingStorConfigInvalid") = "QingStorException"
  /\ Up("QingStorConfigNotFound") = "QingStorException"
  /\ Up("QingStorTimeoutException") = "QingStorException"
  /\ Up("InvalidParameter") = "QingStorException"
  /\ Up("IllegalArgumentException") = "InvalidParameter"
  /\ Up("OutOfMemoryException") = "QingStorException"
  /\ Up("bad_alloc") = "exception" /\ Up("logic_error") = "exception"
  BY DEF Up, Parent

(* handleException tries its handlers in order: each class is found by the *)
(* handler for its closest class, no handler for a base class hides that   *)
(* of a class derived from it.                                             *)
THEOREM ErrnoIsClosest == \A c \in Classes : ErrnoOf(c) = ClosestErrno(c)
<1> DEFINE first(c) ==
   CASE c = "AccessControlException" -> 1
     [] c = "QingStorCanceled" -> 2
     [] c = "QingStorConfigInvalid" -> 3
     [] c = "QingStorConfigNotFound" -> 4
     [] c = "QingStorTimeoutException" -> 5
     [] c = "IllegalArgumentException" -> 6
     [] c = "InvalidParameter" -> 7
     [] c \in {"QingStorNetworkException", "QingStorNetworkConnectException"} -> 8
     [] c \in {"QingStorIOException", "QingStorEndOfStream"} -> 9
     [] c \in {"QingStorException", "OutOfMemoryException"} -> 10
     [] OTHER -> 11
<1>1. \A c \in Classes : first(c) \in Matching(c)
  BY Ups DEF Classes, Parent, Matching, IsA, Clauses
<1>2. \A c \in Classes : \A j \in Matching(c) : first(c) <= j
  BY Ups DEF Classes, Parent, Matching, IsA, Clauses
<1>3. \A c \in Classes : \A j \in Matching(c) : IsA(Clauses[first(c)][1], Clauses[j][1])
  BY Ups DEF Classes, Parent, Matching, IsA, Clauses
<1>4. \A i, j \in 1 .. 11 :
        IsA(Clauses[i][1], Clauses[j][1]) /\ IsA(Clauses[j][1], Clauses[i][1]) => i = j
  BY Ups DEF IsA, Clauses
<1>5. SUFFICES ASSUME NEW c \in Classes PROVE ErrnoOf(c) = ClosestErrno(c)
  OBVIOUS
<1>6. Matching(c) \subseteq 1 .. 11
  BY DEF Matching, Clauses
<1>7. first(c) \in 1 .. 11
  OBVIOUS
<1> HIDE DEF first
<1>8. (CHOOSE i \in Matching(c) : \A j \in Matching(c) : i <= j) = first(c)
  <2>1. \A i \in Matching(c) : (\A j \in Matching(c) : i <= j) => i = first(c)
    BY <1>1, <1>2, <1>6
  <2> QED
    BY <1>1, <1>2, <2>1
<1>9. (CHOOSE i \in Matching(c) : \A j \in Matching(c) : IsA(Clauses[i][1], Clauses[j][1]))
        = first(c)
  <2>1. \A i \in Matching(c) :
          (\A j \in Matching(c) : IsA(Clauses[i][1], Clauses[j][1])) => i = first(c)
    BY <1>1, <1>3, <1>4, <1>6, <1>7
  <2> QED
    BY <1>1, <1>3, <2>1
<1> QED
  BY <1>8, <1>9 DEF ErrnoOf, ClosestErrno
-----------------------------------------------------------------------------
(* The inductive invariant *)

CallNames == {"none"} \cup Calls \cup Opening \cup StreamCalls

ExceptionObjects == [class : Classes, what : Classes]

Frames == [call : CallNames,
           pc : {"idle", "request", "extract", "catch", "construct", "return",
                 "stream", "unwind"},
           handle : Handles \cup {NoHandle}, pages : 0 .. MaxPages,
           resp : {"null", "reply", "put"}, refs : 0 .. 1, exc : ExceptionObjects]

(* Types, also of what TypeOK leaves open.                                 *)
Typed ==
  /\ TypeOK
  /\ thread \in [Threads -> Frames]
  /\ DOMAIN error = Threads /\ DOMAIN failure = Threads

Busy(t) == thread[t].pc # "idle"

(* Where a call can be, by its kind, and what it has taken: a call that    *)
(* opens an object or uses one has it to itself.                           *)
CallOK(t) ==
  /\ thread[t].call \in Calls =>
       /\ thread[t].pc \in {"request", "extract", "catch", "return", "unwind"}
       /\ thread[t].handle = NoHandle /\ context = "live"
  /\ thread[t].call \in Opening =>
       /\ thread[t].pc \in {"request", "extract", "catch", "construct", "unwind"}
       /\ thread[t].handle \in Handles /\ context = "live"
       /\ object[thread[t].handle].state = "opening"
  /\ thread[t].call \in StreamCalls =>
       /\ thread[t].pc \in {"stream", "unwind"}
       /\ thread[t].handle \in Handles
       /\ object[thread[t].handle].state = "open"
  /\ thread[t].call = "none" <=> thread[t].pc = "idle"
  /\ thread[t].pc = "unwind" /\ thread[t].exc.class = "QingStorEndOfStream" =>
       thread[t].call = "read"

(* The reply a call holds is the one it has not put.                       *)
ReplyOK(t) ==
  /\ thread[t].refs = 1 <=> thread[t].resp = "reply"
  /\ thread[t].pc = "extract" => thread[t].resp = "reply"
  /\ thread[t].pc = "request" => thread[t].resp # "reply" /\ thread[t].pages < MaxPages
  /\ thread[t].pc \in {"construct", "return", "stream"} /\ thread[t].call # "putObject" =>
       thread[t].resp # "reply"
  /\ thread[t].pc = "unwind" /\ thread[t].call # "putObject" =>
       thread[t].resp # "reply" \/ thread[t].exc.class \in ForeignFaults

(* One call at a time on a handle.                                         *)
Alone ==
  \A t, u \in Threads :
    /\ Busy(t) /\ Busy(u) /\ thread[t].handle \in Handles
    /\ thread[t].handle = thread[u].handle
    => t = u

(* A handle has a stream as long as it is open.                            *)
ObjectOK(h) ==
  /\ object[h].state = "open" =>
       object[h].rw = IF object[h].reader THEN "Reader" ELSE "Writer"
  /\ object[h].state = "closed" => object[h].rw = "deleted"
  /\ object[h].state \in {"none", "opening", "lost"} => object[h].rw = "null"

(* Who owns the configuration; it exists as long as somebody does.         *)
Owned ==
  /\ "context" \in owners <=> context = "live"
  /\ \A h \in Handles : h \in owners <=> h \in Streams \/ h \in Constructing
  /\ configuration = "live" <=> owners # {}
  /\ configuration = "none" <=> context = "none"
  /\ context = "none" =>
       /\ \A t \in Threads : ~ Busy(t)
       /\ \A h \in Handles : object[h].state = "none"

Failures == [cause : {Nothing, Argument} \cup Classes, again : BOOLEAN, stale : BOOLEAN]

(* What a thread finds between two calls.                                  *)
Described(t) ==
  /\ failure[t] \in Failures
  /\ error[t] = [errno |-> ErrnoFor(Found(failure[t])), message |-> failure[t].cause]

(* An exception tells of the failure it was thrown for: its text does, and *)
(* its class is the one it had, or the one that it will be found with.     *)
Tells(e, f) ==
  /\ f \in Failures
  /\ f.cause \in Classes \ {"QingStorEndOfStream"}
  /\ e.what = f.cause
  /\ e.class \in {f.cause, Found(f)}

Failing(t) ==
  thread[t].pc = "catch"
  \/ (thread[t].pc = "unwind" /\ thread[t].exc.class # "QingStorEndOfStream")

(* In a handler that throws it again the exception may still have its own  *)
(* class; where the C function finds it, no longer.                        *)
Telling(pc, e, f) ==
  /\ Tells(e, f)
  /\ IF pc = "catch" THEN f.again ELSE e.class = Found(f)

Told(t) == IF Failing(t) THEN Telling(thread[t].pc, thread[t].exc, failure[t])
           ELSE Described(t)

Calling == \A t \in Threads : CallOK(t) /\ ReplyOK(t)
Objects == \A h \in Handles : ObjectOK(h)
Errors == \A t \in Threads : Told(t)

IInv == Typed /\ Calling /\ Alone /\ Objects /\ Owned /\ Errors

LEMMA IdleIsFrame == Idle \in Frames
  BY InterfaceAssumption DEF Idle, Frames, CallNames, ExceptionObjects, Thrown, Classes, Parent

LEMMA InitIInv == Init => IInv
<1> SUFFICES ASSUME Init PROVE IInv
  OBVIOUS
<1>1. Typed
  <2>1. TypeOK
    BY InterfaceAssumption, IdleIsFrame DEF Init, TypeOK, Frames
  <2> QED
    BY <2>1, IdleIsFrame DEF Init, Typed
<1>2. Calling /\ Alone
  BY InterfaceAssumption DEF Init, Calling, CallOK, ReplyOK, Alone, Busy, Idle, Opening, StreamCalls
<1>3. Objects
  BY DEF Init, Objects, ObjectOK
<1>4. Owned
  <2>1. Streams = {} /\ Constructing = {}
    BY DEF Init, Streams, Constructing, Idle
  <2> QED
    BY <2>1 DEF Init, Owned, Busy, Idle
<1>5. Errors
  <2>1. /\ Failure(Nothing, FALSE) \in Failures
        /\ Found(Failure(Nothing, FALSE)) = Nothing
        /\ Failure(Nothing, FALSE).cause = Nothing
    BY DEF Failure, Failures, Found
  <2>2. ErrnoFor(Nothing) = "0"
    BY DEF ErrnoFor, Nothing, Argument
  <2> QED
    BY <2>1, <2>2 DEF Init, Errors, Told, Failing, Described, Idle, Nothing
<1> QED
  BY <1>1, <1>2, <1>3, <1>4, <1>5 DEF IInv

-----------------------------------------------------------------------------
(* Steps of a call that leave the objects and the configuration alone *)

LEMMA ThreadStep ==
  ASSUME Typed, NEW t \in Threads, NEW th \in Frames, Becomes(t, th)
  PROVE  /\ thread' \in [Threads -> Frames]
         /\ thread'[t] = th
         /\ \A u \in Threads \ {t} : thread'[u] = thread[u]
  BY DEF Typed, Becomes

(* A call goes on.                                                         *)
LEMMA CallGoesOn ==
  ASSUME IInv, NEW t \in Threads, NEW th \in Frames, Becomes(t, th), Busy(t),
         th.pc # "idle", th.call = thread[t].call, th.handle = thread[t].handle,
         UNCHANGED <<context, configuration, owners, object>>,
         crashed' \in BOOLEAN, error' = error,
         DOMAIN failure' = Threads,
         \A u \in Threads \ {t} : failure'[u] = failure[u],
         CallOK(t)', ReplyOK(t)', Told(t)'
  PROVE  IInv'
<1>1. /\ thread' \in [Threads -> Frames]
      /\ thread'[t] = th
      /\ \A u \in Threads \ {t} : thread'[u] = thread[u]
  BY ThreadStep DEF IInv
<1>2. Typed'
  BY <1>1 DEF IInv, Typed, TypeOK, Frames
<1>3. Calling'
  BY <1>1 DEF IInv, Calling, CallOK, ReplyOK
<1>4. Alone'
  BY <1>1 DEF IInv, Alone, Busy
<1>5. Objects'
  BY DEF IInv, Objects, ObjectOK
<1>6. Streams' = Streams /\ Constructing' = Constructing
  BY <1>1 DEF Streams, Constructing, Busy
<1>7. Owned'
  BY <1>1, <1>6 DEF IInv, Owned, Busy
<1>8. Errors'
  BY <1>1 DEF IInv, Errors, Told, Failing, Described
<1> QED
  BY <1>2, <1>3, <1>4, <1>5, <1>7, <1>8 DEF IInv

(* The classes of which a handler makes something of its own.              *)
LEMMA BaseClasses ==
  /\ \A c \in Classes : IsA(c, "bad_alloc") <=> c = "bad_alloc"
  /\ \A c \in Classes : IsA(c, "QingStorException") <=>
                           c \notin {"bad_alloc", "logic_error", "exception"}
  /\ "QingStorException" \in Classes
  BY Ups DEF IsA, Classes, Parent

LEMMA FailureFacts ==
  ASSUME NEW c \in {Nothing, Argument} \cup Classes, NEW again \in BOOLEAN
  PROVE  /\ Failure(c, again) \in Failures
         /\ Failure(c, again).cause = c /\ Failure(c, again).again = again
         /\ ~ again => Found(Failure(c, again)) = c
  BY Zenon DEF Failure, Failures, Found

LEMMA ThrownTells ==
  ASSUME NEW c \in Classes \ {"QingStorEndOfStream"}, NEW again \in BOOLEAN
  PROVE  /\ Thrown(c) \in ExceptionObjects
         /\ Tells(Thrown(c), Failure(c, again))
         /\ Thrown(c).class = c
  BY FailureFacts DEF Thrown, ExceptionObjects, Tells

(* throw e changes the class of what is known to be a QingStorException.   *)
LEMMA AgainTells ==
  ASSUME NEW e \in ExceptionObjects, NEW f, Tells(e, f), f.again
  PROVE  /\ ThrownAgain(e) \in ExceptionObjects
         /\ Tells(ThrownAgain(e), f) /\ ThrownAgain(e).class = Found(f)
<1>1. CASE IsA(f.cause, "QingStorException")
  <2>1. Found(f) = "QingStorException"
    BY <1>1 DEF Found
  <2>2. IsA(e.class, "QingStorException")
    BY <1>1, <2>1, BaseClasses DEF Tells
  <2> QED
    BY <2>1, <2>2, BaseClasses DEF ThrownAgain, ExceptionObjects, Tells
<1>2. CASE ~ IsA(f.cause, "QingStorException")
  <2>1. e.class = f.cause /\ Found(f) = f.cause
    BY <1>2 DEF Found, Tells
  <2> QED
    BY <1>2, <2>1 DEF ThrownAgain, Tells
<1> QED
  BY <1>1, <1>2

LEMMA FailsStep ==
  ASSUME Typed, NEW t \in Threads, NEW c, NEW again, Fails(t, c, again)
  PROVE  /\ DOMAIN failure' = Threads
         /\ failure'[t] = Failure(c, again)
         /\ \A u \in Threads \ {t} : failure'[u] = failure[u]
  BY DEF Typed, Fails

(* No request fails with what only the end of an object is told with.      *)
LEMMA FaultClasses ==
  /\ InitFaults \cup RequestFaults \cup ReadFaults \cup ForeignFaults
       \subseteq Classes \ {"QingStorEndOfStream"}
  /\ \A call : BadReply(call) \subseteq Classes \ {"QingStorEndOfStream"}
  /\ \A call : \A c \in BadReply(call) : IsA(c, "QingStorException")
  BY InterfaceAssumption, Ups DEF Classes, Parent, BadReply, IsA

LEMMA CallSets ==
  /\ Calls \cap Opening = {} /\ Calls \cap StreamCalls = {}
  /\ Opening \cap StreamCalls = {} /\ "none" \notin Calls \cup Opening \cup StreamCalls
  /\ Opening \subseteq Queries
  BY InterfaceAssumption DEF Opening, StreamCalls, Queries

LEMMA RequestReturnsStep ==
  ASSUME IInv, NEW t \in Threads, RequestReturns(t)
  PROVE  IInv'
<1> DEFINE th == IF thread[t].call \in Queries
                 THEN [thread[t] EXCEPT !.pc = "extract", !.resp = "reply",
                                        !.refs = @ + 1, !.pages = @ + 1]
                 ELSE [thread[t] EXCEPT !.pc = "return"]
<1>1. /\ thread[t] \in Frames /\ thread[t].pc = "request" /\ CallOK(t) /\ ReplyOK(t)
      /\ Told(t) /\ MaxPages \in Nat
  BY InterfaceAssumption DEF IInv, Typed, Calling, Errors, RequestReturns, At
<1> DEFINE f == thread[t]
<1>2. th \in Frames /\ th.pc \in {"extract", "return"}
  <2>1. f.refs + 1 \in 0 .. 1 /\ f.pages + 1 \in 0 .. MaxPages
    BY <1>1 DEF Frames, ReplyOK
  <2>2. CASE f.call \in Queries
    BY <1>1, <2>1, <2>2 DEF Frames
  <2>3. CASE f.call \notin Queries
    BY <1>1, <2>3 DEF Frames
  <2> QED
    BY <2>2, <2>3
<1>3. Becomes(t, th) /\ thread'[t] = th
  BY <1>2, ThreadStep DEF IInv, RequestReturns
<1>4. CallOK(t)'
  BY <1>1, <1>3, CallSets DEF CallOK, RequestReturns, Frames
<1>5. ReplyOK(t)'
  BY <1>1, <1>3 DEF ReplyOK, Frames
<1>6. Told(t)'
  BY <1>1, <1>3 DEF Told, Failing, Described, RequestReturns, Frames
<1>7. th.call = thread[t].call /\ th.handle = thread[t].handle
  BY <1>1 DEF Frames
<1> HIDE DEF th
<1> QED
  BY <1>1, <1>2, <1>3, <1>4, <1>5, <1>6, <1>7, CallGoesOn
  DEF RequestReturns, Busy, IInv, Typed, TypeOK

(* The call of t fails with an exception: a handler runs next.             *)
LEMMA ExceptionStep ==
  ASSUME IInv, NEW t \in Threads, Busy(t),
         NEW c \in Classes, NEW again \in BOOLEAN, Fails(t, c, again),
         NEW e \in ExceptionObjects, NEW p \in {"catch", "unwind"},
         Telling(p, e, Failure(c, again)),
         Becomes(t, [thread[t] EXCEPT !.exc = e, !.pc = p]),
         p = "catch" => thread[t].pc \in {"request", "extract"},
         p = "unwind" /\ thread[t].call # "putObject" =>
           thread[t].resp # "reply" \/ e.class \in ForeignFaults,
         UNCHANGED <<context, configuration, owners, object, error, crashed>>
  PROVE  IInv'
<1> DEFINE th == [thread[t] EXCEPT !.exc = e, !.pc = p]
<1>1. thread[t] \in Frames /\ CallOK(t) /\ ReplyOK(t)
  BY DEF IInv, Typed, Calling
<1>2. th \in Frames
  BY <1>1 DEF Frames
<1>3. Becomes(t, th) /\ thread'[t] = th
  BY <1>2, ThreadStep DEF IInv
<1>4. /\ th.call = thread[t].call /\ th.handle = thread[t].handle /\ th.pc = p
      /\ th.exc = e /\ th.resp = thread[t].resp /\ th.refs = thread[t].refs
  BY <1>1 DEF Frames
<1> HIDE DEF th
<1>10. e.class # "QingStorEndOfStream"
  BY DEF Telling, Tells, Found
<1>5. CallOK(t)'
  BY <1>1, <1>3, <1>4, <1>10, CallSets DEF CallOK, Busy
<1>6. ReplyOK(t)'
  BY <1>1, <1>3, <1>4 DEF ReplyOK
<1>7. /\ DOMAIN failure' = Threads
      /\ failure'[t] = Failure(c, again)
      /\ \A u \in Threads \ {t} : failure'[u] = failure[u]
  BY FailsStep DEF IInv
<1>8. Told(t)'
  BY <1>3, <1>4, <1>7, <1>10, FailureFacts DEF Told, Failing
<1>9. th.pc # "idle" /\ crashed' \in BOOLEAN
  BY <1>4 DEF IInv, Typed, TypeOK
<1> QED
  BY <1>2, <1>3, <1>4, <1>5, <1>6, <1>7, <1>8, <1>9, CallGoesOn

LEMMA RequestThrowsStep ==
  ASSUME IInv, NEW t \in Threads, RequestThrows(t)
  PROVE  IInv'
<1>1. PICK c \in RequestFaults : Fails(t, c, TRUE) /\ Throws(t, ThrownAgain(Thrown(c)))
  BY DEF RequestThrows
<1> DEFINE e == ThrownAgain(Thrown(c))
           f == Failure(c, TRUE)
<1>2. /\ c \in Classes /\ e \in ExceptionObjects
      /\ Tells(e, f) /\ e.class = Found(f) /\ f.again
  <2>1. Thrown(c) \in ExceptionObjects /\ Tells(Thrown(c), f) /\ f.again /\ c \in Classes
    BY ThrownTells, FailureFacts, FaultClasses
  <2> QED
    BY <2>1, AgainTells
<1>3. thread[t].pc = "request" /\ thread[t].resp # "reply"
  BY DEF IInv, Calling, ReplyOK, RequestThrows, At
<1> HIDE DEF e, f
<1>4. PICK p \in {"catch", "unwind"} : Becomes(t, [thread[t] EXCEPT !.exc = e, !.pc = p])
  BY <1>1 DEF Throws, e
<1>5. Telling(p, e, f)
  BY <1>2 DEF Telling
<1> QED
  BY <1>1, <1>2, <1>3, <1>4, <1>5, ExceptionStep DEF RequestThrows, Busy, f

LEMMA ExtractThrowsStep ==
  ASSUME IInv, NEW t \in Threads, ExtractThrows(t)
  PROVE  IInv'
<1>1. PICK c \in BadReply(thread[t].call) \cup ForeignFaults :
        Fails(t, c, TRUE) /\ Throws(t, Thrown(c))
  BY DEF ExtractThrows
<1> DEFINE e == Thrown(c)
           p == IF IsA(e.class, "QingStorException") THEN "catch" ELSE "unwind"
           f == Failure(c, TRUE)
<1>2. /\ c \in Classes /\ e \in ExceptionObjects
      /\ Tells(e, f) /\ e.class = c /\ f.again /\ f.cause = c
  BY ThrownTells, FailureFacts, FaultClasses
<1>3. thread[t].pc = "extract"
  BY DEF ExtractThrows, At
<1>4. p = "unwind" => e.class \in ForeignFaults
  BY FaultClasses DEF Thrown
<1>5. Becomes(t, [thread[t] EXCEPT !.exc = e, !.pc = p]) /\ p \in {"catch", "unwind"}
  BY <1>1 DEF Throws
<1>6. Telling(p, e, f)
  BY <1>2 DEF Telling, Found
<1> HIDE DEF e, p, f
<1> QED
  BY <1>1, <1>2, <1>3, <1>4, <1>5, <1>6, ExceptionStep DEF ExtractThrows, Busy, f

(* A reader's reply has been put; the writer keeps its.                    *)
LEMMA ConstructThrowsStep ==
  ASSUME IInv, NEW t \in Threads, ConstructThrows(t)
  PROVE  IInv'
<1>1. PICK c \in {"QingStorException", "bad_alloc"} :
        /\ Fails(t, c, FALSE)
        /\ Becomes(t, [thread[t] EXCEPT !.exc = Thrown(c), !.pc = "unwind"])
  BY DEF ConstructThrows
<1>2. /\ c \in Classes /\ Thrown(c) \in ExceptionObjects
      /\ Telling("unwind", Thrown(c), Failure(c, FALSE))
  <2>1. c \in Classes \ {"QingStorEndOfStream"}
    BY DEF Classes, Parent
  <2> QED
    BY <2>1, ThrownTells, FailureFacts DEF Telling
<1>3. /\ thread[t].pc = "construct"
      /\ thread[t].call # "putObject" => thread[t].resp # "reply"
  BY DEF IInv, Calling, ReplyOK, ConstructThrows, At
<1> QED
  BY <1>1, <1>2, <1>3, ExceptionStep DEF ConstructThrows, Busy

LEMMA StreamThrowsStep ==
  ASSUME IInv, NEW t \in Threads, StreamThrows(t)
  PROVE  IInv'
<1>1. PICK c \in StreamFaults(t) :
        /\ Fails(t, c, thread[t].call # "read")
        /\ Becomes(t, [thread[t] EXCEPT !.pc = "unwind",
                         !.exc = IF thread[t].call = "read" THEN Thrown(c)
                                 ELSE ThrownAgain(Thrown(c))])
  BY DEF StreamThrows
<1> DEFINE e == IF thread[t].call = "read" THEN Thrown(c) ELSE ThrownAgain(Thrown(c))
           again == thread[t].call # "read"
<1>2. c \in Classes /\ e \in ExceptionObjects /\ Telling("unwind", e, Failure(c, again))
  <2>1. c \in Classes \ {"QingStorEndOfStream"}
    BY FaultClasses DEF StreamFaults
  <2>2. CASE again
    <3>1. /\ Thrown(c) \in ExceptionObjects /\ Tells(Thrown(c), Failure(c, TRUE))
          /\ Failure(c, TRUE).again
      BY <2>1, ThrownTells, FailureFacts
    <3> QED
      BY <2>1, <2>2, <3>1, AgainTells DEF Telling
  <2>3. CASE ~ again
    BY <2>1, <2>3, ThrownTells, FailureFacts DEF Telling
  <2> QED
    BY <2>2, <2>3
<1>3. /\ thread[t].pc = "stream"
      /\ thread[t].call # "putObject" => thread[t].resp # "reply"
  BY DEF IInv, Calling, ReplyOK, StreamThrows, At
<1> HIDE DEF e
<1>4. Becomes(t, [thread[t] EXCEPT !.exc = e, !.pc = "unwind"])
  BY <1>1 DEF e
<1> QED
  BY <1>1, <1>2, <1>3, <1>4, ExceptionStep DEF StreamThrows, Busy, again

LEMMA StreamEndsStep ==
  ASSUME IInv, NEW t \in Threads, StreamEnds(t)
  PROVE  IInv'
<1> DEFINE e == Thrown("QingStorEndOfStream")
           th == [thread[t] EXCEPT !.pc = "unwind", !.exc = e]
<1>1. /\ thread[t] \in Frames /\ CallOK(t) /\ ReplyOK(t) /\ Told(t)
      /\ thread[t].pc = "stream" /\ thread[t].call = "read"
  BY DEF IInv, Typed, Calling, Errors, StreamEnds, At
<1>2. e \in ExceptionObjects /\ e.class = "QingStorEndOfStream"
  BY DEF Thrown, ExceptionObjects, Classes, Parent
<1> HIDE DEF e
<1>3. th \in Frames
  BY <1>1, <1>2 DEF Frames
<1>4. Becomes(t, th) /\ thread'[t] = th
  BY <1>3, ThreadStep DEF IInv, StreamEnds, e
<1>5. /\ th.call = thread[t].call /\ th.handle = thread[t].handle /\ th.pc = "unwind"
      /\ th.exc = e /\ th.resp = thread[t].resp /\ th.refs = thread[t].refs
  BY <1>1 DEF Frames
<1> HIDE DEF th
<1>6. CallOK(t)'
  BY <1>1, <1>4, <1>5, CallSets DEF CallOK, StreamEnds, StreamCalls
<1>7. ReplyOK(t)'
  BY <1>1, <1>4, <1>5 DEF ReplyOK
<1>8. Told(t)'
  BY <1>1, <1>2, <1>4, <1>5 DEF Told, Failing, Described, StreamEnds
<1> QED
  BY <1>1, <1>3, <1>4, <1>5, <1>6, <1>7, <1>8, CallGoesOn
  DEF StreamEnds, Busy, IInv, Typed, TypeOK

LEMMA ExtractedStep ==
  ASSUME IInv, NEW t \in Threads, Extracted(t)
  PROVE  IInv'
<1> DEFINE f == thread[t]
           put == IF f.call = "putObject" THEN f
                  ELSE [f EXCEPT !.resp = "put", !.refs = @ - 1]
<1>1. /\ f \in Frames /\ CallOK(t) /\ ReplyOK(t) /\ Told(t)
      /\ f.pc = "extract" /\ f.resp = "reply" /\ f.refs = 1
  BY DEF IInv, Typed, Calling, Errors, Extracted, At, ReplyOK
<1>2. /\ put \in Frames /\ put.call = f.call /\ put.handle = f.handle
      /\ put.pages = f.pages
      /\ put.refs = 1 <=> put.resp = "reply"
      /\ f.call # "putObject" => put.resp # "reply"
  <2>1. f.refs - 1 = 0
    BY <1>1
  <2>2. CASE f.call = "putObject"
    BY <1>1, <2>2
  <2>3. CASE f.call # "putObject"
    <3>1. put = [f EXCEPT !.resp = "put", !.refs = 0]
      BY <2>1, <2>3
    <3> HIDE DEF put
    <3>2. put \in Frames
      <4>1. f \in Frames /\ 0 \in 0 .. 1
        BY <1>1
      <4> HIDE DEF f
      <4> QED
        BY <3>1, <4>1 DEF Frames
    <3>3. /\ put.call = f.call /\ put.handle = f.handle /\ put.pages = f.pages
          /\ put.refs = 0 /\ put.resp = "put"
      BY <1>1, <3>1 DEF Frames
    <3> QED
      BY <3>2, <3>3
  <2> QED
    BY <2>2, <2>3
<1>3. PICK p \in {"request", "construct", "return"} :
        /\ Becomes(t, [put EXCEPT !.pc = p])
        /\ p = "request" => f.call = "listObjects" /\ f.pages < MaxPages
        /\ p = "construct" => f.call \in Opening
        /\ p = "return" => f.call \notin Opening
  BY DEF Extracted
<1> HIDE DEF put
<1> DEFINE th == [put EXCEPT !.pc = p]
<1>4. th \in Frames
  BY <1>2 DEF Frames
<1>5. Becomes(t, th) /\ thread'[t] = th
  BY <1>3, <1>4, ThreadStep DEF IInv
<1>6. /\ th.call = f.call /\ th.handle = f.handle /\ th.pc = p
      /\ th.pages = f.pages /\ th.resp = put.resp /\ th.refs = put.refs
  BY <1>2 DEF Frames
<1> HIDE DEF th
<1>7. CallOK(t)'
  BY <1>1, <1>3, <1>5, <1>6, CallSets DEF CallOK, Extracted, Frames, CallNames, Opening
<1>8. ReplyOK(t)'
  BY <1>1, <1>2, <1>3, <1>5, <1>6 DEF ReplyOK
<1>9. Told(t)'
  BY <1>1, <1>3, <1>5, <1>6 DEF Told, Failing, Described, Extracted
<1> QED
  BY <1>1, <1>4, <1>5, <1>6, <1>7, <1>8, <1>9, CallGoesOn
  DEF Extracted, Busy, IInv, Typed, TypeOK

(* The reply is put if there is one.                                       *)
LEMMA CatchStep ==
  ASSUME IInv, NEW t \in Threads, Catch(t)
  PROVE  IInv'
<1> DEFINE f == thread[t]
           e == ThrownAgain(f.exc)
           r == IF f.resp = "reply" THEN "put" ELSE f.resp
           th == [f EXCEPT !.pc = "unwind", !.exc = e, !.refs = 0, !.resp = r]
<1>1. /\ f \in Frames /\ CallOK(t) /\ ReplyOK(t) /\ f.pc = "catch"
      /\ Tells(f.exc, failure[t]) /\ failure[t].again
  BY DEF Telling, IInv, Typed, Calling, Errors, Told, Failing, Catch, At
<1>2. f.refs \in 0 .. 1 /\ f.exc \in ExceptionObjects /\ f.resp \in {"null", "reply", "put"}
  BY <1>1 DEF Frames
<1>3. (IF f.resp = "reply" THEN f.refs - 1 ELSE f.refs) = 0
  BY <1>1, <1>2 DEF ReplyOK
<1>4. Becomes(t, th) /\ crashed' \in BOOLEAN
  BY <1>3 DEF Catch, Cleanup, IInv, Typed, TypeOK
<1>5. e \in ExceptionObjects /\ Tells(e, failure[t]) /\ e.class = Found(failure[t])
  BY <1>1, <1>2, AgainTells
<1>6. r \in {"null", "put"} /\ 0 \in 0 .. 1
  BY <1>2
<1> HIDE DEF e, r
<1>7. th \in Frames
  <2>1. f \in Frames
    BY <1>1
  <2> HIDE DEF f
  <2> QED
    BY <1>5, <1>6, <2>1 DEF Frames
<1>8. thread'[t] = th
  BY <1>4, <1>7, ThreadStep DEF IInv
<1>9. /\ th.call = f.call /\ th.handle = f.handle /\ th.pc = "unwind"
      /\ th.exc = e /\ th.resp = r /\ th.refs = 0
  BY <1>1 DEF Frames
<1> HIDE DEF th
<1>13. e.class # "QingStorEndOfStream"
  BY <1>5 DEF Tells, Found
<1>10. CallOK(t)'
  BY <1>1, <1>8, <1>9, <1>13, CallSets DEF CallOK, Catch
<1>11. ReplyOK(t)'
  BY <1>6, <1>8, <1>9 DEF ReplyOK
<1>12. Told(t)'
  BY <1>1, <1>5, <1>8, <1>9, <1>13 DEF Told, Failing, Telling, Catch, Tells, Found
<1> QED
  BY <1>1, <1>4, <1>7, <1>9, <1>10, <1>11, <1>12, CallGoesOn DEF Catch, Busy, IInv, Typed

-----------------------------------------------------------------------------
(* A call begins or ends *)

LEMMA IdleOK ==
  ASSUME NEW t \in Threads, thread'[t] = Idle
  PROVE  CallOK(t)' /\ ReplyOK(t)' /\ ~ Busy(t)' /\ ~ Failing(t)'
  BY CallSets DEF Idle, CallOK, ReplyOK, Busy, Failing

(* A call that neither opens nor closes an object ends.                    *)
LEMMA CallEnds ==
  ASSUME IInv, NEW t \in Threads, Returns(t), Busy(t), thread[t].call \notin Opening,
         UNCHANGED <<context, configuration, owners, object, crashed>>,
         DOMAIN failure' = Threads, DOMAIN error' = Threads,
         \A u \in Threads \ {t} : failure'[u] = failure[u] /\ error'[u] = error[u],
         Described(t)'
  PROVE  IInv'
<1>1. /\ thread' \in [Threads -> Frames]
      /\ thread'[t] = Idle
      /\ \A u \in Threads \ {t} : thread'[u] = thread[u]
  BY ThreadStep, IdleIsFrame DEF IInv, Returns
<1>2. CallOK(t)' /\ ReplyOK(t)' /\ ~ Busy(t)' /\ ~ Failing(t)'
  BY <1>1, IdleOK
<1>3. Typed'
  BY <1>1 DEF IInv, Typed, TypeOK, Frames
<1>4. Calling'
  BY <1>1, <1>2 DEF IInv, Calling, CallOK, ReplyOK
<1>5. Alone'
  BY <1>1, <1>2 DEF IInv, Alone, Busy
<1>6. Objects'
  BY DEF IInv, Objects, ObjectOK
<1>7. Streams' = Streams /\ Constructing' = Constructing
  BY <1>1, <1>2 DEF Streams, Constructing, Busy, Opening
<1>8. Owned'
  BY <1>1, <1>2, <1>7 DEF IInv, Owned, Busy
<1>9. Errors'
  BY <1>1, <1>2 DEF IInv, Errors, Told, Failing, Described
<1> QED
  BY <1>3, <1>4, <1>5, <1>6, <1>8, <1>9 DEF IInv

(* A call on an object or none begins.                                     *)
LEMMA CallBegins ==
  ASSUME IInv, NEW t \in Threads, NEW th \in Frames, Becomes(t, th), ~ Busy(t),
         th.call \notin Opening, th.pc # "idle",
         th.handle = NoHandle \/ Free(th.handle),
         UNCHANGED <<context, configuration, owners, object, error, failure, crashed>>,
         CallOK(t)', ReplyOK(t)', ~ Failing(t)',
         context # "none"
  PROVE  IInv'
<1>1. /\ thread' \in [Threads -> Frames]
      /\ thread'[t] = th
      /\ \A u \in Threads \ {t} : thread'[u] = thread[u]
  BY ThreadStep DEF IInv
<1>2. Typed'
  BY <1>1 DEF IInv, Typed, TypeOK, Frames
<1>3. Calling'
  BY <1>1 DEF IInv, Calling, CallOK, ReplyOK
<1>4. Alone'
  BY <1>1, InterfaceAssumption DEF IInv, Alone, Busy, Free
<1>5. Objects'
  BY DEF IInv, Objects, ObjectOK
<1>6. Streams' = Streams /\ Constructing' = Constructing
  BY <1>1 DEF Streams, Constructing, Busy, Opening
<1>7. Owned'
  BY <1>1, <1>6 DEF IInv, Owned, Busy
<1>8. Errors'
  BY <1>1 DEF IInv, Errors, Told, Failing, Described, Busy
<1> QED
  BY <1>2, <1>3, <1>4, <1>5, <1>7, <1>8 DEF IInv

LEMMA BeginStep ==
  ASSUME IInv, NEW t \in Threads, NEW call \in Calls, Begin(t, call)
  PROVE  IInv'
<1> DEFINE th == [Idle EXCEPT !.call = call, !.pc = "request"]
<1>1. th \in Frames
  BY IdleIsFrame DEF Frames, CallNames
<1>2. /\ th.call = call /\ th.pc = "request" /\ th.handle = NoHandle
      /\ th.resp = "null" /\ th.refs = 0 /\ th.pages = 0
  BY DEF Idle
<1>3. Becomes(t, th) /\ thread'[t] = th
  BY <1>1, ThreadStep DEF IInv, Begin
<1> HIDE DEF th
<1>4. CallOK(t)' /\ ReplyOK(t)' /\ ~ Failing(t)'
  BY <1>2, <1>3, CallSets, InterfaceAssumption DEF CallOK, ReplyOK, Failing, Begin
<1> QED
  BY <1>1, <1>2, <1>3, <1>4, CallSets, CallBegins DEF Begin, At, Busy

LEMMA BeginStreamStep ==
  ASSUME IInv, NEW t \in Threads, NEW call \in StreamCalls, NEW h \in Handles,
         BeginStream(t, call, h)
  PROVE  IInv'
<1> DEFINE th == [Idle EXCEPT !.call = call, !.pc = "stream", !.handle = h]
<1>1. th \in Frames
  BY IdleIsFrame DEF Frames, CallNames
<1>2. /\ th.call = call /\ th.pc = "stream" /\ th.handle = h
      /\ th.resp = "null" /\ th.refs = 0 /\ th.pages = 0
  BY DEF Idle
<1>3. Becomes(t, th) /\ thread'[t] = th
  BY <1>1, ThreadStep DEF IInv, BeginStream
<1> HIDE DEF th
<1>4. CallOK(t)' /\ ReplyOK(t)' /\ ~ Failing(t)'
  BY <1>2, <1>3, CallSets, InterfaceAssumption DEF CallOK, ReplyOK, Failing, BeginStream
<1>5. context # "none"
  BY DEF IInv, Owned, BeginStream
<1> QED
  BY <1>1, <1>2, <1>3, <1>4, <1>5, CallSets, CallBegins DEF BeginStream, At, Busy

LEMMA ReportStep ==
  ASSUME Typed, NEW t \in Threads, NEW errno, NEW text, Report(t, errno, text)
  PROVE  /\ DOMAIN error' = Threads
         /\ error'[t] = [errno |-> errno, message |-> text]
         /\ \A u \in Threads \ {t} : error'[u] = error[u]
  BY DEF Typed, Report

(* What the last two handlers make of an exception describes the failure.  *)
LEMMA ExceptionDescribed ==
  ASSUME Typed, NEW t \in Threads, NEW e, NEW f, Tells(e, f), e.class = Found(f),
         ReportException(t, e), failure'[t] = f
  PROVE  Described(t)'
<1> DEFINE errno == IF IsA(e.class, "bad_alloc") THEN "ENOMEM" ELSE ErrnoOf(e.class)
<1>1. error'[t] = [errno |-> errno, message |-> f.cause]
  <2>1. Report(t, errno, e.what)
    BY DEF ReportException
  <2> HIDE DEF errno
  <2> QED
    BY <2>1, ReportStep DEF Tells
<1>2. e.class \in Classes
  BY BaseClasses DEF Tells, Found
<1>3. e.class \notin {Nothing, Argument}
  BY <1>2 DEF Nothing, Argument, Classes, Parent
<1>4. errno = ErrnoFor(e.class)
  BY <1>2, <1>3, BaseClasses, ErrnoIsClosest DEF ErrnoFor
<1> HIDE DEF errno
<1> QED
  BY <1>1, <1>4 DEF Described, Tells

LEMMA ReturnStep ==
  ASSUME IInv, NEW t \in Threads, Return(t)
  PROVE  IInv'
<1>1. thread[t].pc = "return" /\ CallOK(t) /\ Described(t)
  BY DEF IInv, Calling, Errors, Told, Failing, Return, At
<1>2. thread[t].call \notin Opening
  BY <1>1, CallSets DEF CallOK
<1>3. Described(t)'
  BY <1>1 DEF Described, Return
<1> QED
  BY <1>1, <1>2, <1>3, CallEnds DEF Return, Busy, IInv, Typed

LEMMA EndOfStreamStep ==
  ASSUME IInv, NEW t \in Threads, EndOfStream(t)
  PROVE  IInv'
<1>1. /\ thread[t].pc = "unwind" /\ thread[t].exc.class = "QingStorEndOfStream"
      /\ CallOK(t) /\ Described(t)
  BY DEF IInv, Calling, Errors, Told, Failing, EndOfStream, At
<1>2. thread[t].call \notin Opening
  BY <1>1 DEF CallOK, Opening
<1>3. Described(t)'
  BY <1>1 DEF Described, EndOfStream
<1> QED
  BY <1>1, <1>2, <1>3, CallEnds DEF EndOfStream, Busy, IInv, Typed

LEMMA CopyThrowsStep ==
  ASSUME IInv, NEW t \in Threads, CopyThrows(t)
  PROVE  IInv'
<1> DEFINE c == "OutOfMemoryException"
           f == Failure(c, FALSE)
<1>1. thread[t].pc = "return" /\ thread[t].call \notin Opening
  BY DEF CopyThrows, At, Opening
<1>2. Tells(Thrown(c), f) /\ Thrown(c).class = Found(f)
  <2>1. c \in Classes \ {"QingStorEndOfStream"}
    BY DEF Classes, Parent
  <2> QED
    BY <2>1, ThrownTells, FailureFacts
<1>3. /\ DOMAIN failure' = Threads
      /\ failure'[t] = f
      /\ \A u \in Threads \ {t} : failure'[u] = failure[u]
  BY FailsStep DEF CopyThrows, IInv
<1>4. Described(t)'
  BY <1>2, <1>3, ExceptionDescribed DEF CopyThrows, IInv
<1>5. DOMAIN error' = Threads /\ \A u \in Threads \ {t} : error'[u] = error[u]
  BY ReportStep DEF CopyThrows, ReportException, IInv
<1> QED
  BY <1>1, <1>3, <1>4, <1>5, CallEnds DEF CopyThrows, Busy

(* A step that only reports an error, between two calls of t.              *)
LEMMA IdleReports ==
  ASSUME IInv, NEW t \in Threads, ~ Busy(t),
         UNCHANGED <<context, configuration, owners, object, thread>>, crashed' \in BOOLEAN,
         DOMAIN failure' = Threads, DOMAIN error' = Threads,
         \A u \in Threads \ {t} : failure'[u] = failure[u] /\ error'[u] = error[u],
         Described(t)'
  PROVE  IInv'
<1>1. Typed'
  BY DEF IInv, Typed, TypeOK
<1>2. Calling' /\ Alone' /\ Objects'
  BY DEF IInv, Calling, CallOK, ReplyOK, Alone, Busy, Objects, ObjectOK
<1>3. Streams' = Streams /\ Constructing' = Constructing
  BY DEF Streams, Constructing
<1>4. Owned'
  BY <1>3 DEF IInv, Owned, Busy
<1>5. Errors'
  BY DEF IInv, Errors, Told, Failing, Described, Busy
<1> QED
  BY <1>1, <1>2, <1>4, <1>5 DEF IInv

LEMMA ArgumentDescribed ==
  ASSUME Typed, NEW t \in Threads, Report(t, "EINVAL", Argument),
         Fails(t, Argument, FALSE)
  PROVE  /\ DOMAIN failure' = Threads /\ DOMAIN error' = Threads
         /\ \A u \in Threads \ {t} : failure'[u] = failure[u] /\ error'[u] = error[u]
         /\ Described(t)'
<1>1. /\ DOMAIN error' = Threads
      /\ error'[t] = [errno |-> "EINVAL", message |-> Argument]
      /\ \A u \in Threads \ {t} : error'[u] = error[u]
  BY ReportStep
<1>2. /\ DOMAIN failure' = Threads
      /\ failure'[t] = Failure(Argument, FALSE)
      /\ \A u \in Threads \ {t} : failure'[u] = failure[u]
  BY FailsStep
<1>3. ErrnoFor(Argument) = "EINVAL"
  BY DEF ErrnoFor, Nothing, Argument
<1> QED
  BY <1>1, <1>2, <1>3, FailureFacts DEF Described

LEMMA BadArgumentStep ==
  ASSUME IInv, NEW t \in Threads, BadArgument(t)
  PROVE  IInv'
  BY IdleReports, ArgumentDescribed DEF BadArgument, At, Busy, IInv, Typed, TypeOK

LEMMA WrongKindStep ==
  ASSUME IInv, NEW t \in Threads, NEW call, NEW h, WrongKind(t, call, h)
  PROVE  IInv'
  BY IdleReports, ArgumentDescribed DEF WrongKind, At, Busy, IInv, Typed, TypeOK

(* The error of the failure before is still the one the thread finds.      *)
LEMMA CancelReaderStep ==
  ASSUME IInv, NEW t \in Threads, NEW h, CancelReader(t, h)
  PROVE  IInv'
<1>1. /\ Described(t) /\ DOMAIN failure = Threads
      /\ DOMAIN error = Threads /\ ~ Busy(t) /\ crashed \in BOOLEAN
  BY DEF IInv, Errors, Told, Failing, CancelReader, At, Busy, Typed, TypeOK
<1> DEFINE f == [failure[t] EXCEPT !.stale = TRUE]
<1>2. f \in Failures /\ f.cause = failure[t].cause /\ Found(f) = Found(failure[t])
  BY <1>1 DEF Described, Failures, Found
<1>3. /\ DOMAIN failure' = Threads /\ failure'[t] = f
      /\ \A u \in Threads \ {t} : failure'[u] = failure[u]
  BY <1>1 DEF CancelReader
<1> HIDE DEF f
<1>4. Described(t)'
  BY <1>1, <1>2, <1>3 DEF Described, CancelReader
<1> QED
  BY <1>1, <1>2, <1>3, <1>4, IdleReports DEF CancelReader

LEMMA InitContextThrowsStep ==
  ASSUME IInv, NEW t \in Threads, InitContextThrows(t)
  PROVE  IInv'
<1>1. PICK c \in InitFaults : Fails(t, c, FALSE) /\ ReportException(t, Thrown(c))
  BY DEF InitContextThrows
<1> DEFINE f == Failure(c, FALSE)
<1>2. Tells(Thrown(c), f) /\ Thrown(c).class = Found(f)
  BY ThrownTells, FailureFacts, FaultClasses
<1>3. /\ DOMAIN failure' = Threads
      /\ failure'[t] = f
      /\ \A u \in Threads \ {t} : failure'[u] = failure[u]
  BY <1>1, FailsStep DEF IInv
<1>4. Described(t)'
  BY <1>1, <1>2, <1>3, ExceptionDescribed DEF IInv
<1>5. DOMAIN error' = Threads /\ \A u \in Threads \ {t} : error'[u] = error[u]
  BY <1>1, ReportStep DEF ReportException, IInv
<1> QED
  BY <1>3, <1>4, <1>5, IdleReports DEF InitContextThrows, At, Busy

-----------------------------------------------------------------------------
(* Steps that change who owns the configuration *)

LEMMA InitContextStep ==
  ASSUME IInv, NEW t \in Threads, InitContext(t)
  PROVE  IInv'
<1>1. Typed'
  BY DEF IInv, Typed, TypeOK, InitContext
<1>2. Calling'
  BY DEF IInv, Calling, CallOK, ReplyOK, InitContext
<1>3. Alone' /\ Objects' /\ Errors'
  BY DEF IInv, Alone, Busy, Objects, ObjectOK, Errors, Told, Failing, Described, InitContext
<1>4. Owned'
  <2>1. Streams' = {} /\ Constructing' = {}
    BY DEF IInv, Owned, Busy, Objects, ObjectOK, Streams, Constructing, InitContext
  <2> QED
    BY <2>1, InterfaceAssumption DEF IInv, Owned, InitContext
<1> QED
  BY <1>1, <1>2, <1>3, <1>4 DEF IInv

LEMMA DestroyContextStep ==
  ASSUME IInv, NEW t \in Threads, DestroyContext(t)
  PROVE  IInv'
<1>1. Typed'
  BY DEF IInv, Typed, TypeOK, DestroyContext, Drop
<1>2. Calling'
  BY CallSets DEF IInv, Calling, CallOK, ReplyOK, DestroyContext
<1>3. Alone' /\ Objects' /\ Errors'
  BY DEF IInv, Alone, Busy, Objects, ObjectOK, Errors, Told, Failing, Described, DestroyContext
<1>4. Owned'
  <2>1. Streams' = Streams /\ Constructing' = Constructing
    BY DEF Streams, Constructing, DestroyContext
  <2> QED
    BY <2>1, InterfaceAssumption DEF IInv, Owned, DestroyContext, Drop
<1> QED
  BY <1>1, <1>2, <1>3, <1>4 DEF IInv

-----------------------------------------------------------------------------
(* Steps that change an object *)

Wrappers == [state : {"none", "opening", "open", "closed", "lost"},
             reader : BOOLEAN,
             rw : {"null", "Reader", "Writer", "deleted"}]

(* An object that a call is busy with is being opened or open.             *)
LEMMA HandleState ==
  ASSUME IInv, NEW u \in Threads, Busy(u), thread[u].handle \in Handles
  PROVE  \/ /\ thread[u].call \in Opening /\ context = "live"
            /\ object[thread[u].handle].state = "opening"
         \/ thread[u].call \in StreamCalls /\ object[thread[u].handle].state = "open"
<1>1. thread[u] \in Frames /\ CallOK(u)
  BY DEF IInv, Typed, Calling
<1>2. thread[u].call \in Calls \cup Opening \cup StreamCalls
  BY <1>1 DEF CallOK, Busy, Frames, CallNames
<1>3. thread[u].call \notin Calls
  BY <1>1, InterfaceAssumption DEF CallOK
<1> QED
  BY <1>1, <1>2, <1>3 DEF CallOK

(* What an object's own call does to it does not concern the others.       *)
LEMMA ObjectStep ==
  ASSUME IInv, NEW t \in Threads, NEW h \in Handles,
         thread' \in [Threads -> Frames],
         \A u \in Threads \ {t} :
           /\ thread'[u] = thread[u]
           /\ Busy(u) => thread[u].handle # h
           /\ failure'[u] = failure[u] /\ error'[u] = error[u],
         ~ Busy(t)' \/ thread'[t].handle = h,
         DOMAIN failure' = Threads, DOMAIN error' = Threads,
         object' \in [Handles -> Wrappers],
         \A g \in Handles \ {h} : object'[g] = object[g],
         configuration' \in {"none", "live", "freed"},
         owners' \subseteq Handles \cup {"context"},
         UNCHANGED <<context, crashed>>,
         CallOK(t)', ReplyOK(t)', Told(t)', ObjectOK(h)', Owned'
  PROVE  IInv'
<1>2. Typed'
  BY DEF IInv, Typed, TypeOK, Frames, Wrappers
<1>3. \A u \in Threads \ {t} : CallOK(u)' /\ ReplyOK(u)' /\ Told(u)'
  <2> SUFFICES ASSUME NEW u \in Threads \ {t}
               PROVE  CallOK(u)' /\ ReplyOK(u)' /\ Told(u)'
    OBVIOUS
  <2>1. CallOK(u) /\ ReplyOK(u) /\ Told(u) /\ thread[u] \in Frames
    BY DEF IInv, Calling, Errors, Typed
  <2>2. CallOK(u)'
    BY <2>1, CallSets DEF CallOK, Busy
  <2>3. ReplyOK(u)' /\ Told(u)'
    BY <2>1 DEF ReplyOK, Told, Failing, Described
  <2> QED
    BY <2>2, <2>3
<1>4. Calling' /\ Errors'
  BY <1>3 DEF Calling, Errors
<1>5. Alone'
  BY DEF IInv, Alone, Busy
<1>6. Objects'
  BY DEF IInv, Objects, ObjectOK
<1> QED
  BY <1>2, <1>4, <1>5, <1>6 DEF IInv

LEMMA BeginOpeningStep ==
  ASSUME IInv, NEW t \in Threads, NEW call \in Opening, NEW h \in Handles,
         BeginOpening(t, call, h)
  PROVE  IInv'
<1> DEFINE th == [Idle EXCEPT !.call = call, !.pc = "request", !.handle = h]
<1>1. th \in Frames
  BY IdleIsFrame DEF Frames, CallNames
<1>2. /\ th.call = call /\ th.pc = "request" /\ th.handle = h
      /\ th.resp = "null" /\ th.refs = 0 /\ th.pages = 0
  BY DEF Idle
<1>3. /\ thread' \in [Threads -> Frames]
      /\ thread'[t] = th
      /\ \A u \in Threads \ {t} : thread'[u] = thread[u]
  BY <1>1, ThreadStep DEF IInv, BeginOpening
<1> HIDE DEF th
<1>4. object[h] \in Wrappers /\ object[h].state = "none" /\ object[h].rw = "null"
  BY DEF IInv, Typed, TypeOK, Wrappers, Objects, ObjectOK, BeginOpening
<1>5. /\ object' \in [Handles -> Wrappers]
      /\ \A g \in Handles \ {h} : object'[g] = object[g]
      /\ object'[h].state = "opening" /\ object'[h].rw = "null"
  BY <1>4 DEF IInv, Typed, TypeOK, Wrappers, BeginOpening
<1>6. \A u \in Threads : Busy(u) => thread[u].handle # h
  BY <1>4, HandleState
<1>7. CallOK(t)' /\ ReplyOK(t)' /\ Told(t)'
  <2>1. Described(t) /\ MaxPages > 0
    BY InterfaceAssumption DEF IInv, Errors, Told, Failing, BeginOpening, At
  <2> QED
    BY <1>2, <1>3, <1>5, <2>1, CallSets
    DEF CallOK, ReplyOK, Told, Failing, Described, BeginOpening
<1>8. ObjectOK(h)'
  BY <1>5 DEF ObjectOK
<1>9. Owned'
  <2>1. Streams' = Streams
    BY <1>4, <1>5 DEF Streams
  <2>2. Constructing' = IF call = "putObject" THEN Constructing \cup {h} ELSE Constructing
    BY <1>2, <1>3 DEF Constructing, BeginOpening, At
  <2> QED
    BY <2>1, <2>2, InterfaceAssumption DEF IInv, Owned, BeginOpening
<1> QED
  BY <1>2, <1>3, <1>5, <1>6, <1>7, <1>8, <1>9, ObjectStep
  DEF BeginOpening, IInv, Typed, TypeOK

LEMMA ConstructStep ==
  ASSUME IInv, NEW t \in Threads, Construct(t)
  PROVE  IInv'
<1>0. /\ thread[t] \in Frames /\ CallOK(t) /\ Told(t) /\ thread[t].pc = "construct"
      /\ thread[t].call \in Opening /\ thread[t].handle \in Handles
  <2>1. /\ thread[t] \in Frames /\ CallOK(t) /\ Told(t) /\ thread[t].pc = "construct"
    BY DEF IInv, Typed, Calling, Errors, Construct, At
  <2> QED
    BY <2>1 DEF CallOK, Frames, CallNames
<1> PICK h \in Handles : h = thread[t].handle
  BY <1>0
<1> PICK rw \in {"Reader", "Writer"} :
         rw = IF thread[t].call = "getObject" THEN "Reader" ELSE "Writer"
  OBVIOUS
<1>1. /\ thread' \in [Threads -> Frames]
      /\ thread'[t] = Idle
      /\ \A u \in Threads \ {t} : thread'[u] = thread[u]
  BY ThreadStep, IdleIsFrame DEF IInv, Returns, Construct
<1>2. CallOK(t)' /\ ReplyOK(t)' /\ ~ Busy(t)' /\ ~ Failing(t)'
  BY <1>1, IdleOK
<1>3. /\ thread[t].pc = "construct" /\ thread[t].call \in Opening /\ h \in Handles
      /\ context = "live" /\ object[h].state = "opening" /\ object[h].rw = "null"
      /\ Described(t)
  BY <1>0 DEF CallOK, Told, Failing, IInv, Objects, ObjectOK
<1>4. /\ object' \in [Handles -> Wrappers]
      /\ \A g \in Handles \ {h} : object'[g] = object[g]
      /\ object'[h] = [state |-> "open", reader |-> rw = "Reader", rw |-> rw]
  BY <1>3 DEF IInv, Typed, TypeOK, Wrappers, Construct, Opened
<1>5. \A u \in Threads \ {t} : Busy(u) => thread[u].handle # h
  BY <1>3 DEF IInv, Alone, Busy
<1>6. Told(t)'
  BY <1>2, <1>3 DEF Told, Described, Construct
<1>9. ObjectOK(h)'
  <2>1. object'[h].state = "open" /\ object'[h].rw = rw
    BY <1>4
  <2>2. rw = IF object'[h].reader THEN "Reader" ELSE "Writer"
    <3>1. CASE rw = "Reader"
      <4>1. object'[h] = [state |-> "open", reader |-> TRUE, rw |-> rw]
        BY <1>4, <3>1, Zenon
      <4> QED
        BY <3>1, <4>1
    <3>2. CASE rw = "Writer"
      <4>1. (rw = "Reader") = FALSE
        BY <3>2
      <4>2. object'[h] = [state |-> "open", reader |-> FALSE, rw |-> rw]
        BY <1>4, <4>1, Zenon
      <4> QED
        BY <3>2, <4>2
    <3> QED
      BY <3>1, <3>2
  <2> QED
    BY <2>1, <2>2 DEF ObjectOK
<1>7. Owned'
  <2>1. Streams' = Streams \cup {h}
    BY <1>3, <1>4 DEF Streams
  <2>2. Constructing' = Constructing \ {h}
    BY <1>1, <1>2, <1>3, <1>5 DEF Constructing, Busy
  <2>3. owners' = owners \cup {h} /\ configuration = "live"
    BY <1>3 DEF Construct, IInv, Owned
  <2> QED
    BY <1>3, <2>1, <2>2, <2>3, InterfaceAssumption DEF IInv, Owned, Construct
<1>8. owners' \subseteq Handles \cup {"context"}
  BY <1>3 DEF Construct, IInv, Typed, TypeOK
<1>10. /\ DOMAIN failure' = Threads /\ DOMAIN error' = Threads
       /\ \A u \in Threads : failure'[u] = failure[u] /\ error'[u] = error[u]
       /\ configuration' \in {"none", "live", "freed"} /\ UNCHANGED <<context, crashed>>
  BY DEF Construct, IInv, Typed, TypeOK
<1> QED
  BY <1>1, <1>2, <1>3, <1>4, <1>5, <1>6, <1>7, <1>8, <1>9, <1>10, ObjectStep

(* A call that has its object to itself ends: the object is closed.        *)
LEMMA DeleteStep ==
  ASSUME IInv, NEW t \in Threads, Returns(t), thread[t].call \in StreamCalls,
         NEW h \in Handles, h = thread[t].handle, Delete(h),
         UNCHANGED <<context, crashed>>,
         DOMAIN failure' = Threads, DOMAIN error' = Threads,
         \A u \in Threads \ {t} : failure'[u] = failure[u] /\ error'[u] = error[u],
         Described(t)'
  PROVE  IInv'
<1>1. /\ thread' \in [Threads -> Frames]
      /\ thread'[t] = Idle
      /\ \A u \in Threads \ {t} : thread'[u] = thread[u]
  BY ThreadStep, IdleIsFrame DEF IInv, Returns
<1>2. CallOK(t)' /\ ReplyOK(t)' /\ ~ Busy(t)' /\ ~ Failing(t)'
  BY <1>1, IdleOK
<1>3. /\ Busy(t) /\ object[h].state = "open" /\ object[h] \in Wrappers
      /\ h \in Streams /\ thread[t].call # "putObject"
  <2>1. CallOK(t) /\ ObjectOK(h) /\ object[h] \in Wrappers
    BY DEF IInv, Calling, Objects, Typed, TypeOK, Wrappers
  <2> QED
    BY <2>1, CallSets DEF CallOK, Busy, ObjectOK, Streams, Opening
<1>4. /\ object' \in [Handles -> Wrappers]
      /\ \A g \in Handles \ {h} : object'[g] = object[g]
      /\ object'[h].state = "closed" /\ object'[h].rw = "deleted"
  BY <1>3 DEF IInv, Typed, TypeOK, Wrappers, Delete
<1>5. \A u \in Threads \ {t} : Busy(u) => thread[u].handle # h
  BY <1>3 DEF IInv, Alone
<1>6. Told(t)' /\ ObjectOK(h)'
  BY <1>2, <1>4 DEF Told, ObjectOK
<1>7. Owned'
  <2>1. Streams' = Streams \ {h}
    BY <1>4 DEF Streams
  <2>2. Constructing' = Constructing /\ h \notin Constructing
    BY <1>1, <1>2, <1>3, <1>5 DEF Constructing, Busy
  <2>3. owners' = owners \ {h} /\ configuration = "live" /\ h \in owners
    BY <1>3 DEF Delete, Drop, IInv, Owned
  <2>4. context # "none" /\ h # "context"
    BY <1>3, InterfaceAssumption DEF IInv, Owned
  <2> QED
    BY <2>1, <2>2, <2>3, <2>4 DEF IInv, Owned, Delete, Drop
<1>8. /\ owners' \subseteq Handles \cup {"context"}
      /\ configuration' \in {"none", "live", "freed"}
  BY DEF Delete, Drop, IInv, Typed, TypeOK
<1> QED
  BY <1>1, <1>2, <1>4, <1>5, <1>6, <1>7, <1>8, ObjectStep

LEMMA StreamReturnsStep ==
  ASSUME IInv, NEW t \in Threads, StreamReturns(t)
  PROVE  IInv'
<1>1. /\ thread[t].pc = "stream" /\ Described(t)
      /\ thread[t].call \in StreamCalls /\ thread[t].handle \in Handles
  <2>1. thread[t] \in Frames /\ CallOK(t) /\ Told(t) /\ thread[t].pc = "stream"
    BY DEF IInv, Typed, Calling, Errors, StreamReturns, At
  <2> QED
    BY <2>1 DEF CallOK, Told, Failing, Frames, CallNames
<1>2. /\ Described(t)' /\ DOMAIN failure' = Threads /\ DOMAIN error' = Threads
      /\ \A u \in Threads : failure'[u] = failure[u] /\ error'[u] = error[u]
  BY <1>1 DEF Described, StreamReturns, IInv, Typed
<1>3. CASE thread[t].call = "close"
  BY <1>1, <1>2, <1>3, DeleteStep DEF StreamReturns
<1>4. CASE thread[t].call # "close"
  <2>1. thread[t].call \notin Opening
    BY <1>1, CallSets
  <2> QED
    BY <1>1, <1>2, <1>4, <2>1, CallEnds DEF StreamReturns, Busy
<1> QED
  BY <1>3, <1>4

(* The wrapper of an object that could not be opened is lost; a writer     *)
(* under construction gives up its share of the configuration.             *)
LEMMA LoseStep ==
  ASSUME IInv, NEW t \in Threads, Returns(t), thread[t].call \in Opening, Busy(t),
         NEW h \in Handles, h = thread[t].handle,
         object' = [object EXCEPT ![h].state = "lost"],
         IF thread[t].call = "putObject" THEN Drop(h)
         ELSE UNCHANGED <<owners, configuration>>,
         UNCHANGED <<context, crashed>>,
         DOMAIN failure' = Threads, DOMAIN error' = Threads,
         \A u \in Threads \ {t} : failure'[u] = failure[u] /\ error'[u] = error[u],
         Described(t)'
  PROVE  IInv'
<1>1. /\ thread' \in [Threads -> Frames]
      /\ thread'[t] = Idle
      /\ \A u \in Threads \ {t} : thread'[u] = thread[u]
  BY ThreadStep, IdleIsFrame DEF IInv, Returns
<1>2. CallOK(t)' /\ ReplyOK(t)' /\ ~ Busy(t)' /\ ~ Failing(t)'
  BY <1>1, IdleOK
<1>3. /\ context = "live" /\ object[h].state = "opening" /\ object[h].rw = "null"
      /\ object[h] \in Wrappers
  BY DEF IInv, Calling, CallOK, Objects, ObjectOK, Typed, TypeOK, Wrappers
<1>4. /\ object' \in [Handles -> Wrappers]
      /\ \A g \in Handles \ {h} : object'[g] = object[g]
      /\ object'[h].state = "lost" /\ object'[h].rw = "null"
  BY <1>3 DEF IInv, Typed, TypeOK, Wrappers
<1>5. \A u \in Threads \ {t} : Busy(u) => thread[u].handle # h
  BY DEF IInv, Alone
<1>6. Told(t)' /\ ObjectOK(h)'
  BY <1>2, <1>4 DEF Told, ObjectOK
<1>7. Owned'
  <2>1. Streams' = Streams /\ h \notin Streams
    BY <1>3, <1>4 DEF Streams
  <2>2. Constructing' = Constructing \ {h}
    BY <1>1, <1>2, <1>5 DEF Constructing, Busy
  <2>3. h \in Constructing <=> thread[t].call = "putObject"
    BY <1>5 DEF Constructing, Busy
  <2>4. "context" \in owners' /\ configuration' = "live"
    BY <1>3, InterfaceAssumption DEF Drop, IInv, Owned
  <2> QED
    BY <1>3, <2>1, <2>2, <2>3, <2>4 DEF IInv, Owned, Drop
<1>8. /\ owners' \subseteq Handles \cup {"context"}
      /\ configuration' \in {"none", "live", "freed"}
  BY DEF Drop, IInv, Typed, TypeOK
<1> QED
  BY <1>1, <1>2, <1>4, <1>5, <1>6, <1>7, <1>8, ObjectStep

LEMMA UnwindStep ==
  ASSUME IInv, NEW t \in Threads, Unwind(t)
  PROVE  IInv'
<1>1. /\ thread[t].pc = "unwind" /\ Tells(thread[t].exc, failure[t])
      /\ thread[t].exc.class = Found(failure[t])
  BY DEF Telling, IInv, Errors, Told, Failing, Unwind, At
<1>2. Described(t)'
  BY <1>1, ExceptionDescribed DEF Unwind, IInv
<1>3. /\ DOMAIN failure' = Threads /\ DOMAIN error' = Threads
      /\ \A u \in Threads \ {t} : failure'[u] = failure[u] /\ error'[u] = error[u]
  BY ReportStep DEF Unwind, ReportException, IInv, Typed
<1>4. CASE thread[t].call \in Opening
  <2>1. PICK h \in Handles : h = thread[t].handle
    BY <1>4 DEF IInv, Calling, CallOK
  <2>2. /\ object' = [object EXCEPT ![h].state = "lost"]
        /\ IF thread[t].call = "putObject" THEN Drop(h)
           ELSE UNCHANGED <<owners, configuration>>
    BY <1>4, <2>1 DEF Unwind, Abandon, Opening
  <2> QED
    BY <1>1, <1>2, <1>3, <1>4, <2>1, <2>2, LoseStep DEF Unwind, Busy
<1>5. CASE thread[t].call = "close"
  <2>1. PICK h \in Handles : h = thread[t].handle
    BY <1>5 DEF IInv, Calling, CallOK, StreamCalls
  <2>2. Delete(h) /\ thread[t].call \in StreamCalls
    BY <1>5, <2>1 DEF Unwind, Abandon, StreamCalls
  <2> QED
    BY <1>2, <1>3, <2>1, <2>2, DeleteStep DEF Unwind
<1>6. CASE thread[t].call \notin Opening \cup {"close"}
  <2>1. UNCHANGED <<object, owners, configuration>>
    BY <1>6 DEF Unwind, Abandon, Opening
  <2> QED
    BY <1>1, <1>2, <1>3, <1>6, <2>1, CallEnds DEF Unwind, Busy
<1> QED
  BY <1>4, <1>5, <1>6

-----------------------------------------------------------------------------

LEMMA NextIInv == IInv /\ [Next]_vars => IInv'
<1> SUFFICES ASSUME IInv, [Next]_vars PROVE IInv'
  OBVIOUS
<1>1. CASE \E t \in Threads : Step(t)
  <2>1. PICK t \in Threads : Step(t)
    BY <1>1
  <2>2. CASE InitContext(t) \/ InitContextThrows(t) \/ DestroyContext(t) \/ BadArgument(t)
    BY <2>2, InitContextStep, InitContextThrowsStep, DestroyContextStep, BadArgumentStep
  <2>3. CASE \E call \in Calls : Begin(t, call)
    BY <2>3, BeginStep
  <2>4. CASE \E call \in Opening, h \in Handles : BeginOpening(t, call, h)
    BY <2>4, BeginOpeningStep
  <2>5. CASE RequestReturns(t) \/ RequestThrows(t) \/ Extracted(t) \/ ExtractThrows(t) \/ Catch(t)
    BY <2>5, RequestReturnsStep, RequestThrowsStep, ExtractedStep, ExtractThrowsStep, CatchStep
  <2>6. CASE Construct(t) \/ ConstructThrows(t) \/ Return(t) \/ CopyThrows(t)
    BY <2>6, ConstructStep, ConstructThrowsStep, ReturnStep, CopyThrowsStep
  <2>7. CASE \E call \in StreamCalls, h \in Handles :
               BeginStream(t, call, h) \/ WrongKind(t, call, h)
    BY <2>7, BeginStreamStep, WrongKindStep
  <2>8. CASE StreamReturns(t) \/ StreamThrows(t) \/ StreamEnds(t)
    BY <2>8, StreamReturnsStep, StreamThrowsStep, StreamEndsStep
  <2>9. CASE Unwind(t) \/ EndOfStream(t)
    BY <2>9, UnwindStep, EndOfStreamStep
  <2>10. CASE \E h \in Handles : CancelReader(t, h)
    BY <2>10, CancelReaderStep
  <2> QED
    BY <2>1, <2>2, <2>3, <2>4, <2>5, <2>6, <2>7, <2>8, <2>9, <2>10 DEF Step
<1>2. CASE UNCHANGED vars
  <2>1. Typed' /\ Calling' /\ Alone' /\ Objects'
    BY <1>2 DEF vars, IInv, Typed, TypeOK, Calling, CallOK, ReplyOK, Alone, Busy,
                Objects, ObjectOK
  <2>2. Owned'
    BY <1>2 DEF vars, IInv, Owned, Busy, Streams, Constructing
  <2>3. Errors'
    BY <1>2 DEF vars, IInv, Errors, Told, Failing, Described
  <2> QED
    BY <2>1, <2>2, <2>3 DEF IInv
<1> QED
  BY <1>1, <1>2 DEF Next, Stopped

LEMMA Safety == Spec => []IInv
  BY InitIInv, NextIInv, PTL DEF Spec

(* The variables keep their types; a call never holds two replies.         *)
THEOREM InterfaceTypeOK == Spec => []TypeOK
  BY Safety, PTL DEF IInv, Typed

(* The static_casts of qingstorRead, qingstorWrite, qingstorCancel and of  *)
(* the destructor find the class that setReader announced, not deleted:    *)
(* no other thread closes the object of a call.                            *)
THEOREM InterfaceCastsMatch == Spec => []CastsMatch
<1>1. IInv => CastsMatch
  <2> SUFFICES ASSUME IInv PROVE CastsMatch
    OBVIOUS
  <2>1. \A t \in Threads : thread[t].pc = "stream" => thread[t].call \in StreamCalls
    BY DEF IInv, Typed, Frames, CallNames, Calling, CallOK
  <2> QED
    BY <2>1 DEF IInv, Calling, CallOK, Objects, ObjectOK, CastsMatch
<1> QED
  BY <1>1, Safety, PTL

(* No stream is left without a handle by a failure of qingstorGetObject,   *)
(* qingstorPutObject or qingstorCloseObject.                               *)
THEOREM InterfaceNoStreamLost == Spec => []NoStreamLost
<1>1. IInv => NoStreamLost
  BY DEF IInv, Typed, TypeOK, Objects, ObjectOK, NoStreamLost, Streams
<1> QED
  BY <1>1, Safety, PTL

(* The shared_ptrs keep the configuration for exactly as long as the       *)
(* context or a stream is there, in whatever order they are destroyed.     *)
THEOREM InterfaceConfigurationShared == Spec => []ConfigurationShared
<1>1. IInv => ConfigurationShared
  <2> SUFFICES ASSUME IInv PROVE ConfigurationShared
    OBVIOUS
  <2>1. owners # {} <=> context = "live" \/ Streams # {} \/ Constructing # {}
    BY DEF IInv, Typed, TypeOK, Owned, Streams, Constructing
  <2>2. configuration = "live" <=> owners # {}
    BY DEF IInv, Owned
  <2>3. configuration = "none" => owners = {}
    BY <2>2
  <2> QED
    BY <2>1, <2>2, <2>3 DEF ConfigurationShared
<1> QED
  BY <1>1, Safety, PTL

(* The replies of RepliesPut, when the C++ library itself may throw while  *)
(* a reply is read: the handlers of Context.cpp catch QingStorException    *)
(* alone.                                                                  *)
RepliesPutUnlessForeign ==
  \A t \in Threads :
    /\ thread[t].pc \in {"request", "construct", "return", "unwind"}
    /\ thread[t].call # "putObject"
    => \/ thread[t].refs = 0
       \/ thread[t].pc = "unwind" /\ thread[t].exc.class \in ForeignFaults

(* Only an exception that is not the library's own leaves a reply that     *)
(* nothing puts.                                                           *)
THEOREM InterfaceRepliesPutUnlessForeign == Spec => []RepliesPutUnlessForeign
<1>1. IInv => RepliesPutUnlessForeign
  <2> SUFFICES ASSUME IInv, NEW t \in Threads,
                      thread[t].pc \in {"request", "construct", "return", "unwind"},
                      thread[t].call # "putObject"
               PROVE  \/ thread[t].refs = 0
                      \/ thread[t].pc = "unwind" /\ thread[t].exc.class \in ForeignFaults
    BY DEF RepliesPutUnlessForeign
  <2>1. ReplyOK(t) /\ thread[t].refs \in 0 .. 1
    BY DEF IInv, Calling, Typed, TypeOK
  <2> QED
    BY <2>1 DEF ReplyOK
<1> QED
  BY <1>1, Safety, PTL

(* If the C++ library does not throw, every reply is put, failures of the  *)
(* request, of a later page and of the extraction included.                *)
THEOREM InterfaceRepliesPut ==
  ASSUME ForeignFaults = {} PROVE Spec => []RepliesPut
<1>1. RepliesPutUnlessForeign => RepliesPut
  BY DEF RepliesPutUnlessForeign, RepliesPut
<1> QED
  BY <1>1, InterfaceRepliesPutUnlessForeign, PTL

(* Between two calls a thread finds the error of its own last call that    *)
(* failed and reported it (all do but the cancel of a reader), with the    *)
(* text of the exception that was thrown first, and the errno of its class *)
(* or, when a handler of the library has thrown it again, EINTERNAL.       *)
THEOREM InterfaceErrorIsOwn == Spec => []ErrorIsOwn
<1>1. IInv => ErrorIsOwn
  BY DEF IInv, Errors, Told, Failing, Described, ErrorIsOwn
<1> QED
  BY <1>1, Safety, PTL

=============================================================================
