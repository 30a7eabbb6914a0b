------------------------------ MODULE CurlMulti ------------------------------
(***************************************************************************)
(* The part of libcurl's multi interface and of the object server that the *)
(* download pipeline sees (external: neither is in the repository).  One   *)
(* record per easy handle that is in the multi handle:                     *)
(*                                                                         *)
(*   kind   "none" (no handle), "asked" (request sent), "data" (a 200 or   *)
(*          206 reply is arriving), "error" (the body of any other reply)  *)
(*   next   the object byte that arrives next                              *)
(*   left   how many body bytes have not been accepted yet                 *)
(*   held   how many of them libcurl keeps because the callback answered   *)
(*          CURL_WRITEFUNC_PAUSE                                           *)
(*   msg    the CURLMSG_DONE message waiting for curl_multi_info_read      *)
(*                                                                         *)
(* Assumed of them: bodies have a Content-Length, so that a transfer that  *)
(* has all its bytes completes; a paused transfer is not read from, so     *)
(* that it neither proceeds nor breaks; a pausing callback gets the same   *)
(* bytes again when it is unpaused; the object does not change; a Range    *)
(* header that is malformed is ignored, and one that starts past the end   *)
(* is refused (RFC 7233).                                                  *)
(***************************************************************************)
EXTENDS Integers, Sequences, HTTPFetcher

CONSTANTS
  ObjectSize,     \* bytes in the object
  HonouredRange,  \* which of several Range headers counts: "first" or "last"
  ErrorBodies     \* the lengths an error reply's body may have

ASSUME CurlAssumption ==
  /\ ObjectSize \in Nat
  /\ HonouredRange \in {"first", "last"}
  /\ ErrorBodies \subseteq Nat

NoTransfer == [kind |-> "none", next |-> 0, left |-> 0, held |-> 0, msg |-> "none"]
Asked == [NoTransfer EXCEPT !.kind = "asked"]

TransferType ==
  [kind : {"none", "asked", "data", "error"}, next : Nat, left : Nat,
   held : 0 .. CurlMaxWrite, msg : {"none", "OK", "BROKEN"}]

(* The range a server reads in the request of fetcher f.                   *)
Honoured(f) == IF HonouredRange = "first" THEN f.mFirstRange ELSE f.mLastRange
WholeObject(r) == r = NoRange \/ (r.to # OpenEnd /\ r.to < r.from)
PastEnd(r) == ~ WholeObject(r) /\ r.from >= ObjectSize

FirstByte(r) == IF WholeObject(r) THEN 0 ELSE r.from
LastByte(r) ==
  IF WholeObject(r) \/ r.to = OpenEnd \/ r.to >= ObjectSize
  THEN ObjectSize - 1 ELSE r.to

DataReply(r) ==
  [NoTransfer EXCEPT !.kind = "data", !.next = FirstByte(r),
                     !.left = LastByte(r) - FirstByte(r) + 1]
ErrorReply(n) == [NoTransfer EXCEPT !.kind = "error", !.left = n]

(* The next n bytes of the body.                                           *)
Contents(x, n) ==
  [k \in 1 .. n |-> IF x.kind = "error" THEN ErrorByte ELSE x.next + k - 1]

(* Their fate: they were accepted, or are kept for later.                  *)
Passed(x, n) == [x EXCEPT !.next = @ + n, !.left = @ - n, !.held = 0]
Held(x, n) == [x EXCEPT !.held = n]

(* n more bytes can arrive; the reply is complete.                         *)
CanArrive(x, n) ==
  /\ x.kind \in {"data", "error"} /\ x.msg = "none" /\ x.held = 0
  /\ n \in 1 .. CurlMaxWrite /\ n <= x.left
IsComplete(x) ==
  x.kind \in {"data", "error"} /\ x.msg = "none" /\ x.left = 0

(* The connection can still fail.                                          *)
CanBreak(x) ==
  /\ x.kind # "none" /\ x.msg = "none" /\ x.held = 0
  /\ x.kind = "asked" \/ x.left > 0

(* What CURLINFO_RESPONSE_CODE tells of a transfer that ended: no code, a  *)
(* 200 or 206, or any other.                                               *)
ResponseCode(x) ==
  CASE x.kind = "data"  -> "206"
    [] x.kind = "error" -> "error"
    [] OTHER            -> "none"

=============================================================================
