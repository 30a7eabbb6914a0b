----------------------------- MODULE Exceptions -----------------------------
(***************************************************************************)
(* The exceptions of the library, what is left of them when a handler      *)
(* throws them again, and the errno that handleException gives them.       *)
(*                                                                         *)
(* An exception object has the class it was made with, and the text that   *)
(* what() returns, represented by the class the text begins with.          *)
(***************************************************************************)
EXTENDS Integers, Sequences

(* The class each class is derived from; "exception" is std::exception.    *)
Parent ==
  [ QingStorException               |-> "exception",
    QingStorIOException             |-> "QingStorException",
    QingStorEndOfStream             |-> "QingStorIOException",
    QingStorNetworkException        |-> "QingStorIOException",
    QingStorNetworkConnectException |-> "QingStorNetworkException",
    AccessControlException          |-> "QingStorException",
    QingStorCanceled                |-> "QingStorException",
    QingStorConfigInvalid           |-> "QingStorException",
    QingStorConfigNotFound          |-> "QingStorException",
    QingStorTimeoutException        |-> "QingStorException",
    InvalidParameter                |-> "QingStorException",
    IllegalArgumentException        |-> "InvalidParameter",
    OutOfMemoryException            |-> "QingStorException",
    bad_alloc                       |-> "exception",
    logic_error                     |-> "exception" ]

Classes == DOMAIN Parent \cup {"exception"}

(* The next class up; std::exception has none.                             *)
Up(c) == IF c \in DOMAIN Parent THEN Parent[c] ELSE "exception"

(* A handler for class d catches an exception of class c.                  *)
IsA(c, d) == d \in {c, Up(c), Up(Up(c)), Up(Up(Up(c))), Up(Up(Up(Up(c))))}

(* THROW.                                                                  *)
Thrown(c) == [class |-> c, what |-> c]

(* catch (QingStorException & e) { throw e; }: the new object is a copy of *)
(* the part of e that the handler names; its text goes with it.            *)
ThrownAgain(e) == IF IsA(e.class, "QingStorException")
                  THEN [e EXCEPT !.class = "QingStorException"] ELSE e

(* The handlers of handleException, in the order they are tried.           *)
Clauses ==
  << <<"AccessControlException", "EACCES">>,
     <<"QingStorCanceled", "EIO">>, <<"QingStorConfigInvalid", "EINVAL">>,
     <<"QingStorConfigNotFound", "EINVAL">>, <<"QingStorTimeoutException", "EIO">>,
     <<"IllegalArgumentException", "EINVAL">>, <<"InvalidParameter", "EINVAL">>,
     <<"QingStorNetworkException", "EIO">>, <<"QingStorIOException", "EIO">>,
     <<"QingStorException", "EINTERNAL">>, <<"exception", "EINTERNAL">> >>

Matching(c) == {i \in 1 .. Len(Clauses) : IsA(c, Clauses[i][1])}

(* handleException.                                                        *)
ErrnoOf(c) ==
  LET first == CHOOSE i \in Matching(c) : \A j \in Matching(c) : i <= j
  IN  Clauses[first][2]

(* The errno of the handler for the closest class: what errno should be.   *)
ClosestErrno(c) ==
  LET closest == CHOOSE i \in Matching(c) :
                   \A j \in Matching(c) : IsA(Clauses[i][1], Clauses[j][1])
  IN  Clauses[closest][2]

=============================================================================
