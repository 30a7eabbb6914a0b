---------------------------- MODULE ObjectUpload ----------------------------
(***************************************************************************)
(* What an object opened for writing promises: it takes bytes in the order *)
(* they are written; at its close, and never before, the object appears in *)
(* the store, all at once and with exactly those bytes; a cancelled object *)
(* never appears.                                                          *)
(***************************************************************************)
EXTENDS Integers, Sequences

CONSTANTS Bytes, Nothing   \* bytes, and the contents of an absent object

VARIABLES
  stream,    \* the bytes taken so far
  object,    \* the object in the store
  status     \* "open", "cancelled" or "closed"

vars == <<stream, object, status>>

Init == stream = <<>> /\ object = Nothing /\ status = "open"

(* The bytes from b to c are taken, which are later in the program's       *)
(* output than the last one.                                               *)
Take(b, c) ==
  /\ status # "closed" /\ object = Nothing
  /\ b <= c
  /\ stream = <<>> \/ stream[Len(stream)] < b
  /\ stream' = stream \o [k \in 1 .. c - b + 1 |-> b + k - 1]
  /\ UNCHANGED <<object, status>>

Publish ==
  /\ status = "open" /\ object = Nothing
  /\ object' = stream
  /\ UNCHANGED <<stream, status>>

Cancel ==
  /\ status = "open" /\ object = Nothing
  /\ status' = "cancelled"
  /\ UNCHANGED <<stream, object>>

Close ==
  /\ status' = "closed"
  /\ UNCHANGED <<stream, object>>

Next == (\E b, c \in Bytes : Take(b, c)) \/ Publish \/ Cancel \/ Close

Spec == Init /\ [][Next]_vars

=============================================================================
