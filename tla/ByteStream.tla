----------------------------- MODULE ByteStream -----------------------------
(***************************************************************************)
(* What an object opened for reading promises (qingstorRead in qingstor.h):*)
(* its reads return the bytes of the range one after the other, some bytes *)
(* at a time, and the end of file exactly when there are no more.  Reads   *)
(* that fail return nothing and change nothing.                            *)
(***************************************************************************)
EXTENDS Integers, Sequences

CONSTANTS First, Total   \* naturals; the range: Total bytes from position First on

VARIABLES
  out,    \* the bytes returned so far
  ended   \* end of file has been reported

Init == out = <<>> /\ ended = FALSE

Read(n) ==
  /\ ~ ended
  /\ Len(out) + n <= Total
  /\ out' = out \o [k \in 1 .. n |-> First + Len(out) + k - 1]
  /\ UNCHANGED ended

Eof ==
  /\ Len(out) = Total
  /\ ended' = TRUE
  /\ UNCHANGED out

Next == (\E n \in 1 .. Total : Read(n)) \/ Eof

Spec == Init /\ [][Next]_<<out, ended>>

=============================================================================
