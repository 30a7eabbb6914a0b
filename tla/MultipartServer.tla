--------------------------- MODULE MultipartServer ---------------------------
(***************************************************************************)
(* The multipart-upload interface of the object store, for one upload, as  *)
(* QingStorWriter uses it (external: the store is not in the repository).  *)
(* A request that the store does not accept is answered by an error whose  *)
(* body describes it.  Sending a part again replaces it.                   *)
(***************************************************************************)
EXTENDS Integers, Sequences, SequencesExt

Absent == <<0>>   \* the object does not exist; no byte has position 0

NoUpload == [upload |-> "none", parts |-> <<>>, object |-> Absent]

(* The list of parts 0 .. n - 1, the body of a completion request.         *)
PartList(n) == [i \in 1 .. n |-> i - 1]

(* The contents of the parts 0 .. n - 1, one after the other.              *)
Assembled(parts, n) ==
  LET upTo[i \in Nat] == IF i = 0 THEN <<>> ELSE upTo[i - 1] \o parts[i - 1]
  IN  upTo[n]

(* The store accepts the request.  The body of a completion request must   *)
(* be whole, and may only name parts the store has.                        *)
Legal(s, op, list, part) ==
  CASE op = "init"     -> TRUE
    [] op = "upload"   -> s.upload = "open"
    [] op = "abort"    -> s.upload = "open"
    [] op = "complete" -> /\ s.upload = "open"
                          /\ list = PartList(part)
                          /\ \A p \in ToSet(list) : p \in DOMAIN s.parts

(* What an accepted request does.  An upload that is started again is a    *)
(* new one (and the first stays behind in the store, out of reach).        *)
Effect(s, op, body, part) ==
  CASE op = "init"     -> [s EXCEPT !.upload = "open", !.parts = [p \in {} |-> <<>>]]
    [] op = "upload"   -> [s EXCEPT !.parts = [p \in DOMAIN @ \cup {part} |->
                                                 IF p = part THEN body ELSE @[p]]]
    [] op = "abort"    -> [s EXCEPT !.upload = "aborted"]
    [] op = "complete" -> [s EXCEPT !.upload = "completed",
                                    !.object = Assembled(s.parts, part)]

=============================================================================
