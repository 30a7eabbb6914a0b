--------------------------- MODULE ResponseBuffer ---------------------------
(***************************************************************************)
(* The buffer in which DoGetJSON_Internal gathers a reply: libcurl calls   *)
(* ParserCallback with one piece after the other, and when the reply is    *)
(* complete a '\0' is written behind it and the text is parsed.  data is   *)
(* the memory allocated: a function on the offsets 0 .. size - 1.          *)
(*                                                                         *)
(* The k-th byte of the reply is the number k.                             *)
(***************************************************************************)
EXTENDS Integers, Sequences

CONSTANTS
  InitialSize,  \* 1024 in the code
  Pieces,       \* lengths of the pieces libcurl hands over
  MaxReply      \* bound of the model: length of a reply

ASSUME BufferAssumption ==
  /\ InitialSize \in Nat \ {0}
  /\ Pieces \subseteq Nat
  /\ MaxReply \in Nat

Unwritten == -1
Nul == 0
Byte == Nat \cup {Unwritten}

VARIABLES
  pc,                     \* "receive", "callback", "parsed" or "empty"
  data, size, position,   \* BufferInfo; data is NULL when size is 0
  realsize,               \* length of the piece ParserCallback is called with
  received,               \* bytes of the reply so far
  text                    \* what the parser is given

vars == <<pc, data, size, position, realsize, received, text>>

NoData == [i \in {} |-> Unwritten]

Init ==
  /\ pc = "receive"
  /\ data = NoData /\ size = 0 /\ position = 0
  /\ realsize = 0
  /\ received = 0
  /\ text = <<>>

-----------------------------------------------------------------------------

(* ParserCallback is called; the first call allocates the buffer.          *)
Callback(n) ==
  /\ pc = "receive"
  /\ received + n <= MaxReply
  /\ pc' = "callback"
  /\ realsize' = n
  /\ IF size = 0
     THEN /\ data' = [i \in 0 .. InitialSize - 1 |-> Unwritten]
          /\ size' = InitialSize
     ELSE UNCHANGED <<data, size>>
  /\ UNCHANGED <<position, received, text>>

(* Seeded fault: the piece may fill the buffer to its last byte.           *)
TooSmallExact == position + realsize > size

(* The condition of ParserCallback's while loop.                           *)
TooSmall == position + realsize >= size

NewSize == 2 * size

(* Seeded faults: the bytes received are left behind; the new memory has   *)
(* room for the bytes received only.                                       *)
GrownEmpty == [i \in 0 .. NewSize - 1 |-> Unwritten]
GrownShort == [i \in 0 .. position - 1 |-> data[i]]

(* The bytes received move to the beginning of a memory twice as large.    *)
Grown == [i \in 0 .. NewSize - 1 |-> IF i < position THEN data[i] ELSE Unwritten]

(* One turn of the loop.                                                   *)
Grow ==
  /\ pc = "callback"
  /\ TooSmall
  /\ data' = Grown
  /\ size' = NewSize
  /\ UNCHANGED <<pc, position, realsize, received, text>>

(* The rest of ParserCallback: the piece is appended.                      *)
Copy ==
  /\ pc = "callback"
  /\ ~ TooSmall
  /\ data' = [i \in DOMAIN data |->
                IF i \in position .. position + realsize - 1
                THEN received + (i - position) + 1
                ELSE data[i]]
  /\ position' = position + realsize
  /\ received' = received + realsize
  /\ pc' = "receive"
  /\ UNCHANGED <<size, realsize, text>>

(* The reply is complete: '\0' goes behind it, and the parser reads up to  *)
(* the first '\0'.                                                         *)
Parse ==
  /\ pc = "receive"
  /\ size > 0
  /\ data' = [data EXCEPT ![position] = Nul]
  /\ text' = [k \in 1 .. position |-> data[k - 1]]
  /\ pc' = "parsed"
  /\ UNCHANGED <<size, position, realsize, received>>

(* Without one call of ParserCallback there is no data.                    *)
NoReply ==
  /\ pc = "receive"
  /\ size = 0
  /\ pc' = "empty"
  /\ UNCHANGED <<data, size, position, realsize, received, text>>

(* Seeded fault: the buffer is left to the next attempt, which forgets it. *)
ReleaseNothing ==
  /\ pc # "callback"
  /\ pc' = "receive"
  /\ UNCHANGED <<data, size, position, realsize, received, text>>

(* The attempt is over, with success or not: the memory is deleted, and    *)
(* the next attempt starts without.                                        *)
Release ==
  /\ pc # "callback"
  /\ pc' = "receive"
  /\ data' = NoData /\ size' = 0 /\ position' = 0
  /\ received' = 0
  /\ text' = <<>>
  /\ UNCHANGED realsize

Next ==
  \/ \E n \in Pieces : Callback(n)
  \/ Grow \/ Copy
  \/ Parse \/ NoReply
  \/ Release

Spec == Init /\ [][Next]_vars

-----------------------------------------------------------------------------

(* Types; data is memory for size bytes.                                   *)
TypeOK ==
  /\ pc \in {"receive", "callback", "parsed", "empty"}
  /\ size \in Nat /\ position \in Nat /\ realsize \in Nat /\ received \in Nat
  /\ data \in [0 .. size - 1 -> Byte]
  /\ text \in Seq(Byte)

(* Between two pieces there is room for the '\0' that jsonInfo.data and    *)
(* yamlInfo.data get at their position when the reply is complete.         *)
RoomForNul == pc = "receive" /\ size > 0 => position < size

(* The parser is given the reply, whatever the pieces it came in: growing  *)
(* has lost no byte of it and the terminator has overwritten none.         *)
TextIsReply == pc = "parsed" => text = [k \in 1 .. received |-> k]

=============================================================================
