------------------------ MODULE Configuration_proofs ------------------------
(***************************************************************************)
(* What becomes of any configuration file: the constructor refuses it.     *)
(* Whatever its keys and values, the settings of a file are never read.    *)
(***************************************************************************)
EXTENDS Configuration, TLAPS

(* No value has been taken down, and no key waits for one.                 *)
NothingKept ==
  /\ token_key = Empty
  /\ \A k \in DOMAIN kvs : kvs[k] = Empty
  /\ pc # "accepted"

LEMMA InsertEmptyKeeps ==
  ASSUME \A k \in DOMAIN kvs : kvs[k] = Empty, NEW key, Insert(key, Empty)
  PROVE  \A k \in DOMAIN kvs' : kvs'[k] = Empty
  BY DEF Insert

LEMMA NothingKeptInductive == NothingKept /\ [Next]_vars => NothingKept'
<1> SUFFICES ASSUME NothingKept, [Next]_vars PROVE NothingKept'
  OBVIOUS
<1>1. CASE Structure \/ KeyToken \/ ValueToken \/ StrayScalar \/ StreamEnd
  BY <1>1 DEF Structure, KeyToken, ValueToken, StrayScalar, StreamEnd, NothingKept
<1>2. CASE KeyScalar
  <2>1. Insert(Head(tokens).text, Empty) /\ token_key' = Empty /\ pc' = pc
    BY <1>2 DEF KeyScalar
  <2> QED
    BY <2>1, InsertEmptyKeeps DEF NothingKept
<1>3. CASE ValueScalar
  <2>1. pc' = "invalid" /\ UNCHANGED <<kvs, token_key>>
    BY <1>3 DEF ValueScalar, NothingKept
  <2> QED
    BY <2>1 DEF NothingKept
<1>4. CASE Check
  <2>1. Missing("access_key_id")
    BY DEF Missing, NothingKept
  <2>2. pc' = "invalid" /\ UNCHANGED <<kvs, token_key>>
    BY <1>4, <2>1 DEF Check, Credentials
  <2> QED
    BY <2>2 DEF NothingKept
<1>5. CASE Built \/ UNCHANGED vars
  BY <1>5 DEF Built, vars, NothingKept
<1> QED
  BY <1>1, <1>2, <1>3, <1>4, <1>5 DEF Next

(* No file is accepted, be it well-formed or not: the scalar of a key      *)
(* takes the place of an entry and clears token_key, so that a value finds *)
(* no key, and a key that has no value is not enough for the credentials.  *)
(* What Configuration.cpp:194-301 makes of the other settings of a file is *)
(* therefore never executed.                                               *)
THEOREM ConfigurationAcceptsNoFile == Spec => [](pc # "accepted")
<1>1. Init => NothingKept
  BY DEF Init, NothingKept
<1>2. NothingKept => pc # "accepted"
  BY DEF NothingKept
<1> QED
  BY <1>1, <1>2, NothingKeptInductive, PTL DEF Spec

=============================================================================
