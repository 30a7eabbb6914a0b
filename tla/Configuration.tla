---------------------------- MODULE Configuration ----------------------------
(***************************************************************************)
(* The constructor of Configuration that reads a file: libyaml scans the   *)
(* file into tokens (external), the constructor puts keys and values       *)
(* together and then requires the two credentials.  A file is here a       *)
(* mapping, written in block style, with plain keys and values.            *)
(***************************************************************************)
EXTENDS Integers, Sequences

CONSTANTS
  KeyNames,    \* keys a file may have
  Values,      \* values it may give them
  MaxEntries   \* bound of the model: entries of a file

Credentials == {"access_key_id", "secret_access_key"}

Empty == ""

VARIABLES
  file,         \* the entries of the file: pairs of a key and a value
  tokens,       \* what is left to scan
  reach_key, reach_value, token_key,  \* the constructor's locals
  kvs,
  pc            \* "scan", "check", "accepted" or "invalid"

vars == <<file, tokens, reach_key, reach_value, token_key, kvs, pc>>

-----------------------------------------------------------------------------

(* The tokens of one entry, and of a file (external).                      *)
Token(type) == [type |-> type, text |-> Empty]
EntryTokens(entry) ==
  << Token("KEY"), [type |-> "SCALAR", text |-> entry[1]],
     Token("VALUE"), [type |-> "SCALAR", text |-> entry[2]] >>

FileTokens(entries) ==
  LET upTo[n \in 0 .. Len(entries)] ==
        IF n = 0 THEN << Token("STREAM-START"), Token("BLOCK-MAPPING-START") >>
        ELSE upTo[n - 1] \o EntryTokens(entries[n])
  IN  upTo[Len(entries)] \o << Token("BLOCK-END"), Token("STREAM-END") >>

Init ==
  /\ \E n \in 1 .. MaxEntries : file \in [1 .. n -> KeyNames \X Values]
  /\ tokens = FileTokens(file)
  /\ reach_key = FALSE /\ reach_value = FALSE
  /\ token_key = Empty
  /\ kvs = [k \in {} |-> Empty]
  /\ pc = "scan"

-----------------------------------------------------------------------------

Scan(type) == pc = "scan" /\ Head(tokens).type = type /\ tokens' = Tail(tokens)

(* Tokens that only give the file its structure.                           *)
Structure ==
  /\ \E type \in {"STREAM-START", "BLOCK-MAPPING-START", "BLOCK-END"} : Scan(type)
  /\ UNCHANGED <<file, reach_key, reach_value, token_key, kvs, pc>>

KeyToken ==
  /\ Scan("KEY")
  /\ reach_key' = TRUE
  /\ UNCHANGED <<file, reach_value, token_key, kvs, pc>>

ValueToken ==
  /\ Scan("VALUE")
  /\ reach_value' = TRUE
  /\ UNCHANGED <<file, reach_key, token_key, kvs, pc>>

(* kvs.insert: an entry that is there already is kept.                     *)
Insert(key, value) ==
  kvs' = IF key \in DOMAIN kvs THEN kvs
         ELSE [k \in DOMAIN kvs \cup {key} |-> IF k = key THEN value ELSE kvs[k]]

(* A scalar is a key or a value, depending on the token before it.  Either *)
(* way it ends with an insertion, after which token_key is cleared.        *)
KeyScalar ==
  /\ Scan("SCALAR")
  /\ reach_key
  /\ reach_key' = FALSE
  /\ Insert(Head(tokens).text, Empty)
  /\ token_key' = Empty
  /\ UNCHANGED <<file, reach_value, pc>>

ValueScalar ==
  /\ Scan("SCALAR")
  /\ ~ reach_key
  /\ reach_value
  /\ reach_value' = FALSE
  /\ IF token_key = Empty \/ Head(tokens).text = Empty
     THEN pc' = "invalid" /\ UNCHANGED <<kvs, token_key>>
     ELSE /\ Insert(token_key, Head(tokens).text)
          /\ token_key' = Empty
          /\ UNCHANGED pc
  /\ UNCHANGED <<file, reach_key>>

(* A scalar that neither a key nor a value announced.                      *)
StrayScalar ==
  /\ Scan("SCALAR")
  /\ ~ reach_key /\ ~ reach_value
  /\ pc' = "invalid"
  /\ UNCHANGED <<file, reach_key, reach_value, token_key, kvs>>

StreamEnd ==
  /\ Scan("STREAM-END")
  /\ pc' = "check"
  /\ UNCHANGED <<file, reach_key, reach_value, token_key, kvs>>

(* The two settings without a default.                                     *)
Missing(key) == key \notin DOMAIN kvs \/ kvs[key] = Empty

Check ==
  /\ pc = "check"
  /\ pc' = IF \E key \in Credentials : Missing(key) THEN "invalid" ELSE "accepted"
  /\ UNCHANGED <<file, tokens, reach_key, reach_value, token_key, kvs>>

Built ==
  /\ pc \in {"accepted", "invalid"}
  /\ UNCHANGED vars

Next ==
  \/ Structure \/ KeyToken \/ ValueToken
  \/ KeyScalar \/ ValueScalar \/ StrayScalar
  \/ StreamEnd
  \/ Check
  \/ Built

Spec == Init /\ [][Next]_vars

-----------------------------------------------------------------------------

(* A file like the README's, which gives both credentials and leaves no    *)
(* value empty, is accepted.                                               *)
Given(key) == \E i \in 1 .. Len(file) : file[i][1] = key
WellFormedAccepted ==
  (\A key \in Credentials : Given(key)) /\ (\A i \in 1 .. Len(file) : file[i][2] # Empty)
    => pc # "invalid"

=============================================================================
