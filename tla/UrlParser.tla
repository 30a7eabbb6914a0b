------------------------------ MODULE UrlParser ------------------------------
(***************************************************************************)
(* http_parser_parse_url of the vendored http_parser, as qs_parse_url      *)
(* calls it: the automaton that reads an URL character by character, and   *)
(* the fields it marks.  The host it finds is taken to be one it accepts.  *)
(*                                                                         *)
(* Characters that are treated alike are one: "a" is a letter, "bad" a     *)
(* blank, a control character or a byte beyond ASCII.                      *)
(***************************************************************************)
EXTENDS Integers, SequencesExt

Chars == {"a", "/", ":", "?", "#", "@", "%", "&", "=", "bad"}

UrlChar == Chars \ {"?", "#", "bad"}
UserinfoChar == {"a", "%", ":", "&", "="}

Server == {"server_start", "server", "server_with_at"}

(* parse_url_char: a state, a character and the state that follows; any    *)
(* other character is fatal.                                               *)
Transitions ==
  {"before"} \X {"/"} \X {"path"}
    \cup {"before", "schema"} \X {"a"} \X {"schema"}
    \cup {"schema"} \X {":"} \X {"schema_slash"}
    \cup {"schema_slash"} \X {"/"} \X {"schema_slash_slash"}
    \cup {"schema_slash_slash"} \X {"/"} \X {"server_start"}
    \cup Server \X UserinfoChar \X {"server"}
    \cup {"server_start", "server"} \X {"@"} \X {"server_with_at"}
    \cup Server \X {"/"} \X {"path"}
    \cup Server \X {"?"} \X {"query_start"}
    \cup {"path"} \X UrlChar \X {"path"}
    \cup {"path"} \X {"?"} \X {"query_start"}
    \cup {"path", "query_start", "query"} \X {"#"} \X {"fragment_start"}
    \cup {"query_start", "query"} \X (UrlChar \cup {"?"}) \X {"query"}
    \cup {"fragment_start"} \X {"#"} \X {"fragment_start"}
    \cup {"fragment_start", "fragment"} \X (UrlChar \cup {"?"}) \X {"fragment"}
    \cup {"fragment"} \X {"#"} \X {"fragment"}

ParseUrlChar(state, ch) ==
  IF \E t \in Transitions : t[1] = state /\ t[2] = ch
  THEN (CHOOSE t \in Transitions : t[1] = state /\ t[2] = ch)[3]
  ELSE "dead"

(* The field that a state's characters belong to; the others delimit.      *)
FieldOf == [schema |-> "schema", server |-> "host", server_with_at |-> "host",
            path |-> "path", query |-> "query", fragment |-> "fragment"]

NoFields == [f \in {} |-> <<>>]

(* One turn of the loop: the i-th character begins a field or goes on with *)
(* the last one.                                                           *)
Turn(u, i, ch) ==
  LET state == ParseUrlChar(u.state, ch)
      field == FieldOf[state]
      new   == [off |-> i, len |-> 1]
  IN  IF state \notin DOMAIN FieldOf THEN [u EXCEPT !.state = state]
      ELSE [state |-> state, old |-> field,
            data |-> [f \in DOMAIN u.data \cup {field} |->
                        IF f # field THEN u.data[f]
                        ELSE IF field = u.old THEN [u.data[f] EXCEPT !.len = @ + 1]
                        ELSE new]]

Unparsed == [state |-> "before", old |-> "none", data |-> NoFields]

Parsed(url) ==
  LET upTo[n \in 0 .. Len(url)] ==
        IF n = 0 THEN Unparsed ELSE Turn(upTo[n - 1], n, url[n])
  IN  upTo[Len(url)]

ParseFails(url) ==
  LET u == Parsed(url) IN
    u.state = "dead" \/ ("schema" \in DOMAIN u.data /\ "host" \notin DOMAIN u.data)

(* extract_field: a copy of the field, NULL when there is none.            *)
ExtractField(url, field) ==
  LET u == Parsed(url) IN
    IF field \notin DOMAIN u.data THEN <<>>
    ELSE SubSeq(url, u.data[field].off, u.data[field].off + u.data[field].len - 1)

=============================================================================
