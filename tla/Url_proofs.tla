----------------------------- MODULE Url_proofs -----------------------------
(***************************************************************************)
(* What http_parser, the store and the program make of the same URL, for   *)
(* URLs of any length: the fields that the automaton of UrlParser marks    *)
(* are what libcurl sends and the store reads, and the slashes of a query  *)
(* are written out in the room that is measured for them.                  *)
(***************************************************************************)
EXTENDS Request, FiniteSetTheorems, SequenceTheorems, WellFoundedInduction

LEMMA LeastOf ==
  ASSUME NEW S, S \subseteq Nat, S # {}
  PROVE  \E n \in S : \A m \in S : n <= m
<1> DEFINE R == {ss \in Nat \X Nat : ss[1] < ss[2]}
<1>1. IsWellFoundedOn(R, Nat)
  BY NatLessThanWellFounded DEF OpToRel
<1>2. \A x, y \in Nat : y < x => <<y, x>> \in R
  OBVIOUS
<1> HIDE DEF R
<1>3. PICK n \in S : \A m \in S : ~ (<<m, n>> \in R)
  BY <1>1, WFMin
<1>4. \A m \in S : n <= m
  <2> SUFFICES ASSUME NEW m \in S PROVE ~ (m < n)
    OBVIOUS
  <2> QED
    BY <1>2, <1>3
<1> QED
  BY <1>4

-----------------------------------------------------------------------------
(* The automaton *)

(* Every transition has its place in this table.                           *)
LEMMA TransitionsFrom ==
  ASSUME NEW t \in Transitions
  PROVE  /\ t[1] = "path" =>
              \/ t[2] \in UrlChar /\ t[3] = "path"
              \/ t[2] = "?" /\ t[3] = "query_start"
              \/ t[2] = "#" /\ t[3] = "fragment_start"
         /\ t[1] \in {"query_start", "query"} =>
              \/ t[2] \in UrlChar \cup {"?"} /\ t[3] = "query"
              \/ t[2] = "#" /\ t[3] = "fragment_start"
         /\ t[1] \in {"fragment_start", "fragment"} =>
              \/ t[2] \in UrlChar \cup {"?"} /\ t[3] = "fragment"
              \/ t[2] = "#" /\ t[3] = t[1]
         /\ t[1] # "dead"
         /\ t[1] = "before" /\ t[2] = "a" => t[3] = "schema"
         /\ t[1] = "schema" /\ t[2] = ":" => t[3] = "schema_slash"
         /\ t[1] = "schema_slash" => t[3] = "schema_slash_slash"
         /\ t[1] = "schema_slash_slash" => t[3] = "server_start"
         /\ t[1] \in {"server_start", "server"} /\ t[2] = "a" => t[3] = "server"
         /\ t[1] \in {"server_start", "server"} /\ t[2] = "/" => t[3] = "path"
  BY DEF Transitions, UrlChar, UserinfoChar, Server, Chars

(* What follows from what is a matter of the transitions there are.        *)
LEMMA Moves ==
  ASSUME NEW state, NEW ch, NEW S,
         \E t \in Transitions : t[1] = state /\ t[2] = ch,
         \A t \in Transitions : t[1] = state /\ t[2] = ch => t[3] \in S
  PROVE  ParseUrlChar(state, ch) \in S
<1> DEFINE t == CHOOSE t \in Transitions : t[1] = state /\ t[2] = ch
<1>1. t \in Transitions /\ t[1] = state /\ t[2] = ch
  OBVIOUS
<1>2. ParseUrlChar(state, ch) = t[3]
  BY DEF ParseUrlChar
<1> HIDE DEF t
<1> QED
  BY <1>1, <1>2

LEMMA MovesTo ==
  ASSUME NEW state, NEW ch, NEW to, <<state, ch, to>> \in Transitions,
         \A t \in Transitions : t[1] = state /\ t[2] = ch => t[3] = to
  PROVE  ParseUrlChar(state, ch) = to
<1> DEFINE e == <<state, ch, to>>
<1>1. e \in Transitions /\ e[1] = state /\ e[2] = ch
  OBVIOUS
<1> HIDE DEF e
<1> DEFINE t == CHOOSE t \in Transitions : t[1] = state /\ t[2] = ch
<1>2. t \in Transitions /\ t[1] = state /\ t[2] = ch
  BY <1>1
<1>3. ParseUrlChar(state, ch) = t[3]
  BY <1>1 DEF ParseUrlChar
<1> HIDE DEF t
<1> QED
  BY <1>2, <1>3

LEMMA TransitionsFor ==
  /\ \A ch \in UrlChar : /\ <<"path", ch, "path">> \in Transitions
                         /\ <<"query_start", ch, "query">> \in Transitions
                         /\ <<"query", ch, "query">> \in Transitions
                         /\ <<"fragment_start", ch, "fragment">> \in Transitions
                         /\ <<"fragment", ch, "fragment">> \in Transitions
  /\ <<"path", "?", "query_start">> \in Transitions
  /\ <<"query_start", "?", "query">> \in Transitions
  /\ <<"query", "?", "query">> \in Transitions
  /\ <<"fragment_start", "?", "fragment">> \in Transitions
  /\ <<"fragment", "?", "fragment">> \in Transitions
  /\ <<"path", "#", "fragment_start">> \in Transitions
  /\ <<"query_start", "#", "fragment_start">> \in Transitions
  /\ <<"query", "#", "fragment_start">> \in Transitions
  /\ <<"fragment_start", "#", "fragment_start">> \in Transitions
  /\ <<"fragment", "#", "fragment">> \in Transitions
  /\ <<"before", "a", "schema">> \in Transitions
  /\ <<"schema", ":", "schema_slash">> \in Transitions
  /\ <<"schema_slash", "/", "schema_slash_slash">> \in Transitions
  /\ <<"schema_slash_slash", "/", "server_start">> \in Transitions
  /\ <<"server_start", "a", "server">> \in Transitions
  /\ <<"server", "/", "path">> \in Transitions
  BY DEF Transitions, UrlChar, UserinfoChar, Server, Chars

(* A path goes on up to '?' or '#'.                                        *)
LEMMA PathMoves ==
  ASSUME NEW ch \in Chars
  PROVE  ParseUrlChar("path", ch) = CASE ch \in UrlChar -> "path"
                                      [] ch = "?" -> "query_start"
                                      [] ch = "#" -> "fragment_start"
                                      [] OTHER -> "dead"
<1>1. CASE ch \in UrlChar
  <2>1. <<"path", ch, "path">> \in Transitions
    BY <1>1, TransitionsFor
  <2>2. \A t \in Transitions : t[1] = "path" /\ t[2] = ch => t[3] = "path"
    BY <1>1, TransitionsFrom DEF UrlChar
  <2>3. ParseUrlChar("path", ch) = "path"
    BY <2>1, <2>2, MovesTo
  <2> QED
    BY <1>1, <2>3 DEF UrlChar
<1>2. CASE ch = "?"
  <2>1. <<"path", ch, "query_start">> \in Transitions
    BY <1>2, TransitionsFor
  <2>2. \A t \in Transitions : t[1] = "path" /\ t[2] = ch => t[3] = "query_start"
    BY <1>2, TransitionsFrom DEF UrlChar
  <2>3. ParseUrlChar("path", ch) = "query_start"
    BY <2>1, <2>2, MovesTo
  <2> QED
    BY <1>2, <2>3 DEF UrlChar
<1>3. CASE ch = "#"
  <2>1. <<"path", ch, "fragment_start">> \in Transitions
    BY <1>3, TransitionsFor
  <2>2. \A t \in Transitions : t[1] = "path" /\ t[2] = ch => t[3] = "fragment_start"
    BY <1>3, TransitionsFrom DEF UrlChar
  <2>3. ParseUrlChar("path", ch) = "fragment_start"
    BY <2>1, <2>2, MovesTo
  <2> QED
    BY <1>3, <2>3 DEF UrlChar
<1>4. CASE ch \notin UrlChar \cup {"?", "#"}
  <2>1. ~ \E t \in Transitions : t[1] = "path" /\ t[2] = ch
    BY <1>4, TransitionsFrom
  <2> QED
    BY <1>4, <2>1 DEF ParseUrlChar
<1> QED
  BY <1>1, <1>2, <1>3, <1>4

(* So does a query, up to '#', and a fragment; nothing follows an error.   *)
LEMMA QueryMoves ==
  ASSUME NEW state \in {"query_start", "query"}, NEW ch \in Chars
  PROVE  ParseUrlChar(state, ch) = CASE ch \in UrlChar \cup {"?"} -> "query"
                                     [] ch = "#" -> "fragment_start"
                                     [] OTHER -> "dead"
<1>1. CASE ch \in UrlChar \cup {"?"}
  <2>1. <<state, ch, "query">> \in Transitions
    BY <1>1, TransitionsFor
  <2>2. \A t \in Transitions : t[1] = state /\ t[2] = ch => t[3] = "query"
    BY <1>1, TransitionsFrom DEF UrlChar
  <2>3. ParseUrlChar(state, ch) = "query"
    BY <2>1, <2>2, MovesTo
  <2> QED
    BY <1>1, <2>3 DEF UrlChar
<1>2. CASE ch = "#"
  <2>1. <<state, ch, "fragment_start">> \in Transitions
    BY <1>2, TransitionsFor
  <2>2. \A t \in Transitions : t[1] = state /\ t[2] = ch => t[3] = "fragment_start"
    BY <1>2, TransitionsFrom DEF UrlChar
  <2>3. ParseUrlChar(state, ch) = "fragment_start"
    BY <2>1, <2>2, MovesTo
  <2> QED
    BY <1>2, <2>3 DEF UrlChar
<1>3. CASE ch \notin UrlChar \cup {"?", "#"}
  <2>1. ~ \E t \in Transitions : t[1] = state /\ t[2] = ch
    BY <1>3, TransitionsFrom
  <2> QED
    BY <1>3, <2>1 DEF ParseUrlChar
<1> QED
  BY <1>1, <1>2, <1>3

LEMMA FragmentMoves ==
  ASSUME NEW state \in {"fragment_start", "fragment"}, NEW ch \in Chars
  PROVE  ParseUrlChar(state, ch) \in IF ch = "bad" THEN {"dead"} ELSE {"fragment_start", "fragment"}
<1>1. CASE ch # "bad"
  <2>1. ch \in UrlChar \cup {"?", "#"}
    BY <1>1 DEF UrlChar
  <2>2. \E t \in Transitions : t[1] = state /\ t[2] = ch
    BY <2>1, TransitionsFor
  <2>3. \A t \in Transitions : t[1] = state => t[3] \in {"fragment_start", "fragment"}
    BY TransitionsFrom
  <2> QED
    BY <1>1, <2>2, <2>3, Moves
<1>2. CASE ch = "bad"
  <2>1. ~ \E t \in Transitions : t[1] = state /\ t[2] = ch
    BY <1>2, TransitionsFrom DEF UrlChar
  <2> QED
    BY <1>2, <2>1 DEF ParseUrlChar
<1> QED
  BY <1>1, <1>2

LEMMA DeadStays == ASSUME NEW ch PROVE ParseUrlChar("dead", ch) = "dead"
  BY TransitionsFrom DEF ParseUrlChar

(* What all URLs begin with.                                               *)
LEMMA OriginMoves ==
  /\ ParseUrlChar("before", "a") = "schema"
  /\ ParseUrlChar("schema", ":") = "schema_slash"
  /\ ParseUrlChar("schema_slash", "/") = "schema_slash_slash"
  /\ ParseUrlChar("schema_slash_slash", "/") = "server_start"
  /\ ParseUrlChar("server_start", "a") = "server"
  /\ ParseUrlChar("server", "/") = "path"
<1>1. ParseUrlChar("before", "a") = "schema"
  <2>1. <<"before", "a", "schema">> \in Transitions
    BY TransitionsFor
  <2>2. \A t \in Transitions : t[1] = "before" /\ t[2] = "a" => t[3] = "schema"
    BY TransitionsFrom
  <2> QED
    BY <2>1, <2>2, MovesTo
<1>2. ParseUrlChar("schema", ":") = "schema_slash"
  <2>1. <<"schema", ":", "schema_slash">> \in Transitions
    BY TransitionsFor
  <2>2. \A t \in Transitions : t[1] = "schema" /\ t[2] = ":" => t[3] = "schema_slash"
    BY TransitionsFrom
  <2> QED
    BY <2>1, <2>2, MovesTo
<1>3. ParseUrlChar("schema_slash", "/") = "schema_slash_slash"
  <2>1. <<"schema_slash", "/", "schema_slash_slash">> \in Transitions
    BY TransitionsFor
  <2>2. \A t \in Transitions : t[1] = "schema_slash" /\ t[2] = "/" => t[3] = "schema_slash_slash"
    BY TransitionsFrom
  <2> QED
    BY <2>1, <2>2, MovesTo
<1>4. ParseUrlChar("schema_slash_slash", "/") = "server_start"
  <2>1. <<"schema_slash_slash", "/", "server_start">> \in Transitions
    BY TransitionsFor
  <2>2. \A t \in Transitions : t[1] = "schema_slash_slash" /\ t[2] = "/" => t[3] = "server_start"
    BY TransitionsFrom
  <2> QED
    BY <2>1, <2>2, MovesTo
<1>5. ParseUrlChar("server_start", "a") = "server"
  <2>1. <<"server_start", "a", "server">> \in Transitions
    BY TransitionsFor
  <2>2. \A t \in Transitions : t[1] = "server_start" /\ t[2] = "a" => t[3] = "server"
    BY TransitionsFrom
  <2> QED
    BY <2>1, <2>2, MovesTo
<1>6. ParseUrlChar("server", "/") = "path"
  <2>1. <<"server", "/", "path">> \in Transitions
    BY TransitionsFor
  <2>2. \A t \in Transitions : t[1] = "server" /\ t[2] = "/" => t[3] = "path"
    BY TransitionsFrom
  <2> QED
    BY <2>1, <2>2, MovesTo
<1> QED
  BY <1>1, <1>2, <1>3, <1>4, <1>5, <1>6

-----------------------------------------------------------------------------
(* The loop of http_parser_parse_url *)

LEMMA Induction ==
  ASSUME NEW N \in Nat, NEW S, 0 \in S, \A n \in 1 .. N : n - 1 \in S => n \in S
  PROVE  \A n \in 0 .. N : n \in S
<1> DEFINE Bad == {n \in 0 .. N : n \notin S}
<1>1. SUFFICES ASSUME Bad # {} PROVE FALSE
  OBVIOUS
<1>2. PICK n \in Bad : \A m \in Bad : n <= m
  <2>1. Bad \subseteq Nat
    OBVIOUS
  <2> HIDE DEF Bad
  <2> QED
    BY <1>1, <2>1, LeastOf
<1>3. n \in 1 .. N /\ n - 1 \in 0 .. N /\ ~ (n <= n - 1)
  BY <1>2
<1>4. n - 1 \in S
  BY <1>2, <1>3
<1> QED
  BY <1>2, <1>3, <1>4

Parses(f, s) == f = [n \in 0 .. Len(s) |-> IF n = 0 THEN Unparsed ELSE Turn(f[n - 1], n, s[n])]

LEMMA ParsesExists == ASSUME NEW s, Len(s) \in Nat PROVE \E f : Parses(f, s)
<1> DEFINE N == Len(s)
           UpTo(g, k) == g[0] = Unparsed /\ \A n \in 1 .. k : g[n] = Turn(g[n - 1], n, s[n])
           S == {k \in 0 .. N : \E g : UpTo(g, k)}
<1>1. 0 \in S
  <2> DEFINE h == [n \in {0} |-> Unparsed]
  <2>1. UpTo(h, 0) /\ 0 \in 0 .. N
    OBVIOUS
  <2> HIDE DEF h, UpTo
  <2> QED
    BY <2>1
<1>2. ASSUME NEW k \in 1 .. N, k - 1 \in S PROVE k \in S
  <2>1. PICK g : UpTo(g, k - 1)
    BY <1>2
  <2> DEFINE h == [n \in 0 .. k |-> IF n < k THEN g[n] ELSE Turn(g[k - 1], k, s[k])]
  <2>2. h[0] = Unparsed /\ h[k] = Turn(h[k - 1], k, s[k])
    BY <2>1
  <2>3. ASSUME NEW n \in 1 .. k - 1 PROVE h[n] = Turn(h[n - 1], n, s[n])
    BY <2>1
  <2> HIDE DEF h
  <2>4. UpTo(h, k)
    BY <2>2, <2>3
  <2> QED
    BY <2>4
<1>3. N \in S
  <2> HIDE DEF S
  <2>1. \A k \in 1 .. N : k - 1 \in S => k \in S
    BY <1>2
  <2>2. \A k \in 0 .. N : k \in S
    BY <1>1, <2>1, Induction
  <2> QED
    BY <2>2
<1>4. PICK g : UpTo(g, N)
  BY <1>3
<1> DEFINE f == [n \in 0 .. N |-> g[n]]
<1>5. \A n \in 0 .. N : f[n] = IF n = 0 THEN Unparsed ELSE Turn(f[n - 1], n, s[n])
  BY <1>4
<1>6. f = [n \in 0 .. N |-> f[n]]
  OBVIOUS
<1> HIDE DEF f
<1>7. Parses(f, s)
  BY <1>5, <1>6 DEF Parses
<1> QED
  BY <1>7

LEMMA ParsedIs == ASSUME NEW s, Len(s) \in Nat PROVE \E f : Parses(f, s) /\ Parsed(s) = f[Len(s)]
<1> DEFINE f == CHOOSE g : Parses(g, s)
<1>1. Parsed(s) = f[Len(s)]
  BY DEF Parsed, Parses
<1>2. Parses(f, s)
  BY ParsesExists
<1> QED
  BY <1>1, <1>2

LEMMA FieldOfState == 
  /\ DOMAIN FieldOf = {"schema", "server", "server_with_at", "path", "query", "fragment"}
  /\ FieldOf["schema"] = "schema" /\ FieldOf["server"] = "host"
  /\ FieldOf["path"] = "path" /\ FieldOf["query"] = "query"
  /\ FieldOf["fragment"] = "fragment"
  BY DEF FieldOf

IsParser(u) == u = [state |-> u.state, old |-> u.old, data |-> u.data]

(* A turn that delimits fields, and one that begins or extends one.        *)
LEMMA TurnDelimits ==
  ASSUME NEW u, IsParser(u), NEW i, NEW ch, NEW state,
         ParseUrlChar(u.state, ch) = state, state \notin DOMAIN FieldOf
  PROVE  Turn(u, i, ch) = [state |-> state, old |-> u.old, data |-> u.data]
  BY DEF Turn, IsParser

New(i) == [off |-> i, len |-> 1]
Longer(d) == [d EXCEPT !.len = @ + 1]

LEMMA TurnMarks ==
  ASSUME NEW u, NEW i, NEW ch, NEW field \in {"path", "query", "fragment"}, NEW t,
         t = Turn(u, i, ch), ParseUrlChar(u.state, ch) = field
  PROVE  /\ IsParser(t) /\ t.state = field /\ t.old = field
         /\ DOMAIN t.data = DOMAIN u.data \cup {field}
         /\ \A f \in DOMAIN u.data : f # field => t.data[f] = u.data[f]
         /\ field = u.old => t.data[field] = Longer(u.data[field])
         /\ field # u.old => t.data[field] = New(i)
<1> DEFINE d == [f \in DOMAIN u.data \cup {field} |->
                   IF f # field THEN u.data[f]
                   ELSE IF field = u.old THEN [u.data[f] EXCEPT !.len = @ + 1]
                   ELSE [off |-> i, len |-> 1]]
<1>1. field \in DOMAIN FieldOf /\ FieldOf[field] = field
  BY FieldOfState
<1>2. t = [state |-> field, old |-> field, data |-> d]
  BY <1>1 DEF Turn
<1>3. /\ DOMAIN d = DOMAIN u.data \cup {field}
      /\ \A f \in DOMAIN u.data : f # field => d[f] = u.data[f]
      /\ field = u.old => d[field] = Longer(u.data[field])
      /\ field # u.old => d[field] = New(i)
  BY DEF Longer, New
<1> HIDE DEF d
<1> QED
  BY <1>2, <1>3 DEF IsParser

-----------------------------------------------------------------------------
(* Where the parser is *)

Without(s, a, b, ch) == \A i \in a .. b : s[i] # ch

(* The fields of s[1 .. e], which has no fragment.                         *)
Marked(d, s, e) ==
  /\ {"schema", "host", "path"} \subseteq DOMAIN d
  /\ \/ /\ Without(s, 7, e, "?")
        /\ d["path"] = [off |-> 6, len |-> e - 5]
        /\ "query" \notin DOMAIN d
     \/ \E q \in 7 .. e :
          /\ s[q] = "?" /\ Without(s, 7, q - 1, "?")
          /\ d["path"] = [off |-> 6, len |-> q - 6]
          /\ IF q = e THEN "query" \notin DOMAIN d
             ELSE "query" \in DOMAIN d /\ d["query"] = [off |-> q + 1, len |-> e - q]

InPath(u, s, n) ==
  /\ u.state = "path" /\ u.old = "path"
  /\ Without(s, 7, n, "?") /\ Without(s, 7, n, "#")
  /\ {"schema", "host", "path"} \subseteq DOMAIN u.data /\ "query" \notin DOMAIN u.data
  /\ u.data["path"] = [off |-> 6, len |-> n - 5]

InQueryStart(u, s, n) ==
  /\ u.state = "query_start" /\ u.old = "path"
  /\ n >= 7 /\ s[n] = "?" /\ Without(s, 7, n - 1, "?") /\ Without(s, 7, n, "#")
  /\ {"schema", "host", "path"} \subseteq DOMAIN u.data /\ "query" \notin DOMAIN u.data
  /\ u.data["path"] = [off |-> 6, len |-> n - 6]

InQuery(u, s, n) ==
  /\ u.state = "query" /\ u.old = "query"
  /\ Without(s, 7, n, "#")
  /\ {"schema", "host", "path", "query"} \subseteq DOMAIN u.data
  /\ \E q \in 7 .. n - 1 :
       /\ s[q] = "?" /\ Without(s, 7, q - 1, "?")
       /\ u.data["path"] = [off |-> 6, len |-> q - 6]
       /\ u.data["query"] = [off |-> q + 1, len |-> n - q]

InFragment(u, s, n) ==
  /\ u.state \in {"fragment_start", "fragment"}
  /\ \E e \in 6 .. n - 1 :
       /\ s[e + 1] = "#" /\ Without(s, 7, e, "#")
       /\ Marked(u.data, s, e)

Dead(u, s, n) == u.state = "dead" /\ \E i \in 7 .. n : s[i] \in {"#", "bad"}

ParserAt(u, s, n) ==
  /\ IsParser(u)
  /\ InPath(u, s, n) \/ InQueryStart(u, s, n) \/ InQuery(u, s, n)
       \/ InFragment(u, s, n) \/ Dead(u, s, n)

LEMMA ParserGoesOn ==
  ASSUME NEW s \in Seq(Chars), NEW n \in 7 .. Len(s), NEW u, ParserAt(u, s, n - 1)
  PROVE  ParserAt(Turn(u, n, s[n]), s, n)
<1> DEFINE t == Turn(u, n, s[n])
           ch == s[n]
<1>a. /\ n \in Nat /\ n - 1 \in Nat /\ n >= 7 /\ ch \in Chars /\ IsParser(u)
      /\ ch = "bad" \/ ch = "#" \/ ch = "?" \/ ch \in UrlChar
      /\ "?" \notin UrlChar /\ "#" \notin UrlChar /\ "bad" \notin UrlChar
  BY LenProperties DEF ParserAt, UrlChar
<1>b. t = Turn(u, n, ch)
  OBVIOUS
<1> SUFFICES ParserAt(t, s, n)
  OBVIOUS
<1> HIDE DEF t
<1>1. CASE InPath(u, s, n - 1)
  <2>1. CASE ch \in UrlChar
    <3>1. ParseUrlChar(u.state, ch) = "path"
      BY <1>a, <1>1, <2>1, PathMoves DEF InPath
    <3>2. /\ IsParser(t) /\ t.state = "path" /\ t.old = "path"
          /\ DOMAIN t.data = DOMAIN u.data \cup {"path"}
          /\ t.data["path"] = Longer(u.data["path"])
      <4>1. /\ IsParser(t) /\ t.state = "path" /\ t.old = "path"
            /\ DOMAIN t.data = DOMAIN u.data \cup {"path"}
            /\ \A f \in DOMAIN u.data : f # "path" => t.data[f] = u.data[f]
            /\ u.old = "path" => t.data["path"] = Longer(u.data["path"])
            /\ u.old # "path" => t.data["path"] = New(n)
        BY <1>b, <3>1, TurnMarks
      <4> QED
        BY <1>1, <4>1 DEF InPath
    <3>3. t.data["path"] = [off |-> 6, len |-> n - 5]
      BY <1>a, <1>1, <3>2 DEF InPath, Longer
    <3>4. Without(s, 7, n, "?") /\ Without(s, 7, n, "#")
      BY <1>a, <1>1, <2>1 DEF InPath, Without
    <3> QED
      BY <1>1, <3>2, <3>3, <3>4 DEF InPath, ParserAt
  <2>2. CASE ch = "?"
    <3>1. ParseUrlChar(u.state, ch) = "query_start"
      BY <1>a, <1>1, <2>2, PathMoves DEF InPath
    <3>2. t = [state |-> "query_start", old |-> u.old, data |-> u.data]
      BY <1>a, <1>b, <3>1, TurnDelimits, FieldOfState
    <3>3. Without(s, 7, n - 1, "?") /\ Without(s, 7, n, "#")
      BY <1>a, <1>1, <2>2 DEF InPath, Without
    <3>4. n - 1 - 5 = n - 6
      BY <1>a
    <3>5. InQueryStart(t, s, n) /\ IsParser(t)
      BY <1>a, <1>1, <2>2, <3>2, <3>3, <3>4 DEF InPath, InQueryStart, IsParser
    <3> QED
      BY <3>5 DEF ParserAt
  <2>3. CASE ch = "#"
    <3>1. ParseUrlChar(u.state, ch) = "fragment_start"
      BY <1>a, <1>1, <2>3, PathMoves DEF InPath
    <3>2. t = [state |-> "fragment_start", old |-> u.old, data |-> u.data]
      BY <1>a, <1>b, <3>1, TurnDelimits, FieldOfState
    <3>3. Marked(u.data, s, n - 1) /\ Without(s, 7, n - 1, "#")
      BY <1>1 DEF InPath, Marked
    <3>4. n - 1 \in 6 .. n - 1 /\ n - 1 + 1 = n
      BY <1>a
    <3>5. InFragment(t, s, n) /\ IsParser(t)
      BY <2>3, <3>2, <3>3, <3>4 DEF InFragment, IsParser
    <3> QED
      BY <3>5 DEF ParserAt
  <2>4. CASE ch = "bad"
    <3>1. ParseUrlChar(u.state, ch) = "dead"
      BY <1>a, <1>1, <2>4, PathMoves DEF InPath
    <3>2. t = [state |-> "dead", old |-> u.old, data |-> u.data]
      BY <1>a, <1>b, <3>1, TurnDelimits, FieldOfState
    <3>3. n \in 7 .. n
      BY <1>a
    <3>4. Dead(t, s, n) /\ IsParser(t)
      BY <2>4, <3>2, <3>3 DEF Dead, IsParser
    <3> QED
      BY <3>4 DEF ParserAt
  <2> QED
    BY <1>a, <2>1, <2>2, <2>3, <2>4
<1>2. CASE InQueryStart(u, s, n - 1)
  <2>1. CASE ch \in UrlChar \cup {"?"}
    <3>1. ParseUrlChar(u.state, ch) = "query"
      BY <1>a, <1>2, <2>1, QueryMoves DEF InQueryStart
    <3>2. /\ IsParser(t) /\ t.state = "query" /\ t.old = "query"
          /\ DOMAIN t.data = DOMAIN u.data \cup {"query"}
          /\ t.data["path"] = u.data["path"]
          /\ t.data["query"] = [off |-> n, len |-> 1]
      <4>1. /\ IsParser(t) /\ t.state = "query" /\ t.old = "query"
            /\ DOMAIN t.data = DOMAIN u.data \cup {"query"}
            /\ \A f \in DOMAIN u.data : f # "query" => t.data[f] = u.data[f]
            /\ u.old = "query" => t.data["query"] = Longer(u.data["query"])
            /\ u.old # "query" => t.data["query"] = New(n)
        BY <1>b, <3>1, TurnMarks
      <4> QED
        BY <1>2, <4>1 DEF InQueryStart, New
    <3>3. Without(s, 7, n, "#")
      BY <1>a, <1>2, <2>1 DEF InQueryStart, Without
    <3> DEFINE q == n - 1
    <3>4. /\ q \in 7 .. n - 1 /\ q + 1 = n /\ n - q = 1
          /\ s[q] = "?" /\ Without(s, 7, q - 1, "?")
          /\ u.data["path"] = [off |-> 6, len |-> q - 6]
      BY <1>a, <1>2 DEF InQueryStart
    <3> HIDE DEF q
    <3>5. InQuery(t, s, n)
      BY <1>2, <3>2, <3>3, <3>4 DEF InQueryStart, InQuery
    <3> QED
      BY <3>2, <3>5 DEF ParserAt
  <2>2. CASE ch = "#"
    <3>1. ParseUrlChar(u.state, ch) = "fragment_start"
      BY <1>a, <1>2, <2>2, QueryMoves DEF InQueryStart
    <3>2. t = [state |-> "fragment_start", old |-> u.old, data |-> u.data]
      BY <1>a, <1>b, <3>1, TurnDelimits, FieldOfState
    <3> DEFINE e == n - 1
    <3>3. e \in 7 .. e /\ e \in 6 .. n - 1 /\ e + 1 = n
      BY <1>a, <1>2 DEF InQueryStart
    <3>4. Marked(u.data, s, e) /\ Without(s, 7, e, "#")
      <4> HIDE DEF e
      <4>1. InQueryStart(u, s, e)
        BY <1>2 DEF e
      <4> QED
        BY <4>1, <3>3 DEF InQueryStart, Marked
    <3> HIDE DEF e
    <3>5. InFragment(t, s, n) /\ IsParser(t)
      BY <2>2, <3>2, <3>3, <3>4 DEF InFragment, IsParser
    <3> QED
      BY <3>5 DEF ParserAt
  <2>3. CASE ch = "bad"
    <3>1. ParseUrlChar(u.state, ch) = "dead"
      BY <1>a, <1>2, <2>3, QueryMoves DEF InQueryStart
    <3>2. t = [state |-> "dead", old |-> u.old, data |-> u.data]
      BY <1>a, <1>b, <3>1, TurnDelimits, FieldOfState
    <3>3. n \in 7 .. n
      BY <1>a
    <3>4. Dead(t, s, n) /\ IsParser(t)
      BY <2>3, <3>2, <3>3 DEF Dead, IsParser
    <3> QED
      BY <3>4 DEF ParserAt
  <2> QED
    BY <1>a, <2>1, <2>2, <2>3
<1>3. CASE InQuery(u, s, n - 1)
  <2>0. PICK q \in 7 .. n - 2 :
           /\ s[q] = "?" /\ Without(s, 7, q - 1, "?")
           /\ u.data["path"] = [off |-> 6, len |-> q - 6]
           /\ u.data["query"] = [off |-> q + 1, len |-> n - 1 - q]
    <3>1. n - 1 - 1 = n - 2
      BY <1>a
    <3> QED
      BY <1>3, <3>1 DEF InQuery
  <2>1. CASE ch \in UrlChar \cup {"?"}
    <3>1. ParseUrlChar(u.state, ch) = "query"
      BY <1>a, <1>3, <2>1, QueryMoves DEF InQuery
    <3>2. /\ IsParser(t) /\ t.state = "query" /\ t.old = "query"
          /\ DOMAIN t.data = DOMAIN u.data \cup {"query"}
          /\ t.data["path"] = u.data["path"]
          /\ t.data["query"] = Longer(u.data["query"])
      <4>1. /\ IsParser(t) /\ t.state = "query" /\ t.old = "query"
            /\ DOMAIN t.data = DOMAIN u.data \cup {"query"}
            /\ \A f \in DOMAIN u.data : f # "query" => t.data[f] = u.data[f]
            /\ u.old = "query" => t.data["query"] = Longer(u.data["query"])
            /\ u.old # "query" => t.data["query"] = New(n)
        BY <1>b, <3>1, TurnMarks
      <4> QED
        BY <1>3, <4>1 DEF InQuery
    <3>3. Without(s, 7, n, "#")
      BY <1>a, <1>3, <2>1 DEF InQuery, Without
    <3>4. t.data["query"] = [off |-> q + 1, len |-> n - q] /\ q \in 7 .. n - 1
      <4>1. n - 1 - q + 1 = n - q /\ q \in 7 .. n - 1
        BY <1>a, <2>0
      <4>2. t.data["query"] = [off |-> q + 1, len |-> n - 1 - q + 1]
        BY <2>0, <3>2 DEF Longer
      <4> QED
        BY <4>1, <4>2
    <3>5. InQuery(t, s, n)
      BY <1>3, <2>0, <3>2, <3>3, <3>4 DEF InQuery
    <3> QED
      BY <3>2, <3>5 DEF ParserAt
  <2>2. CASE ch = "#"
    <3>1. ParseUrlChar(u.state, ch) = "fragment_start"
      BY <1>a, <1>3, <2>2, QueryMoves DEF InQuery
    <3>2. t = [state |-> "fragment_start", old |-> u.old, data |-> u.data]
      BY <1>a, <1>b, <3>1, TurnDelimits, FieldOfState
    <3>3. /\ n - 1 \in 6 .. n - 1 /\ n - 1 + 1 = n /\ q \in 7 .. n - 1 /\ q # n - 1
      <4>1. n \in Nat /\ n >= 7
        BY <1>a
      <4> QED
        BY <4>1
    <3>4. Marked(u.data, s, n - 1) /\ Without(s, 7, n - 1, "#")
      BY <1>3, <2>0, <3>3 DEF InQuery, Marked
    <3>5. InFragment(t, s, n) /\ IsParser(t)
      BY <2>2, <3>2, <3>3, <3>4 DEF InFragment, IsParser
    <3> QED
      BY <3>5 DEF ParserAt
  <2>3. CASE ch = "bad"
    <3>1. ParseUrlChar(u.state, ch) = "dead"
      <4>1. u.state = "query"
        BY <1>3 DEF InQuery
      <4> QED
        BY <1>a, <2>3, <4>1, QueryMoves
    <3>2. t = [state |-> "dead", old |-> u.old, data |-> u.data]
      BY <1>a, <1>b, <3>1, TurnDelimits, FieldOfState
    <3>3. n \in 7 .. n
      BY <1>a
    <3>4. Dead(t, s, n) /\ IsParser(t)
      BY <2>3, <3>2, <3>3 DEF Dead, IsParser
    <3> QED
      BY <3>4 DEF ParserAt
  <2> QED
    BY <1>a, <2>1, <2>2, <2>3
<1>4. CASE InFragment(u, s, n - 1)
  <2>0. PICK e \in 6 .. n - 1 - 1 :
           /\ s[e + 1] = "#" /\ Without(s, 7, e, "#")
           /\ Marked(u.data, s, e)
    BY <1>4 DEF InFragment
  <2>1. e \in 6 .. n - 1 /\ e + 1 \in 7 .. n
    BY <1>a
  <2>2. PICK state : state = ParseUrlChar(u.state, ch)
    OBVIOUS
  <2>3. state \in IF ch = "bad" THEN {"dead"} ELSE {"fragment_start", "fragment"}
    BY <1>a, <1>4, <2>2, FragmentMoves DEF InFragment
  <2>4. CASE state = "fragment"
    <3>1. /\ IsParser(t) /\ t.state = "fragment"
          /\ DOMAIN t.data = DOMAIN u.data \cup {"fragment"}
          /\ \A f \in DOMAIN u.data : f # "fragment" => t.data[f] = u.data[f]
      <4>1. ParseUrlChar(u.state, ch) = "fragment"
        BY <2>2, <2>4
      <4> QED
        BY <1>b, <4>1, TurnMarks
    <3>2. Marked(t.data, s, e)
      BY <2>0, <3>1 DEF Marked
    <3>3. InFragment(t, s, n)
      BY <2>0, <2>1, <3>1, <3>2 DEF InFragment
    <3> QED
      BY <3>1, <3>3 DEF ParserAt
  <2>5. CASE state # "fragment"
    <3>1. state \in {"fragment_start", "dead"}
      BY <2>3, <2>5
    <3>2. t = [state |-> state, old |-> u.old, data |-> u.data]
      BY <1>a, <1>b, <2>2, <3>1, TurnDelimits, FieldOfState
    <3>3. InFragment(t, s, n) \/ Dead(t, s, n)
      BY <2>0, <2>1, <3>1, <3>2 DEF InFragment, Dead
    <3>4. IsParser(t)
      BY <3>2 DEF IsParser
    <3> QED
      BY <3>3, <3>4 DEF ParserAt
  <2> QED
    BY <2>4, <2>5
<1>5. CASE Dead(u, s, n - 1)
  <2>1. ParseUrlChar(u.state, ch) = "dead"
    BY <1>5, DeadStays DEF Dead
  <2>2. t = [state |-> "dead", old |-> u.old, data |-> u.data]
    BY <1>a, <1>b, <2>1, TurnDelimits, FieldOfState
  <2>3. PICK i \in 7 .. n - 1 : s[i] \in {"#", "bad"}
    BY <1>5 DEF Dead
  <2>4. i \in 7 .. n
    BY <1>a
  <2>5. Dead(t, s, n) /\ IsParser(t)
    BY <2>2, <2>3, <2>4 DEF Dead, IsParser
  <2> QED
    BY <2>5 DEF ParserAt
<1> QED
  BY <1>1, <1>2, <1>3, <1>4, <1>5 DEF ParserAt

(* The origin, and the slash behind it.                                    *)
Started(s) ==
  /\ Len(s) >= 6
  /\ s[1] = "a" /\ s[2] = ":" /\ s[3] = "/" /\ s[4] = "/" /\ s[5] = "a" /\ s[6] = "/"

LEMMA TurnAny ==
  ASSUME NEW u, IsParser(u), NEW i, NEW ch, NEW state, NEW t,
         t = Turn(u, i, ch), ParseUrlChar(u.state, ch) = state
  PROVE  /\ IsParser(t) /\ t.state = state
         /\ state \in DOMAIN FieldOf =>
              t.old = FieldOf[state] /\ DOMAIN t.data = DOMAIN u.data \cup {FieldOf[state]}
<1>1. CASE state \in DOMAIN FieldOf
  BY <1>1 DEF Turn, IsParser
<1>2. CASE state \notin DOMAIN FieldOf
  BY <1>2, TurnDelimits DEF IsParser
<1> QED
  BY <1>1, <1>2

LEMMA ParserStarts ==
  ASSUME NEW s \in Seq(Chars), Started(s), NEW f, Parses(f, s)
  PROVE  ParserAt(f[6], s, 6)
<1>1. /\ f[0] = Unparsed
      /\ f[1] = Turn(f[0], 1, "a") /\ f[2] = Turn(f[1], 2, ":") /\ f[3] = Turn(f[2], 3, "/")
      /\ f[4] = Turn(f[3], 4, "/") /\ f[5] = Turn(f[4], 5, "a") /\ f[6] = Turn(f[5], 6, "/")
  <2>1. \A n \in 0 .. Len(s) : f[n] = IF n = 0 THEN Unparsed ELSE Turn(f[n - 1], n, s[n])
    BY DEF Parses
  <2>2. Len(s) \in Nat /\ Len(s) >= 6
    BY LenProperties DEF Started
  <2>3. \A n \in 1 .. 6 : f[n] = Turn(f[n - 1], n, s[n])
    BY <2>1, <2>2
  <2>4. f[0] = Unparsed
    BY <2>1, <2>2
  <2> QED
    BY <2>3, <2>4 DEF Started
<1>2. IsParser(f[0]) /\ f[0].state = "before" /\ DOMAIN f[0].data = {}
  BY <1>1 DEF IsParser, Unparsed, NoFields
<1>3. IsParser(f[1]) /\ f[1].state = "schema" /\ DOMAIN f[1].data = {"schema"}
  <2>1. ParseUrlChar(f[0].state, "a") = "schema"
    BY <1>2, OriginMoves
  <2> QED
    BY <1>1, <1>2, <2>1, TurnAny, FieldOfState
<1>4. f[2] = [state |-> "schema_slash", old |-> f[1].old, data |-> f[1].data]
  <2>1. ParseUrlChar(f[1].state, ":") = "schema_slash"
    BY <1>3, OriginMoves
  <2> QED
    BY <1>1, <1>3, <2>1, TurnDelimits, FieldOfState
<1>5. f[3] = [state |-> "schema_slash_slash", old |-> f[1].old, data |-> f[1].data]
  <2>1. ParseUrlChar(f[2].state, "/") = "schema_slash_slash" /\ IsParser(f[2])
    BY <1>4, OriginMoves DEF IsParser
  <2> QED
    BY <1>1, <1>4, <2>1, TurnDelimits, FieldOfState
<1>6. f[4] = [state |-> "server_start", old |-> f[1].old, data |-> f[1].data]
  <2>1. ParseUrlChar(f[3].state, "/") = "server_start" /\ IsParser(f[3])
    BY <1>5, OriginMoves DEF IsParser
  <2> QED
    BY <1>1, <1>5, <2>1, TurnDelimits, FieldOfState
<1>7. /\ IsParser(f[5]) /\ f[5].state = "server" /\ f[5].old = "host"
      /\ DOMAIN f[5].data = {"schema", "host"}
  <2>1. ParseUrlChar(f[4].state, "a") = "server" /\ IsParser(f[4]) /\ f[4].data = f[1].data
    BY <1>6, OriginMoves DEF IsParser
  <2>2. "server" \in DOMAIN FieldOf /\ FieldOf["server"] = "host"
    BY FieldOfState
  <2>3. /\ IsParser(f[5]) /\ f[5].state = "server" /\ f[5].old = "host"
        /\ DOMAIN f[5].data = DOMAIN f[4].data \cup {"host"}
    BY <1>1, <2>1, <2>2, TurnAny
  <2> QED
    BY <1>3, <2>1, <2>3
<1>8. /\ IsParser(f[6]) /\ f[6].state = "path" /\ f[6].old = "path"
      /\ DOMAIN f[6].data = {"schema", "host", "path"}
      /\ f[6].data["path"] = [off |-> 6, len |-> 1]
  <2>1. ParseUrlChar(f[5].state, "/") = "path"
    BY <1>7, OriginMoves
  <2>2. /\ IsParser(f[6]) /\ f[6].state = "path" /\ f[6].old = "path"
        /\ DOMAIN f[6].data = DOMAIN f[5].data \cup {"path"}
        /\ "path" # f[5].old => f[6].data["path"] = New(6)
    BY <1>1, <2>1, TurnMarks
  <2> QED
    BY <1>7, <2>2 DEF New
<1>9. Without(s, 7, 6, "?") /\ Without(s, 7, 6, "#")
  BY DEF Without
<1> QED
  BY <1>8, <1>9 DEF ParserAt, InPath

(* At the end of an URL the parser has failed, at a character that may not *)
(* be there, or has marked the path and the query of what is before '#'.   *)
LEMMA ParsedMarks ==
  ASSUME NEW s \in Seq(Chars), Started(s)
  PROVE  ParserAt(Parsed(s), s, Len(s))
<1>1. Len(s) \in Nat /\ Len(s) >= 6
  BY LenProperties DEF Started
<1>2. PICK f : Parses(f, s) /\ Parsed(s) = f[Len(s)]
  BY <1>1, ParsedIs
<1> DEFINE S == {n \in 0 .. Len(s) : n >= 6 => ParserAt(f[n], s, n)}
<1>3. 0 \in S
  BY <1>1
<1>4. ASSUME NEW n \in 1 .. Len(s), n - 1 \in S PROVE n \in S
  <2>1. CASE n < 6
    BY <2>1
  <2>2. CASE n = 6
    BY <1>2, <2>2, ParserStarts
  <2>3. CASE n >= 7
    <3>1. ParserAt(f[n - 1], s, n - 1) /\ n \in 7 .. Len(s)
      BY <1>4, <2>3
    <3>2. f[n] = Turn(f[n - 1], n, s[n])
      BY <1>2 DEF Parses
    <3> QED
      BY <3>1, <3>2, ParserGoesOn
  <2> QED
    BY <2>1, <2>2, <2>3
<1>5. Len(s) \in S
  <2> HIDE DEF S
  <2>1. \A n \in 0 .. Len(s) : n \in S
    BY <1>1, <1>3, <1>4, Induction
  <2> QED
    BY <1>1, <2>1
<1> QED
  BY <1>1, <1>2, <1>5

-----------------------------------------------------------------------------
(* What is before a character and what is after it *)

LEMMA SubSeqIs ==
  ASSUME NEW S, NEW s \in Seq(S), NEW a \in 1 .. Len(s) + 1, NEW b \in a - 1 .. Len(s)
  PROVE  /\ SubSeq(s, a, b) \in Seq(S)
         /\ Len(SubSeq(s, a, b)) = b - a + 1
         /\ \A i \in 1 .. b - a + 1 : SubSeq(s, a, b)[i] = s[i + a - 1]
<1>1. Len(s) \in Nat /\ a \in Int /\ b \in Int
  BY LenProperties
<1>2. \A i \in a .. b : s[i] \in S
  BY <1>1, ElementOfSeq
<1>3. /\ SubSeq(s, a, b) \in Seq(S)
      /\ Len(SubSeq(s, a, b)) = IF a <= b THEN b - a + 1 ELSE 0
      /\ \A i \in 1 .. b - a + 1 : SubSeq(s, a, b)[i] = s[a + i - 1]
  BY <1>1, <1>2, SubSeqProperties
<1>4. \A i \in 1 .. b - a + 1 : a + i - 1 = i + a - 1
  BY <1>1
<1> QED
  BY <1>1, <1>3, <1>4

LEMMA SubSeqTwice ==
  ASSUME NEW S, NEW s \in Seq(S), NEW a \in 1 .. Len(s) + 1, NEW b \in a - 1 .. Len(s),
         NEW c \in 1 .. b - a + 2, NEW d \in c - 1 .. b - a + 1
  PROVE  SubSeq(SubSeq(s, a, b), c, d) = SubSeq(s, a + c - 1, a + d - 1)
<1> DEFINE t == SubSeq(s, a, b)
           l == SubSeq(t, c, d)
           r == SubSeq(s, a + c - 1, a + d - 1)
<1>1. Len(s) \in Nat /\ a \in Int /\ b \in Int /\ c \in Int /\ d \in Int
  BY LenProperties
<1>2. /\ t \in Seq(S) /\ Len(t) = b - a + 1
      /\ \A i \in 1 .. b - a + 1 : t[i] = s[i + a - 1]
  BY SubSeqIs
<1> HIDE DEF t
<1>3. c \in 1 .. Len(t) + 1 /\ d \in c - 1 .. Len(t)
  BY <1>1, <1>2
<1>4. /\ l \in Seq(S) /\ Len(l) = d - c + 1
      /\ \A i \in 1 .. d - c + 1 : l[i] = t[i + c - 1]
  BY <1>2, <1>3, SubSeqIs
<1>5. a + c - 1 \in 1 .. Len(s) + 1 /\ a + d - 1 \in (a + c - 1) - 1 .. Len(s)
  BY <1>1
<1>6. /\ r \in Seq(S) /\ Len(r) = (a + d - 1) - (a + c - 1) + 1
      /\ \A i \in 1 .. (a + d - 1) - (a + c - 1) + 1 : r[i] = s[i + (a + c - 1) - 1]
  BY <1>5, SubSeqIs
<1> HIDE DEF l, r
<1>7. (a + d - 1) - (a + c - 1) + 1 = d - c + 1
  BY <1>1
<1>8. ASSUME NEW i \in 1 .. d - c + 1 PROVE l[i] = r[i]
  <2>1. i + c - 1 \in 1 .. b - a + 1 /\ (i + c - 1) + a - 1 = i + (a + c - 1) - 1
    BY <1>1
  <2> QED
    BY <1>2, <1>4, <1>6, <1>7, <2>1
<1>9. l = r
  BY <1>4, <1>6, <1>7, <1>8, SeqEqual
<1> QED
  BY <1>9 DEF l, r, t

LEMMA MinIs ==
  ASSUME NEW I, I \subseteq Int, NEW k \in I, \A i \in I : k <= i
  PROVE  Min(I) = k
<1> DEFINE m == CHOOSE x \in I : \A y \in I : x <= y
<1>1. m \in I /\ \A y \in I : m <= y
  OBVIOUS
<1>2. m = Min(I)
  BY DEF Min
<1> HIDE DEF m
<1>3. m <= k /\ k <= m /\ m \in Int /\ k \in Int
  BY <1>1
<1> QED
  BY <1>2, <1>3

LEMMA CutNowhere ==
  ASSUME NEW s, NEW ch, \A i \in 1 .. Len(s) : s[i] # ch
  PROVE  Before(s, ch) = s /\ After(s, ch) = <<>>
<1>1. {i \in 1 .. Len(s) : s[i] = ch} = {}
  OBVIOUS
<1>2. SelectInSeq(s, LAMBDA c : c = ch) = 0
  BY <1>1 DEF SelectInSeq
<1> QED
  BY <1>2 DEF Before, After

LEMMA CutAt ==
  ASSUME NEW s, NEW ch, Len(s) \in Nat, NEW k \in 1 .. Len(s), s[k] = ch,
         \A i \in 1 .. k - 1 : s[i] # ch
  PROVE  Before(s, ch) = SubSeq(s, 1, k - 1) /\ After(s, ch) = SubSeq(s, k + 1, Len(s))
<1> DEFINE I == {i \in 1 .. Len(s) : s[i] = ch}
<1>1. k \in I /\ I \subseteq Int /\ \A i \in I : k <= i
  OBVIOUS
<1>2. Min(I) = k
  <2> HIDE DEF I
  <2> QED
    BY <1>1, MinIs
<1>3. SelectInSeq(s, LAMBDA c : c = ch) = k
  BY <1>1, <1>2 DEF SelectInSeq
<1>4. k # 0
  OBVIOUS
<1> QED
  BY <1>3, <1>4 DEF Before, After

(* The part of an URL that is sent: without the fragment.                  *)
LEMMA TargetIs ==
  ASSUME NEW s \in Seq(Chars), Started(s), NEW e \in 6 .. Len(s), Without(s, 7, e, "#"),
         e = Len(s) \/ s[e + 1] = "#"
  PROVE  Target(s) = SubSeq(s, 6, e)
<1> DEFINE t == SubSeq(s, 6, Len(s))
<1>1. Len(s) \in Nat /\ Len(s) >= 6 /\ Len(Origin) = 5
  BY LenProperties DEF Started, Origin
<1>2. t \in Seq(Chars) /\ Len(t) = Len(s) - 5 /\ \A i \in 1 .. Len(s) - 5 : t[i] = s[i + 5]
  <2>1. 6 \in 1 .. Len(s) + 1 /\ Len(s) \in 6 - 1 .. Len(s) /\ Len(s) - 6 + 1 = Len(s) - 5
        /\ \A i \in 1 .. Len(s) - 5 : i + 6 - 1 = i + 5
    BY <1>1
  <2>2. /\ t \in Seq(Chars) /\ Len(t) = Len(s) - 6 + 1
        /\ \A i \in 1 .. Len(s) - 6 + 1 : t[i] = s[i + 6 - 1]
    BY <2>1, SubSeqIs
  <2> QED
    BY <2>1, <2>2
<1>3. Target(s) = Before(t, "#")
  BY <1>1 DEF Target
<1> HIDE DEF t
<1>4. ASSUME NEW i \in 1 .. e - 5 PROVE t[i] # "#"
  <2>1. t[i] = s[i + 5] /\ (i + 5 = 6 \/ i + 5 \in 7 .. e)
    BY <1>1, <1>2
  <2> QED
    BY <2>1 DEF Without, Started
<1>5. CASE e = Len(s)
  <2>1. Before(t, "#") = t
    BY <1>2, <1>4, <1>5, CutNowhere
  <2> QED
    BY <1>3, <1>5, <2>1 DEF t
<1>6. CASE e # Len(s)
  <2>1. /\ e - 4 \in 1 .. Len(t) /\ e - 4 \in 1 .. Len(s) - 5 /\ (e - 4) + 5 = e + 1
        /\ (e - 4) - 1 = e - 5
    BY <1>1, <1>2, <1>6
  <2>2. t[e - 4] = "#"
    BY <1>2, <1>6, <2>1
  <2>3. \A i \in 1 .. (e - 4) - 1 : t[i] # "#"
    BY <1>4, <2>1
  <2>4. Before(t, "#") = SubSeq(t, 1, (e - 4) - 1)
    <3>1. Len(t) \in Nat
      BY <1>1, <1>2
    <3> QED
      BY <2>1, <2>2, <2>3, <3>1, CutAt
  <2>5. SubSeq(t, 1, e - 5) = SubSeq(s, 6, e)
    <3>1. /\ 6 \in 1 .. Len(s) + 1 /\ Len(s) \in 6 - 1 .. Len(s) /\ 1 \in 1 .. Len(s) - 6 + 2
          /\ e - 5 \in 1 - 1 .. Len(s) - 6 + 1 /\ 6 + 1 - 1 = 6 /\ 6 + (e - 5) - 1 = e
      BY <1>1
    <3>2. SubSeq(t, 1, e - 5) = SubSeq(s, 6 + 1 - 1, 6 + (e - 5) - 1)
      BY <3>1, SubSeqTwice DEF t
    <3> QED
      BY <3>1, <3>2
  <2> QED
    BY <1>3, <2>1, <2>4, <2>5
<1> QED
  BY <1>5, <1>6

LEMMA SentNoQuery ==
  ASSUME NEW s \in Seq(Chars), Started(s), NEW e \in 6 .. Len(s), Target(s) = SubSeq(s, 6, e),
         Without(s, 7, e, "?")
  PROVE  SentPath(s) = SubSeq(s, 6, e) /\ SentQuery(s) = <<>>
<1> DEFINE t == SubSeq(s, 6, e)
<1>1. Len(s) \in Nat /\ 6 \in 1 .. Len(s) + 1 /\ e \in 6 - 1 .. Len(s) /\ e - 6 + 1 = e - 5
  BY LenProperties
<1>2. Len(t) = e - 6 + 1 /\ \A i \in 1 .. e - 6 + 1 : t[i] = s[i + 6 - 1]
  BY <1>1, SubSeqIs
<1> HIDE DEF t
<1>3. ASSUME NEW i \in 1 .. Len(t) PROVE t[i] # "?"
  <2>1. t[i] = s[i + 6 - 1] /\ (i + 6 - 1 = 6 \/ i + 6 - 1 \in 7 .. e)
    BY <1>1, <1>2
  <2> QED
    BY <2>1 DEF Without, Started
<1>4. Before(t, "?") = t /\ After(t, "?") = <<>>
  BY <1>3, CutNowhere
<1> QED
  BY <1>4 DEF SentPath, SentQuery, t

LEMMA SentWithQuery ==
  ASSUME NEW s \in Seq(Chars), Started(s), NEW e \in 6 .. Len(s), Target(s) = SubSeq(s, 6, e),
         NEW q \in 7 .. e, s[q] = "?", Without(s, 7, q - 1, "?")
  PROVE  SentPath(s) = SubSeq(s, 6, q - 1) /\ SentQuery(s) = SubSeq(s, q + 1, e)
<1> DEFINE t == SubSeq(s, 6, e)
<1>1. /\ Len(s) \in Nat /\ 6 \in 1 .. Len(s) + 1 /\ e \in 6 - 1 .. Len(s) /\ e - 6 + 1 = e - 5
      /\ (q - 5) + 6 - 1 = q /\ q - 5 \in 1 .. e - 6 + 1
  BY LenProperties
<1>2. Len(t) = e - 6 + 1 /\ \A i \in 1 .. e - 6 + 1 : t[i] = s[i + 6 - 1]
  BY <1>1, SubSeqIs
<1> HIDE DEF t
<1>3. ASSUME NEW i \in 1 .. (q - 5) - 1 PROVE t[i] # "?"
  <2>1. t[i] = s[i + 6 - 1] /\ (i + 6 - 1 = 6 \/ i + 6 - 1 \in 7 .. q - 1)
    BY <1>1, <1>2
  <2> QED
    BY <2>1 DEF Without, Started
<1>4. t[q - 5] = "?" /\ q - 5 \in 1 .. Len(t) /\ Len(t) \in Nat
  <2>1. t[q - 5] = s[(q - 5) + 6 - 1]
    BY <1>1, <1>2
  <2>2. e - 6 + 1 \in Nat
    BY <1>1
  <2> QED
    BY <1>1, <1>2, <2>1, <2>2
<1>5. /\ Before(t, "?") = SubSeq(t, 1, (q - 5) - 1)
      /\ After(t, "?") = SubSeq(t, (q - 5) + 1, Len(t))
  BY <1>3, <1>4, CutAt
<1>6. SubSeq(t, 1, (q - 5) - 1) = SubSeq(s, 6, q - 1)
  <2>1. /\ 1 \in 1 .. e - 6 + 2 /\ (q - 5) - 1 \in 1 - 1 .. e - 6 + 1
        /\ 6 + 1 - 1 = 6 /\ 6 + ((q - 5) - 1) - 1 = q - 1
    BY <1>1
  <2>2. SubSeq(t, 1, (q - 5) - 1) = SubSeq(s, 6 + 1 - 1, 6 + ((q - 5) - 1) - 1)
    BY <1>1, <2>1, SubSeqTwice DEF t
  <2> QED
    BY <2>1, <2>2
<1>7. SubSeq(t, (q - 5) + 1, Len(t)) = SubSeq(s, q + 1, e)
  <2>1. /\ (q - 5) + 1 \in 1 .. e - 6 + 2 /\ e - 6 + 1 \in ((q - 5) + 1) - 1 .. e - 6 + 1
        /\ 6 + ((q - 5) + 1) - 1 = q + 1 /\ 6 + (e - 6 + 1) - 1 = e
    BY <1>1
  <2>2. SubSeq(t, (q - 5) + 1, e - 6 + 1) = SubSeq(s, 6 + ((q - 5) + 1) - 1, 6 + (e - 6 + 1) - 1)
    BY <1>1, <2>1, SubSeqTwice DEF t
  <2> QED
    BY <1>2, <2>1, <2>2
<1> QED
  BY <1>5, <1>6, <1>7 DEF SentPath, SentQuery, t

(* An URL that http_parser accepts ends in a target: in all of it, or      *)
(* before '#'.                                                             *)
LEMMA AcceptedIsMarked ==
  ASSUME NEW s \in Seq(Chars), Started(s), ~ ParseFails(s)
  PROVE  \E e \in 6 .. Len(s) : /\ Without(s, 7, e, "#") /\ (e = Len(s) \/ s[e + 1] = "#")
                                /\ Marked(Parsed(s).data, s, e)
<1> DEFINE u == Parsed(s)
           n == Len(s)
<1>1. n \in Nat /\ n >= 6 /\ n \in 6 .. n
  BY LenProperties DEF Started
<1>2. ParserAt(u, s, n) /\ u.state # "dead"
  BY ParsedMarks DEF ParseFails
<1> HIDE DEF u
<1>3. CASE InPath(u, s, n)
  <2>1. Marked(u.data, s, n) /\ Without(s, 7, n, "#")
    BY <1>3 DEF InPath, Marked
  <2> QED
    BY <1>1, <2>1 DEF u
<1>4. CASE InQueryStart(u, s, n)
  <2>1. n \in 7 .. n
    BY <1>1, <1>4 DEF InQueryStart
  <2>2. Marked(u.data, s, n) /\ Without(s, 7, n, "#")
    BY <1>4, <2>1 DEF InQueryStart, Marked
  <2> QED
    BY <1>1, <2>2 DEF u
<1>5. CASE InQuery(u, s, n)
  <2>1. PICK q \in 7 .. n - 1 :
           /\ s[q] = "?" /\ Without(s, 7, q - 1, "?")
           /\ u.data["path"] = [off |-> 6, len |-> q - 6]
           /\ u.data["query"] = [off |-> q + 1, len |-> n - q]
    BY <1>5 DEF InQuery
  <2>2. q \in 7 .. n /\ q # n
    BY <1>1
  <2>3. Marked(u.data, s, n) /\ Without(s, 7, n, "#")
    BY <1>5, <2>1, <2>2 DEF InQuery, Marked
  <2> QED
    BY <1>1, <2>3 DEF u
<1>6. CASE InFragment(u, s, n)
  <2>1. PICK e \in 6 .. n - 1 : s[e + 1] = "#" /\ Without(s, 7, e, "#") /\ Marked(u.data, s, e)
    BY <1>6 DEF InFragment
  <2>2. e \in 6 .. n
    BY <1>1
  <2> QED
    BY <2>1, <2>2 DEF u
<1> QED
  BY <1>2, <1>3, <1>4, <1>5, <1>6 DEF ParserAt, Dead

(* The path and the query that qs_parse_url extracts are those that are    *)
(* sent, for every URL that http_parser accepts.                           *)
THEOREM TargetsAgree ==
  ASSUME NEW s \in Seq(Chars), Started(s), ~ ParseFails(s)
  PROVE  ExtractField(s, "path") = SentPath(s) /\ ExtractField(s, "query") = SentQuery(s)
<1> DEFINE u == Parsed(s)
<1>1. Len(s) \in Nat
  BY LenProperties
<1>2. PICK e \in 6 .. Len(s) : /\ Without(s, 7, e, "#") /\ (e = Len(s) \/ s[e + 1] = "#")
                               /\ Marked(u.data, s, e)
  BY AcceptedIsMarked
<1>3. Target(s) = SubSeq(s, 6, e)
  BY <1>2, TargetIs
<1>4. /\ ExtractField(s, "path") = IF "path" \notin DOMAIN u.data THEN <<>>
              ELSE SubSeq(s, u.data["path"].off, u.data["path"].off + u.data["path"].len - 1)
      /\ ExtractField(s, "query") = IF "query" \notin DOMAIN u.data THEN <<>>
              ELSE SubSeq(s, u.data["query"].off, u.data["query"].off + u.data["query"].len - 1)
  BY DEF ExtractField
<1> HIDE DEF u
<1>5. CASE /\ Without(s, 7, e, "?")
           /\ u.data["path"] = [off |-> 6, len |-> e - 5]
           /\ "query" \notin DOMAIN u.data
  <2>1. 6 + (e - 5) - 1 = e
    BY <1>1
  <2>2. ExtractField(s, "path") = SubSeq(s, 6, e) /\ ExtractField(s, "query") = <<>>
    BY <1>2, <1>4, <1>5, <2>1 DEF Marked
  <2> QED
    BY <1>3, <1>5, <2>2, SentNoQuery
<1>6. ASSUME NEW q \in 7 .. e,
             s[q] = "?", Without(s, 7, q - 1, "?"),
             u.data["path"] = [off |-> 6, len |-> q - 6],
             IF q = e THEN "query" \notin DOMAIN u.data
             ELSE "query" \in DOMAIN u.data /\ u.data["query"] = [off |-> q + 1, len |-> e - q]
      PROVE  ExtractField(s, "path") = SentPath(s) /\ ExtractField(s, "query") = SentQuery(s)
  <2>1. 6 + (q - 6) - 1 = q - 1 /\ (q + 1) + (e - q) - 1 = e
    BY <1>1
  <2>2. ExtractField(s, "path") = SubSeq(s, 6, q - 1)
    BY <1>2, <1>4, <1>6, <2>1 DEF Marked
  <2>3. SentPath(s) = SubSeq(s, 6, q - 1) /\ SentQuery(s) = SubSeq(s, q + 1, e)
    BY <1>3, <1>6, SentWithQuery
  <2>4. CASE q = e
    <3>1. SubSeq(s, q + 1, e) = <<>>
      BY <1>1, <2>4, SubSeqEmpty
    <3> QED
      BY <1>4, <1>6, <2>2, <2>3, <2>4, <3>1
  <2>5. CASE q # e
    <3>1. /\ "query" \in DOMAIN u.data
          /\ u.data["query"].off = q + 1 /\ u.data["query"].len = e - q
      BY <1>6, <2>5
    <3>2. ExtractField(s, "query") = SubSeq(s, q + 1, e)
      BY <1>4, <2>1, <3>1
    <3> QED
      BY <2>2, <2>3, <3>2
  <2> QED
    BY <2>4, <2>5
<1> QED
  BY <1>2, <1>5, <1>6 DEF Marked

-----------------------------------------------------------------------------
(* The query that is signed *)

WriteOut(t, c) == t \o IF c = "/" THEN Slash ELSE <<c>>

Escapes(f, q) == f = [n \in 0 .. Len(q) |-> IF n = 0 THEN <<>> ELSE WriteOut(f[n - 1], q[n])]

LEMMA EscapesExists == ASSUME NEW q, Len(q) \in Nat PROVE \E f : Escapes(f, q)
<1> DEFINE N == Len(q)
           UpTo(g, k) == g[0] = <<>> /\ \A n \in 1 .. k : g[n] = WriteOut(g[n - 1], q[n])
           S == {k \in 0 .. N : \E g : UpTo(g, k)}
<1>1. 0 \in S
  <2> DEFINE h == [n \in {0} |-> <<>>]
  <2>1. UpTo(h, 0) /\ 0 \in 0 .. N
    OBVIOUS
  <2> HIDE DEF h, UpTo
  <2> QED
    BY <2>1
<1>2. ASSUME NEW k \in 1 .. N, k - 1 \in S PROVE k \in S
  <2>1. PICK g : UpTo(g, k - 1)
    BY <1>2
  <2> DEFINE h == [n \in 0 .. k |-> IF n < k THEN g[n] ELSE WriteOut(g[k - 1], q[k])]
  <2>2. h[0] = <<>> /\ h[k] = WriteOut(h[k - 1], q[k])
    BY <2>1
  <2>3. ASSUME NEW n \in 1 .. k - 1 PROVE h[n] = WriteOut(h[n - 1], q[n])
    BY <2>1
  <2> HIDE DEF h
  <2>4. UpTo(h, k)
    BY <2>2, <2>3
  <2> QED
    BY <2>4
<1>3. N \in S
  <2> HIDE DEF S
  <2>1. \A k \in 0 .. N : k \in S
    BY <1>1, <1>2, Induction
  <2> QED
    BY <2>1
<1>4. PICK g : UpTo(g, N)
  BY <1>3
<1> DEFINE f == [n \in 0 .. N |-> g[n]]
<1>5. \A n \in 0 .. N : f[n] = IF n = 0 THEN <<>> ELSE WriteOut(f[n - 1], q[n])
  BY <1>4
<1>6. f = [n \in 0 .. N |-> f[n]]
  OBVIOUS
<1> HIDE DEF f
<1>7. Escapes(f, q)
  BY <1>5, <1>6 DEF Escapes
<1> QED
  BY <1>7

LEMMA SlashesCount ==
  ASSUME NEW q, NEW n \in Nat \ {0}
  PROVE  /\ NumSlashes(q, n) = NumSlashes(q, n - 1) + IF q[n] = "/" THEN 1 ELSE 0
         /\ NumSlashes(q, n - 1) \in Nat /\ NumSlashes(q, 0) = 0
<1> DEFINE T(k) == {i \in 1 .. k : q[i] = "/"}
<1>1. IsFiniteSet(T(n - 1)) /\ n \notin T(n - 1)
  <2>1. IsFiniteSet(1 .. n - 1)
    BY FS_Interval
  <2> QED
    BY <2>1, FS_Subset
<1>2. Cardinality(T(n - 1)) \in Nat
  BY <1>1, FS_CardinalityType
<1>3. T(0) = {} /\ Cardinality({}) = 0
  BY FS_EmptySet
<1>4. CASE q[n] = "/"
  <2>1. T(n) = T(n - 1) \cup {n}
    BY <1>4
  <2> HIDE DEF T
  <2>2. Cardinality(T(n)) = Cardinality(T(n - 1)) + 1
    BY <1>1, <2>1, FS_AddElement
  <2> QED
    BY <1>2, <1>3, <1>4, <2>2 DEF NumSlashes, T
<1>5. CASE q[n] # "/"
  <2>1. T(n) = T(n - 1)
    BY <1>5
  <2> HIDE DEF T
  <2> QED
    <3>1. NumSlashes(q, n) = NumSlashes(q, n - 1)
      BY <2>1 DEF NumSlashes, T
    <3>2. NumSlashes(q, n - 1) \in Nat /\ NumSlashes(q, 0) = 0
      BY <1>2, <1>3 DEF NumSlashes, T
    <3> QED
      BY <1>5, <3>1, <3>2
<1> QED
  BY <1>4, <1>5

(* What the n-th piece of the query adds to what is written already.       *)
Written == Chars \cup {"2", "F"}

WrittenOut(w, t, c) ==
  /\ w \in Seq(Written)
  /\ Len(w) = Len(t) + 1 + 2 * (IF c = "/" THEN 1 ELSE 0)
  /\ \A i \in 1 .. Len(t) : w[i] = t[i]
  /\ c = "/" => w[Len(t) + 1] = "%" /\ w[Len(t) + 2] = "2" /\ w[Len(t) + 3] = "F"
  /\ c # "/" => w[Len(t) + 1] = c

LEMMA PieceWritten ==
  ASSUME NEW t \in Seq(Written), NEW c \in Chars, NEW w, w = WriteOut(t, c)
  PROVE  WrittenOut(w, t, c)
<1>a. Len(t) \in Nat
  BY LenProperties
<1>1. CASE c = "/"
  <2>1. Slash \in Seq(Written) /\ Len(Slash) = 3 /\ Slash[1] = "%" /\ Slash[2] = "2" /\ Slash[3] = "F"
    BY DEF Slash, Written, Chars
  <2>2. w = t \o Slash
    BY <1>1 DEF WriteOut
  <2>3. /\ w \in Seq(Written) /\ Len(w) = Len(t) + Len(Slash)
        /\ \A i \in 1 .. Len(t) + Len(Slash) :
             w[i] = IF i <= Len(t) THEN t[i] ELSE Slash[i - Len(t)]
    <3>1. PICK slash \in Seq(Written) : slash = Slash
      BY <2>1
    <3> QED
      BY <2>2, <3>1, ConcatProperties
  <2>4. \A i \in 1 .. 3 : w[Len(t) + i] = Slash[i]
    <3>1. SUFFICES ASSUME NEW i \in 1 .. 3 PROVE w[Len(t) + i] = Slash[i]
      OBVIOUS
    <3>2. Len(t) + i \in 1 .. Len(t) + 3 /\ ~ (Len(t) + i <= Len(t)) /\ (Len(t) + i) - Len(t) = i
      BY <1>a
    <3> QED
      BY <2>1, <2>3, <3>2
  <2> QED
    BY <1>a, <1>1, <2>1, <2>3, <2>4 DEF WrittenOut
<1>2. CASE c # "/"
  <2>1. <<c>> \in Seq(Written) /\ Len(<<c>>) = 1 /\ <<c>>[1] = c
    BY DEF Written
  <2>2. w = t \o <<c>>
    BY <1>2 DEF WriteOut
  <2>3. /\ w \in Seq(Written) /\ Len(w) = Len(t) + 1
        /\ \A i \in 1 .. Len(t) + 1 :
             w[i] = IF i <= Len(t) THEN t[i] ELSE <<c>>[i - Len(t)]
    BY <2>1, <2>2, ConcatProperties
  <2>4. Len(t) + 1 \in 1 .. Len(t) + 1 /\ ~ (Len(t) + 1 <= Len(t)) /\ (Len(t) + 1) - Len(t) = 1
    BY <1>a
  <2>5. w[Len(t) + 1] = c
    BY <2>1, <2>3, <2>4
  <2> QED
    BY <1>a, <1>2, <2>3, <2>5 DEF WrittenOut
<1> QED
  BY <1>1, <1>2

(* Each character is where the slashes before it put it, and nothing is    *)
(* left of the room that was measured.                                     *)
THEOREM EscapedFits ==
  ASSUME NEW q \in Seq(Chars)
  PROVE  Len(Escaped(q)) = TmpbufLen(q) /\ EscapedAs(q, Escaped(q))
<1> DEFINE f == CHOOSE g : Escapes(g, q)
           N == Len(q)
<1>1. N \in Nat
  BY LenProperties
<1>2. Escaped(q) = f[N]
  BY DEF Escaped, Escapes, WriteOut
<1>3. Escapes(f, q)
  BY <1>1, EscapesExists
<1> HIDE DEF f
<1> DEFINE At(i) == i + 2 * NumSlashes(q, i - 1)
           InPlace(n) ==
             /\ f[n] \in Seq(Written)
             /\ Len(f[n]) = n + 2 * NumSlashes(q, n)
             /\ \A i \in 1 .. n :
                  /\ q[i] = "/" => /\ At(i) + 2 <= Len(f[n]) /\ f[n][At(i)] = "%"
                                   /\ f[n][At(i) + 1] = "2" /\ f[n][At(i) + 2] = "F"
                  /\ q[i] # "/" => At(i) <= Len(f[n]) /\ f[n][At(i)] = q[i]
           S == {n \in 0 .. N : InPlace(n)}
<1>4. 0 \in S
  <2>1. f[0] = <<>>
    BY <1>1, <1>3 DEF Escapes
  <2>2. <<>> \in Seq(Written) /\ Len(<<>>) = 0
    BY EmptySeq
  <2>3. 1 \in Nat \ {0} /\ NumSlashes(q, 0) = 0
    BY SlashesCount
  <2>4. f[0] \in Seq(Written) /\ Len(f[0]) = 0 + 2 * NumSlashes(q, 0)
    BY <2>1, <2>2, <2>3
  <2>5. InPlace(0)
    BY <2>4
  <2> QED
    BY <1>1, <2>5
<1>5. ASSUME NEW n \in 1 .. N, n - 1 \in S PROVE n \in S
  <2> DEFINE t == f[n - 1]
             w == f[n]
             c == q[n]
  <2>1. w = WriteOut(t, c)
    BY <1>1, <1>3 DEF Escapes
  <2>2. c \in Chars
    BY ElementOfSeq
  <2>3. InPlace(n - 1)
    BY <1>5
  <2> HIDE DEF t, w, c
  <2>4. /\ w \in Seq(Written)
        /\ Len(w) = Len(t) + 1 + 2 * (IF c = "/" THEN 1 ELSE 0)
        /\ \A i \in 1 .. Len(t) : w[i] = t[i]
        /\ c = "/" => w[Len(t) + 1] = "%" /\ w[Len(t) + 2] = "2" /\ w[Len(t) + 3] = "F"
        /\ c # "/" => w[Len(t) + 1] = c
    <3>1. t \in Seq(Written)
      BY <2>3 DEF t
    <3>2. WrittenOut(w, t, c)
      BY <2>1, <2>2, <3>1, PieceWritten
    <3> QED
      BY <3>2 DEF WrittenOut
  <2>5. /\ NumSlashes(q, n) = NumSlashes(q, n - 1) + IF c = "/" THEN 1 ELSE 0
        /\ NumSlashes(q, n - 1) \in Nat
    BY <1>1, SlashesCount DEF c
  <2>6. Len(t) = n - 1 + 2 * NumSlashes(q, n - 1) /\ Len(t) \in Nat
    BY <2>3, LenProperties DEF t
  <2>7. Len(w) = n + 2 * NumSlashes(q, n)
    BY <1>1, <2>4, <2>5, <2>6
  <2>8. Len(t) + 1 = At(n)
    BY <1>1, <2>5, <2>6
  <2>9. ASSUME NEW i \in 1 .. n
        PROVE  /\ q[i] = "/" => /\ At(i) + 2 <= Len(w) /\ w[At(i)] = "%"
                                /\ w[At(i) + 1] = "2" /\ w[At(i) + 2] = "F"
               /\ q[i] # "/" => At(i) <= Len(w) /\ w[At(i)] = q[i]
    <3>1. CASE i = n
      <4>1. Len(t) + 2 = At(n) + 1 /\ Len(t) + 3 = At(n) + 2
        BY <2>6, <2>8
      <4> QED
        BY <2>4, <2>6, <2>8, <3>1, <4>1 DEF c
    <3>2. CASE i # n
      <4>1. i \in 1 .. n - 1 /\ i \in Nat \ {0}
        BY <1>1, <3>2
      <4>2. /\ q[i] = "/" => /\ At(i) + 2 <= Len(t) /\ t[At(i)] = "%"
                             /\ t[At(i) + 1] = "2" /\ t[At(i) + 2] = "F"
            /\ q[i] # "/" => At(i) <= Len(t) /\ t[At(i)] = q[i]
        BY <2>3, <4>1 DEF t
      <4>3. PICK k : k = At(i)
        OBVIOUS
      <4>4. k \in Nat /\ k >= 1
        BY <4>1, <4>3, SlashesCount
      <4>5. Len(t) <= Len(w)
        BY <2>4, <2>6
      <4> HIDE DEF At
      <4>6. CASE q[i] = "/"
        BY <2>4, <2>6, <2>7, <4>2, <4>3, <4>4, <4>5, <4>6
      <4>7. CASE q[i] # "/"
        BY <2>4, <2>6, <4>2, <4>3, <4>4, <4>5, <4>7
      <4> QED
        BY <4>6, <4>7
    <3> QED
      BY <3>1, <3>2
  <2>10. InPlace(n)
    <3> HIDE DEF At
    <3> QED
      BY <2>4, <2>7, <2>9 DEF w
  <2> QED
    BY <2>10
<1>6. InPlace(N)
  <2> HIDE DEF S
  <2>1. \A n \in 0 .. N : n \in S
    BY <1>1, <1>4, <1>5, Induction
  <2> QED
    BY <1>1, <2>1 DEF S
<1> DEFINE e == f[N]
<1>7. Len(e) = TmpbufLen(q)
  BY <1>6 DEF TmpbufLen
<1>8. ASSUME NEW i \in 1 .. N
      PROVE  IF q[i] = "/" THEN SubSeq(e, At(i), At(i) + 2) = Slash ELSE e[At(i)] = q[i]
  <2>1. CASE q[i] # "/"
    BY <1>6, <2>1
  <2>2. CASE q[i] = "/"
    <3>1. PICK k : k = At(i)
      OBVIOUS
    <3>2. k \in Nat /\ k >= 1
      BY <3>1, SlashesCount
    <3>3. /\ k + 2 <= Len(e) /\ e[k] = "%" /\ e[k + 1] = "2" /\ e[k + 2] = "F"
          /\ e \in Seq(Written)
      BY <1>6, <2>2, <3>1
    <3> HIDE DEF e, At
    <3>4. Len(e) \in Nat
      BY <3>3, LenProperties
    <3>5. k \in 1 .. Len(e) + 1 /\ k + 2 \in k - 1 .. Len(e) /\ (k + 2) - k + 1 = 3
      BY <3>2, <3>3, <3>4
    <3>6. /\ SubSeq(e, k, k + 2) \in Seq(Written) /\ Len(SubSeq(e, k, k + 2)) = 3
          /\ \A j \in 1 .. 3 : SubSeq(e, k, k + 2)[j] = e[j + k - 1]
      <4>1. /\ SubSeq(e, k, k + 2) \in Seq(Written) /\ Len(SubSeq(e, k, k + 2)) = (k + 2) - k + 1
            /\ \A j \in 1 .. (k + 2) - k + 1 : SubSeq(e, k, k + 2)[j] = e[j + k - 1]
        BY <3>3, <3>5, SubSeqIs
      <4> QED
        BY <3>5, <4>1
    <3>7. /\ Slash \in Seq(Written) /\ Len(Slash) = 3
          /\ Slash[1] = "%" /\ Slash[2] = "2" /\ Slash[3] = "F"
      BY DEF Slash, Written, Chars
    <3>8. ASSUME NEW j \in 1 .. 3 PROVE SubSeq(e, k, k + 2)[j] = Slash[j]
      <4>1. /\ 1 + k - 1 = k /\ 2 + k - 1 = k + 1 /\ 3 + k - 1 = k + 2
            /\ j = 1 \/ j = 2 \/ j = 3
        BY <3>2
      <4> QED
        BY <3>3, <3>6, <3>7, <4>1
    <3>9. SubSeq(e, k, k + 2) = Slash
      BY <3>6, <3>7, <3>8, SeqEqual
    <3> QED
      BY <2>2, <3>1, <3>9
  <2> QED
    BY <2>1, <2>2
<1>9. EscapedAs(q, e)
  <2> HIDE DEF e
  <2> QED
    BY <1>8 DEF EscapedAs
<1> QED
  BY <1>2, <1>7, <1>9

-----------------------------------------------------------------------------
(* The query that is written *)

AddParam(t, n, v) == t \o (IF n = 1 THEN <<>> ELSE <<"&">>) \o Param(v)

Joins(f, ps) ==
  f = [n \in 0 .. Len(ps) |-> IF n = 0 THEN <<>> ELSE AddParam(f[n - 1], n, ps[n])]

LEMMA JoinsExists == ASSUME NEW ps, Len(ps) \in Nat PROVE \E f : Joins(f, ps)
<1> DEFINE N == Len(ps)
           UpTo(g, k) == g[0] = <<>> /\ \A n \in 1 .. k : g[n] = AddParam(g[n - 1], n, ps[n])
           S == {k \in 0 .. N : \E g : UpTo(g, k)}
<1>1. 0 \in S
  <2> DEFINE h == [n \in {0} |-> <<>>]
  <2>1. UpTo(h, 0) /\ 0 \in 0 .. N
    OBVIOUS
  <2> HIDE DEF h, UpTo
  <2> QED
    BY <2>1
<1>2. ASSUME NEW k \in 1 .. N, k - 1 \in S PROVE k \in S
  <2>1. PICK g : UpTo(g, k - 1)
    BY <1>2
  <2> DEFINE h == [n \in 0 .. k |-> IF n < k THEN g[n] ELSE AddParam(g[k - 1], k, ps[k])]
  <2>2. h[0] = <<>> /\ h[k] = AddParam(h[k - 1], k, ps[k])
    BY <2>1
  <2>3. ASSUME NEW n \in 1 .. k - 1 PROVE h[n] = AddParam(h[n - 1], n, ps[n])
    BY <2>1
  <2> HIDE DEF h
  <2>4. UpTo(h, k)
    BY <2>2, <2>3
  <2> QED
    BY <2>4
<1>3. N \in S
  <2> HIDE DEF S
  <2>1. \A k \in 0 .. N : k \in S
    BY <1>1, <1>2, Induction
  <2> QED
    BY <2>1
<1>4. PICK g : UpTo(g, N)
  BY <1>3
<1> DEFINE f == [n \in 0 .. N |-> g[n]]
<1>5. \A n \in 0 .. N : f[n] = IF n = 0 THEN <<>> ELSE AddParam(f[n - 1], n, ps[n])
  BY <1>4
<1>6. f = [n \in 0 .. N |-> f[n]]
  OBVIOUS
<1> HIDE DEF f
<1>7. Joins(f, ps)
  BY <1>5, <1>6 DEF Joins
<1> QED
  BY <1>7

LEMMA QueryTextIs ==
  ASSUME NEW ps, Len(ps) \in Nat
  PROVE  \E f : Joins(f, ps) /\ QueryText(ps) = f[Len(ps)]
<1> DEFINE f == CHOOSE g : Joins(g, ps)
<1>1. QueryText(ps) = f[Len(ps)]
  BY DEF QueryText, Joins, AddParam
<1>2. Joins(f, ps)
  BY JoinsExists
<1> QED
  BY <1>1, <1>2

(* One parameter: a letter, with '=' and the value if there is one.        *)
LEMMA ParamIs ==
  ASSUME NEW v \in Seq(Chars)
  PROVE  /\ Param(v) \in Seq(Chars) /\ Len(Param(v)) >= 1
         /\ v = <<>> => Len(Param(v)) = 1 /\ Param(v)[1] = "a"
         /\ v # <<>> => /\ Len(Param(v)) = Len(v) + 2 /\ Param(v)[1] = "a" /\ Param(v)[2] = "="
                        /\ \A i \in 1 .. Len(v) : Param(v)[i + 2] = v[i]
<1>1. Len(v) \in Nat
  BY LenProperties
<1>2. CASE v = <<>>
  <2>1. PICK p : p = <<"a">>
    OBVIOUS
  <2>2. p = Param(v)
    BY <1>2, <2>1 DEF Param
  <2>3. p \in Seq(Chars) /\ Len(p) = 1 /\ p[1] = "a"
    BY <2>1 DEF Chars
  <2>4. Len(p) >= 1
    BY <2>3
  <2> QED
    BY <1>2, <2>2, <2>3, <2>4
<1>3. CASE v # <<>>
  <2> DEFINE b == <<"a", "=">>
  <2>1. b \in Seq(Chars) /\ Len(b) = 2 /\ b[1] = "a" /\ b[2] = "="
    BY DEF Chars
  <2>2. PICK p : p = Param(v)
    OBVIOUS
  <2>3. p = b \o v
    BY <1>3, <2>2 DEF Param
  <2> HIDE DEF b
  <2>4. /\ p \in Seq(Chars) /\ Len(p) = 2 + Len(v)
        /\ \A i \in 1 .. 2 + Len(v) : p[i] = IF i <= 2 THEN b[i] ELSE v[i - 2]
    <3>1. /\ p \in Seq(Chars) /\ Len(p) = Len(b) + Len(v)
          /\ \A i \in 1 .. Len(b) + Len(v) : p[i] = IF i <= Len(b) THEN b[i] ELSE v[i - Len(b)]
      BY <2>1, <2>3, ConcatProperties
    <3> QED
      BY <2>1, <3>1
  <2>5. p[1] = "a" /\ p[2] = "="
    BY <1>1, <2>1, <2>4
  <2>6. ASSUME NEW i \in 1 .. Len(v) PROVE p[i + 2] = v[i]
    <3>1. i + 2 \in 1 .. 2 + Len(v) /\ ~ (i + 2 <= 2) /\ (i + 2) - 2 = i
      BY <1>1
    <3> QED
      BY <2>4, <3>1
  <2> QED
    BY <1>1, <1>3, <2>2, <2>4, <2>5, <2>6
<1> QED
  BY <1>2, <1>3

(* What a parameter adds to the query: itself, behind '&' if it is not the *)
(* first.                                                                  *)
Sep(n) == IF n = 1 THEN 0 ELSE 1

LEMMA SepIs == \A n : Sep(n) \in {0, 1} /\ (n = 1 <=> Sep(n) = 0)
  BY DEF Sep

AddsParam(w, t, n, v) ==
  LET o == Len(t) + Sep(n) IN
    /\ w \in Seq(Chars)
    /\ Len(w) = o + Len(Param(v))
    /\ \A i \in 1 .. Len(t) : w[i] = t[i]
    /\ n # 1 => w[o] = "&"
    /\ \A i \in 1 .. Len(Param(v)) : w[o + i] = Param(v)[i]

LEMMA ParamAdded ==
  ASSUME NEW t \in Seq(Chars), NEW n \in Nat, NEW v \in Seq(Chars), NEW w, w = AddParam(t, n, v)
  PROVE  AddsParam(w, t, n, v)
<1>1. PICK p \in Seq(Chars) : p = Param(v)
  BY ParamIs
<1>2. PICK sep \in Seq(Chars) :
         /\ sep = IF n = 1 THEN <<>> ELSE <<"&">>
         /\ Len(sep) = Sep(n)
         /\ n # 1 => sep[1] = "&"
  <2>1. CASE n = 1
    BY <2>1, EmptySeq DEF Sep
  <2>2. CASE n # 1
    <3>1. <<"&">> \in Seq(Chars) /\ Len(<<"&">>) = 1 /\ <<"&">>[1] = "&"
      BY DEF Chars
    <3> QED
      BY <2>2, <3>1 DEF Sep
  <2> QED
    BY <2>1, <2>2
<1>3. Len(t) \in Nat /\ Len(p) \in Nat
  BY LenProperties
<1>4. PICK u : u = t \o sep
  OBVIOUS
<1>5. /\ u \in Seq(Chars) /\ Len(u) = Len(t) + Len(sep)
      /\ \A i \in 1 .. Len(t) + Len(sep) : u[i] = IF i <= Len(t) THEN t[i] ELSE sep[i - Len(t)]
  BY <1>4, ConcatProperties
<1>6. w = u \o p
  BY <1>1, <1>2, <1>4 DEF AddParam
<1>7. /\ w \in Seq(Chars) /\ Len(w) = Len(u) + Len(p)
      /\ \A i \in 1 .. Len(u) + Len(p) : w[i] = IF i <= Len(u) THEN u[i] ELSE p[i - Len(u)]
  <2>1. u \in Seq(Chars)
    BY <1>5
  <2> QED
    BY <1>6, <2>1, ConcatProperties
<1>8. Len(u) = Len(t) + Sep(n) /\ Sep(n) \in {0, 1}
  BY <1>2, <1>5, SepIs
<1>9. ASSUME NEW i \in 1 .. Len(t) PROVE w[i] = t[i]
  <2>1. i \in 1 .. Len(t) + Len(sep) /\ i \in 1 .. Len(u) + Len(p) /\ i <= Len(u) /\ i <= Len(t)
    BY <1>2, <1>3, <1>8
  <2> QED
    BY <1>5, <1>7, <2>1
<1>10. ASSUME n # 1 PROVE w[Len(u)] = "&"
  <2>1. /\ Len(u) = Len(t) + 1 /\ Len(sep) = 1 /\ Len(u) \in 1 .. Len(t) + Len(sep)
        /\ ~ (Len(u) <= Len(t)) /\ Len(u) - Len(t) = 1 /\ Len(u) \in 1 .. Len(u) + Len(p)
    <3>1. Sep(n) = 1
      BY <1>10, SepIs
    <3> QED
      BY <1>2, <1>3, <1>8, <3>1
  <2>2. u[Len(u)] = "&"
    BY <1>2, <1>5, <1>10, <2>1
  <2> QED
    BY <1>7, <2>1, <2>2
<1>11. ASSUME NEW i \in 1 .. Len(p) PROVE w[Len(u) + i] = p[i]
  <2>1. /\ Len(u) + i \in 1 .. Len(u) + Len(p) /\ ~ (Len(u) + i <= Len(u))
        /\ (Len(u) + i) - Len(u) = i
    BY <1>3, <1>8
  <2> QED
    BY <1>7, <2>1
<1> QED
  BY <1>1, <1>7, <1>8, <1>9, <1>10, <1>11 DEF AddsParam

LEMMA JoinsAdd ==
  ASSUME NEW ps \in Seq(Seq(Chars)), NEW f, Joins(f, ps)
  PROVE  /\ f[0] = <<>>
         /\ \A n \in 0 .. Len(ps) : f[n] \in Seq(Chars)
         /\ \A n \in 1 .. Len(ps) : AddsParam(f[n], f[n - 1], n, ps[n])
<1>1. Len(ps) \in Nat
  BY LenProperties
<1>2. f[0] = <<>> /\ <<>> \in Seq(Chars)
  BY <1>1, EmptySeq DEF Joins
<1>3. ASSUME NEW n \in 1 .. Len(ps), f[n - 1] \in Seq(Chars)
      PROVE  f[n] \in Seq(Chars) /\ AddsParam(f[n], f[n - 1], n, ps[n])
  <2>1. f[n] = AddParam(f[n - 1], n, ps[n]) /\ n \in Nat
    <3>1. n \in 0 .. Len(ps) /\ n # 0 /\ n \in Nat
      BY <1>1
    <3> QED
      BY <3>1 DEF Joins
  <2>2. ps[n] \in Seq(Chars)
    BY ElementOfSeq
  <2>3. AddsParam(f[n], f[n - 1], n, ps[n])
    BY <1>3, <2>1, <2>2, ParamAdded
  <2> QED
    BY <2>3 DEF AddsParam
<1> DEFINE S == {n \in 0 .. Len(ps) : f[n] \in Seq(Chars)}
<1>4. 0 \in S
  <2>1. 0 \in 0 .. Len(ps)
    BY <1>1
  <2> QED
    BY <1>2, <2>1
<1>5. \A n \in 1 .. Len(ps) : n - 1 \in S => n \in S
  BY <1>1, <1>3
<1>6. \A n \in 0 .. Len(ps) : n \in S
  <2> HIDE DEF S
  <2> QED
    BY <1>1, <1>4, <1>5, Induction
<1>7. ASSUME NEW n \in 1 .. Len(ps) PROVE AddsParam(f[n], f[n - 1], n, ps[n])
  <2>1. n - 1 \in 0 .. Len(ps)
    BY <1>1
  <2> QED
    BY <1>3, <1>6, <2>1
<1> QED
  BY <1>2, <1>6, <1>7

(* t begins with s.                                                        *)
Begins(s, t) == Len(s) <= Len(t) /\ \A i \in 1 .. Len(s) : t[i] = s[i]

(* The query of some parameters begins with that of the first of them.     *)
LEMMA JoinsBegin ==
  ASSUME NEW ps \in Seq(Seq(Chars)), NEW f, Joins(f, ps), NEW n \in 0 .. Len(ps)
  PROVE  Begins(f[n], f[Len(ps)])
<1> DEFINE N == Len(ps)
           S == {k \in 0 .. N : n <= k => Begins(f[n], f[k])}
<1>1. N \in Nat /\ \A k \in 0 .. N : Len(f[k]) \in Nat
  BY JoinsAdd, LenProperties
<1>2. Begins(f[n], f[n])
  BY <1>1 DEF Begins
<1>3. 0 \in S
  BY <1>1, <1>2
<1>4. ASSUME NEW k \in 1 .. N, k - 1 \in S PROVE k \in S
  <2>1. CASE n >= k
    BY <1>1, <1>2, <2>1
  <2>2. CASE n < k
    <3>1. Begins(f[n], f[k - 1])
      BY <1>1, <1>4, <2>2
    <3>2. AddsParam(f[k], f[k - 1], k, ps[k])
      BY JoinsAdd
    <3>3. Len(Param(ps[k])) \in Nat /\ k - 1 \in 0 .. N
      <4>1. ps[k] \in Seq(Chars)
        BY ElementOfSeq
      <4>2. Param(ps[k]) \in Seq(Chars)
        BY <4>1, ParamIs
      <4> QED
        BY <1>1, <4>2, LenProperties
    <3>4. Len(f[k - 1]) <= Len(f[k]) /\ \A i \in 1 .. Len(f[k - 1]) : f[k][i] = f[k - 1][i]
      <4>1. /\ Len(f[k]) = Len(f[k - 1]) + Sep(k) + Len(Param(ps[k]))
            /\ \A i \in 1 .. Len(f[k - 1]) : f[k][i] = f[k - 1][i]
        BY <3>2 DEF AddsParam
      <4>2. Sep(k) \in {0, 1} /\ Len(f[k - 1]) \in Nat
        BY <1>1, <3>3, SepIs
      <4> QED
        BY <3>3, <4>1, <4>2
    <3>5. Begins(f[n], f[k])
      BY <1>1, <3>1, <3>3, <3>4 DEF Begins
    <3> QED
      BY <3>5
  <2> QED
    BY <1>1, <2>1, <2>2
<1>5. N \in S
  <2> HIDE DEF S
  <2>1. \A k \in 0 .. N : k \in S
    BY <1>1, <1>3, <1>4, Induction
  <2> QED
    BY <1>1, <2>1
<1> QED
  BY <1>1, <1>5

(* Where the n-th parameter is in the query of all of them.                *)
PlacedAt(t, o, n, p) ==
  /\ o \in Nat /\ o + Len(p) <= Len(t)
  /\ n # 1 => t[o] = "&"
  /\ \A i \in 1 .. Len(p) : t[o + i] = p[i]

LEMMA ParamAt ==
  ASSUME NEW ps \in Seq(Seq(Chars)), NEW f, Joins(f, ps), NEW n \in 1 .. Len(ps)
  PROVE  /\ PlacedAt(f[Len(ps)], Len(f[n - 1]) + Sep(n), n, Param(ps[n]))
         /\ Len(f[n - 1]) + Sep(n) + Len(Param(ps[n])) = Len(f[n])
<1> DEFINE o == Len(f[n - 1]) + Sep(n)
           p == Param(ps[n])
<1>a. PICK t : t = f[Len(ps)]
  OBVIOUS
<1>1. Len(ps) \in Nat /\ n \in 0 .. Len(ps) /\ n - 1 \in 0 .. Len(ps)
  BY LenProperties
<1>2. Len(f[n - 1]) \in Nat /\ Len(f[n]) \in Nat
  BY <1>1, JoinsAdd, LenProperties
<1>3. AddsParam(f[n], f[n - 1], n, ps[n])
  BY JoinsAdd
<1>4. Begins(f[n], t)
  BY <1>1, <1>a, JoinsBegin
<1>5. Len(p) \in Nat
  <2>1. ps[n] \in Seq(Chars)
    BY ElementOfSeq
  <2>2. p \in Seq(Chars)
    BY <2>1, ParamIs
  <2> QED
    BY <2>2, LenProperties
<1>6. /\ Len(f[n]) = o + Len(p)
      /\ n # 1 => f[n][o] = "&"
      /\ \A i \in 1 .. Len(p) : f[n][o + i] = p[i]
  BY <1>3 DEF AddsParam
<1>7. o \in Nat /\ (n # 1 => o >= 1)
  <2>1. Sep(n) \in {0, 1} /\ (n # 1 => Sep(n) = 1)
    BY SepIs
  <2> QED
    BY <1>2, <2>1
<1> HIDE DEF o, p
<1>8. ASSUME n # 1 PROVE t[o] = "&"
  <2>1. o \in 1 .. Len(f[n])
    BY <1>5, <1>6, <1>7, <1>8
  <2> QED
    BY <1>4, <1>6, <1>8, <2>1 DEF Begins
<1>9. ASSUME NEW i \in 1 .. Len(p) PROVE t[o + i] = p[i]
  <2>1. o + i \in 1 .. Len(f[n])
    BY <1>5, <1>6, <1>7
  <2> QED
    BY <1>4, <1>6, <2>1 DEF Begins
<1>10. PlacedAt(t, o, n, p)
  <2>1. o + Len(p) <= Len(t)
    BY <1>4, <1>6 DEF Begins
  <2> QED
    BY <1>7, <1>8, <1>9, <2>1 DEF PlacedAt
<1> QED
  BY <1>6, <1>10, <1>a DEF o, p

(* Every place of a query belongs to a parameter or separates two.         *)
LEMMA QueryPlaces ==
  ASSUME NEW ps \in Seq(Seq(Chars)), NEW k \in 1 .. Len(QueryText(ps))
  PROVE  \/ QueryText(ps)[k] = "&"
         \/ \E n \in 1 .. Len(ps) : \E i \in 1 .. Len(Param(ps[n])) :
              QueryText(ps)[k] = Param(ps[n])[i]
<1> DEFINE N == Len(ps)
<1>1. N \in Nat
  BY LenProperties
<1>2. PICK f : Joins(f, ps) /\ QueryText(ps) = f[N]
  BY <1>1, QueryTextIs
<1> DEFINE Known(c) == \/ c = "&"
                       \/ \E n \in 1 .. N : \E i \in 1 .. Len(Param(ps[n])) : c = Param(ps[n])[i]
           S == {n \in 0 .. N : \A j \in 1 .. Len(f[n]) : Known(f[n][j])}
<1>3. 0 \in S
  <2>1. f[0] = <<>> /\ Len(<<>>) = 0
    BY <1>2, JoinsAdd
  <2> QED
    BY <1>1, <2>1
<1>4. ASSUME NEW n \in 1 .. N, n - 1 \in S PROVE n \in S
  <2>1. AddsParam(f[n], f[n - 1], n, ps[n])
    BY <1>2, JoinsAdd
  <2>2. Len(f[n - 1]) \in Nat
    <3>1. n - 1 \in 0 .. N
      BY <1>1
    <3> QED
      BY <1>2, <3>1, JoinsAdd, LenProperties
  <2>3. Len(Param(ps[n])) \in Nat
    <3>1. ps[n] \in Seq(Chars)
      BY ElementOfSeq
    <3>2. Param(ps[n]) \in Seq(Chars)
      BY <3>1, ParamIs
    <3> QED
      BY <3>2, LenProperties
  <2> DEFINE o == Len(f[n - 1]) + Sep(n)
  <2>4. /\ Len(f[n]) = o + Len(Param(ps[n]))
        /\ \A i \in 1 .. Len(f[n - 1]) : f[n][i] = f[n - 1][i]
        /\ n # 1 => f[n][o] = "&"
        /\ \A i \in 1 .. Len(Param(ps[n])) : f[n][o + i] = Param(ps[n])[i]
    BY <2>1 DEF AddsParam
  <2>a. o \in Nat /\ (o = Len(f[n - 1]) \/ (n # 1 /\ o = Len(f[n - 1]) + 1))
    <3>1. Sep(n) \in {0, 1} /\ (n = 1 => Sep(n) = 0)
      BY SepIs
    <3> QED
      BY <2>2, <3>1
  <2> HIDE DEF o
  <2>5. ASSUME NEW j \in 1 .. Len(f[n]) PROVE Known(f[n][j])
    <3>1. CASE j <= Len(f[n - 1])
      <4>1. j \in 1 .. Len(f[n - 1])
        BY <2>2, <2>3, <2>4, <3>1
      <4> HIDE DEF Known
      <4> QED
        BY <1>4, <2>4, <4>1
    <3>2. CASE j > Len(f[n - 1]) /\ j <= o
      <4>1. n # 1 /\ j = o
        BY <2>2, <2>a, <3>2
      <4> QED
        BY <2>4, <4>1
    <3>3. CASE j > o
      <4>1. j - o \in 1 .. Len(Param(ps[n])) /\ o + (j - o) = j
        <5>1. Len(f[n]) = o + Len(Param(ps[n]))
          BY <2>4
        <5> QED
          BY <2>3, <2>a, <3>3, <5>1
      <4>2. f[n][j] = Param(ps[n])[j - o]
        BY <2>4, <4>1
      <4> QED
        BY <4>1, <4>2
    <3> HIDE DEF Known
    <3>4. j <= Len(f[n - 1]) \/ (j > Len(f[n - 1]) /\ j <= o) \/ j > o
      BY <2>2, <2>a
    <3> QED
      BY <3>1, <3>2, <3>3, <3>4
  <2> HIDE DEF Known
  <2> QED
    BY <2>5
<1>5. N \in S
  <2> HIDE DEF S
  <2>1. \A n \in 0 .. N : n \in S
    BY <1>1, <1>3, <1>4, Induction
  <2> QED
    BY <1>1, <2>1
<1>6. Known(f[N][k])
  <2> HIDE DEF Known
  <2> QED
    BY <1>2, <1>5
<1> QED
  BY <1>2, <1>6

-----------------------------------------------------------------------------
(* The URL that is written *)

LEMMA QueryTextKind ==
  ASSUME NEW ps \in Seq(Seq(Chars))
  PROVE  /\ QueryText(ps) \in Seq(Chars)
         /\ ps # <<>> => Len(QueryText(ps)) >= 1
<1> DEFINE N == Len(ps)
<1>1. N \in Nat /\ N \in 0 .. N
  BY LenProperties
<1>2. PICK f : Joins(f, ps) /\ QueryText(ps) = f[N]
  BY <1>1, QueryTextIs
<1>3. f[N] \in Seq(Chars)
  BY <1>1, <1>2, JoinsAdd
<1>4. ASSUME ps # <<>> PROVE Len(f[N]) >= 1
  <2>1. 1 \in 1 .. N
    BY <1>1, <1>4, EmptySeq
  <2>2. ps[1] \in Seq(Chars)
    BY <2>1, ElementOfSeq
  <2>3. Len(Param(ps[1])) >= 1 /\ Len(Param(ps[1])) \in Nat
    BY <2>2, ParamIs, LenProperties
  <2> DEFINE o == Len(f[1 - 1]) + Sep(1)
  <2>4. o \in Nat /\ o + Len(Param(ps[1])) <= Len(f[N])
    BY <1>2, <2>1, ParamAt DEF PlacedAt
  <2> HIDE DEF o
  <2>5. Len(f[N]) \in Nat
    BY <1>3, LenProperties
  <2> QED
    BY <2>3, <2>4, <2>5
<1> QED
  BY <1>2, <1>3, <1>4

(* What follows the key.                                                   *)
QueryPart(ps) == IF ps = <<>> THEN <<>> ELSE <<"?">> \o QueryText(ps)

LEMMA QueryPartIs ==
  ASSUME NEW ps \in Seq(Seq(Chars))
  PROVE  /\ QueryPart(ps) \in Seq(Chars)
         /\ ps = <<>> => Len(QueryPart(ps)) = 0
         /\ ps # <<>> => /\ QueryPart(ps)[1] = "?"
                         /\ Len(QueryPart(ps)) = 1 + Len(QueryText(ps))
                         /\ \A i \in 1 .. Len(QueryText(ps)) :
                              QueryPart(ps)[1 + i] = QueryText(ps)[i]
<1>1. CASE ps = <<>>
  BY <1>1, EmptySeq DEF QueryPart
<1>2. CASE ps # <<>>
  <2> DEFINE mark == <<"?">>
  <2>1. mark \in Seq(Chars) /\ Len(mark) = 1 /\ mark[1] = "?"
    BY DEF Chars
  <2>2. QueryPart(ps) = mark \o QueryText(ps)
    BY <1>2 DEF QueryPart
  <2> HIDE DEF mark
  <2>3. PICK t \in Seq(Chars) : t = QueryText(ps)
    BY QueryTextKind
  <2>4. PICK w : w = QueryPart(ps)
    OBVIOUS
  <2>5. /\ w \in Seq(Chars) /\ Len(w) = 1 + Len(t) /\ Len(t) \in Nat
        /\ \A i \in 1 .. 1 + Len(t) : w[i] = IF i <= 1 THEN mark[i] ELSE t[i - 1]
    <3>1. w = mark \o t
      BY <2>2, <2>3, <2>4
    <3>2. /\ w \in Seq(Chars) /\ Len(w) = Len(mark) + Len(t)
          /\ \A i \in 1 .. Len(mark) + Len(t) :
               w[i] = IF i <= Len(mark) THEN mark[i] ELSE t[i - Len(mark)]
      BY <2>1, <3>1, ConcatProperties
    <3>3. Len(t) \in Nat
      BY LenProperties
    <3> QED
      BY <2>1, <3>2, <3>3
  <2>6. w[1] = "?"
    BY <2>1, <2>5
  <2>7. ASSUME NEW i \in 1 .. Len(t) PROVE w[1 + i] = t[i]
    <3>1. 1 + i \in 1 .. 1 + Len(t) /\ ~ (1 + i <= 1) /\ (1 + i) - 1 = i
      BY <2>5
    <3> QED
      BY <2>5, <3>1
  <2> QED
    BY <1>2, <2>3, <2>4, <2>5, <2>6, <2>7
<1> QED
  BY <1>1, <1>2

(* Origin and slash, the key, and the parameters, each in its place.       *)
Spelled(s, key, rest) ==
  /\ s \in Seq(Chars) /\ Started(s) /\ Len(s) = 6 + Len(key) + Len(rest)
  /\ \A i \in 1 .. Len(key) : s[6 + i] = key[i]
  /\ \A i \in 1 .. Len(rest) : s[6 + Len(key) + i] = rest[i]

LEMMA UrlIs ==
  ASSUME NEW r \in RequestType
  PROVE  Spelled(Url(r), r.key, QueryPart(r.params))
<1>a. PICK s : s = Url(r)
  OBVIOUS
<1>b. PICK rest : rest = QueryPart(r.params)
  OBVIOUS
<1>1. r.key \in Seq(Chars) /\ r.params \in Seq(Seq(Chars))
  BY DEF RequestType
<1>2. PICK k \in Seq(Chars) : k = r.key
  BY <1>1
<1>3. rest \in Seq(Chars)
  BY <1>1, <1>b, QueryPartIs
<1> DEFINE b == Origin \o <<"/">>
<1>5. /\ b \in Seq(Chars) /\ Len(b) = 6
      /\ b[1] = "a" /\ b[2] = ":" /\ b[3] = "/" /\ b[4] = "/" /\ b[5] = "a" /\ b[6] = "/"
  <2> DEFINE c == <<"/">>
  <2>1. /\ Origin \in Seq(Chars) /\ Len(Origin) = 5
        /\ Origin[1] = "a" /\ Origin[2] = ":" /\ Origin[3] = "/" /\ Origin[4] = "/"
        /\ Origin[5] = "a"
    BY DEF Origin, Chars
  <2>2. c \in Seq(Chars) /\ Len(c) = 1 /\ c[1] = "/"
    BY DEF Chars
  <2>3. b = Origin \o c
    OBVIOUS
  <2> HIDE DEF b, c
  <2>4. /\ b \in Seq(Chars) /\ Len(b) = Len(Origin) + Len(c)
        /\ \A i \in 1 .. Len(Origin) + Len(c) :
             b[i] = IF i <= Len(Origin) THEN Origin[i] ELSE c[i - Len(Origin)]
    BY <2>1, <2>2, <2>3, ConcatProperties
  <2>5. \A i \in 1 .. 6 : b[i] = IF i <= 5 THEN Origin[i] ELSE c[i - 5]
    BY <2>1, <2>2, <2>4
  <2>6. b[1] = Origin[1] /\ b[2] = Origin[2] /\ b[3] = Origin[3] /\ b[4] = Origin[4]
    BY <2>5
  <2>7. b[5] = Origin[5] /\ b[6] = c[1]
    BY <2>5
  <2> QED
    BY <2>1, <2>2, <2>4, <2>6, <2>7
<1>6. s = b \o k \o rest
  BY <1>2, <1>a, <1>b DEF Url, QueryPart
<1> HIDE DEF b
<1>7. PICK u : u = b \o k
  OBVIOUS
<1>8. /\ u \in Seq(Chars) /\ Len(u) = 6 + Len(k)
      /\ \A i \in 1 .. 6 + Len(k) : u[i] = IF i <= 6 THEN b[i] ELSE k[i - 6]
  <2>1. /\ u \in Seq(Chars) /\ Len(u) = Len(b) + Len(k)
        /\ \A i \in 1 .. Len(b) + Len(k) : u[i] = IF i <= Len(b) THEN b[i] ELSE k[i - Len(b)]
    BY <1>5, <1>7, ConcatProperties
  <2> QED
    BY <1>5, <2>1
<1>9. /\ s \in Seq(Chars) /\ Len(s) = Len(u) + Len(rest)
      /\ \A i \in 1 .. Len(u) + Len(rest) : s[i] = IF i <= Len(u) THEN u[i] ELSE rest[i - Len(u)]
  <2>1. u \in Seq(Chars) /\ s = u \o rest
    BY <1>6, <1>7, <1>8
  <2> QED
    BY <1>3, <2>1, ConcatProperties
<1>10. Len(k) \in Nat /\ Len(rest) \in Nat
  BY <1>3, LenProperties
<1>11. ASSUME NEW i \in 1 .. 6 + Len(k)
       PROVE  s[i] = IF i <= 6 THEN b[i] ELSE k[i - 6]
  <2>1. i \in 1 .. Len(u) + Len(rest) /\ i <= Len(u)
    BY <1>8, <1>10
  <2>2. s[i] = u[i]
    BY <1>9, <2>1
  <2> QED
    BY <1>8, <2>2
<1>12. Started(s)
  <2>1. \A i \in 1 .. 6 : i \in 1 .. 6 + Len(k) /\ i <= 6
    BY <1>10
  <2>2. \A i \in 1 .. 6 : s[i] = b[i]
    BY <1>11, <2>1
  <2>3. Len(s) >= 6
    BY <1>8, <1>9, <1>10
  <2> QED
    BY <1>5, <2>2, <2>3 DEF Started
<1>13. ASSUME NEW i \in 1 .. Len(k) PROVE s[6 + i] = k[i]
  <2>1. 6 + i \in 1 .. 6 + Len(k) /\ ~ (6 + i <= 6) /\ (6 + i) - 6 = i
    BY <1>10
  <2> QED
    BY <1>11, <2>1
<1>14. ASSUME NEW i \in 1 .. Len(rest) PROVE s[Len(u) + i] = rest[i]
  <2>1. /\ Len(u) + i \in 1 .. Len(u) + Len(rest) /\ ~ (Len(u) + i <= Len(u))
        /\ (Len(u) + i) - Len(u) = i
    BY <1>8, <1>10
  <2> QED
    BY <1>9, <2>1
<1> QED
  BY <1>2, <1>8, <1>9, <1>12, <1>13, <1>14, <1>a, <1>b DEF Spelled

-----------------------------------------------------------------------------
(* Names in which nothing has a meaning of its own *)

PlainRequest(r) == /\ Plain(r.key, {"?"})
                   /\ \A i \in 1 .. Len(r.params) : Plain(r.params[i], {"&"})

LEMMA PlainIs ==
  ASSUME NEW s \in Seq(Chars), NEW reserved, Plain(s, reserved), NEW i \in 1 .. Len(s)
  PROVE  s[i] \notin reserved \cup {"#", "%", "bad"}
<1>1. DOMAIN s = 1 .. Len(s)
  BY LenProperties
<1>2. s[i] \in ToSet(s)
  BY <1>1 DEF ToSet
<1> QED
  BY <1>2 DEF Plain

(* What a plain parameter is written with.                                 *)
LEMMA PlainParam ==
  ASSUME NEW v \in Seq(Chars), Plain(v, {"&"}), NEW i \in 1 .. Len(Param(v))
  PROVE  Param(v)[i] \notin {"&", "#", "%", "bad"}
<1>1. CASE v = <<>>
  <2>1. Len(Param(v)) = 1 /\ Param(v)[1] = "a"
    BY <1>1, ParamIs
  <2>2. i = 1
    BY <2>1
  <2> QED
    BY <2>1, <2>2
<1>2. CASE v # <<>>
  <2>1. /\ Len(Param(v)) = Len(v) + 2 /\ Param(v)[1] = "a" /\ Param(v)[2] = "="
        /\ \A j \in 1 .. Len(v) : Param(v)[j + 2] = v[j]
    BY <1>2, ParamIs
  <2>2. Len(v) \in Nat
    BY LenProperties
  <2>3. CASE i <= 2
    BY <2>1, <2>3
  <2>4. CASE i > 2
    <3>1. i - 2 \in 1 .. Len(v) /\ (i - 2) + 2 = i
      BY <2>1, <2>2, <2>4
    <3>2. Param(v)[i] = v[i - 2]
      BY <2>1, <3>1
    <3>3. v[i - 2] \notin {"&"} \cup {"#", "%", "bad"}
      BY <3>1, PlainIs
    <3> QED
      BY <3>2, <3>3
  <2> QED
    BY <2>1, <2>2, <2>3, <2>4
<1> QED
  BY <1>1, <1>2

(* Nothing in their URL begins a fragment, or is refused; nothing before   *)
(* the parameters begins a query.                                          *)
LEMMA PlainUrlIs ==
  ASSUME NEW r \in RequestType, PlainRequest(r), NEW s, s = Url(r)
  PROVE  /\ \A i \in 7 .. Len(s) : s[i] \notin {"#", "bad"}
         /\ \A i \in 7 .. 6 + Len(r.key) : s[i] # "?"
<1>1. r.key \in Seq(Chars) /\ r.params \in Seq(Seq(Chars))
  BY DEF RequestType
<1>2. PICK rest \in Seq(Chars) : rest = QueryPart(r.params)
  BY <1>1, QueryPartIs
<1>3. /\ s \in Seq(Chars) /\ Len(s) = 6 + Len(r.key) + Len(rest)
      /\ \A i \in 1 .. Len(r.key) : s[6 + i] = r.key[i]
      /\ \A i \in 1 .. Len(rest) : s[6 + Len(r.key) + i] = rest[i]
  BY <1>2, UrlIs DEF Spelled
<1>4. Len(r.key) \in Nat /\ Len(rest) \in Nat
  BY <1>1, LenProperties
<1>5. ASSUME NEW i \in 7 .. 6 + Len(r.key) PROVE s[i] \notin {"#", "bad", "?"}
  <2>1. i - 6 \in 1 .. Len(r.key) /\ 6 + (i - 6) = i
    BY <1>4
  <2>2. s[i] = r.key[i - 6]
    BY <1>3, <2>1
  <2>3. r.key[i - 6] \notin {"?"} \cup {"#", "%", "bad"}
    BY <1>1, <2>1, PlainIs DEF PlainRequest
  <2> QED
    BY <2>2, <2>3
<1>6. ASSUME NEW j \in 1 .. Len(rest) PROVE rest[j] \notin {"#", "bad"}
  <2>1. CASE r.params = <<>>
    <3>1. Len(rest) = 0
      BY <1>1, <1>2, <2>1, QueryPartIs
    <3> QED
      BY <3>1
  <2>2. CASE r.params # <<>>
    <3> DEFINE q == QueryText(r.params)
    <3>1. /\ rest[1] = "?" /\ Len(rest) = 1 + Len(q)
          /\ \A i \in 1 .. Len(q) : rest[1 + i] = q[i]
      BY <1>1, <1>2, <2>2, QueryPartIs
    <3>2. Len(q) \in Nat
      BY <1>1, QueryTextKind, LenProperties
    <3>3. CASE j = 1
      BY <3>1, <3>3
    <3>4. CASE j # 1
      <4>1. j - 1 \in 1 .. Len(q) /\ 1 + (j - 1) = j
        BY <3>1, <3>2, <3>4
      <4>2. rest[j] = q[j - 1]
        BY <3>1, <4>1
      <4>3. \/ q[j - 1] = "&"
            \/ \E n \in 1 .. Len(r.params) : \E i \in 1 .. Len(Param(r.params[n])) :
                 q[j - 1] = Param(r.params[n])[i]
        BY <1>1, <4>1, QueryPlaces
      <4>4. ASSUME NEW n \in 1 .. Len(r.params), NEW i \in 1 .. Len(Param(r.params[n]))
            PROVE  Param(r.params[n])[i] \notin {"#", "bad"}
        <5>1. r.params[n] \in Seq(Chars) /\ Plain(r.params[n], {"&"})
          BY <1>1, ElementOfSeq DEF PlainRequest
        <5> QED
          BY <5>1, PlainParam
      <4> HIDE DEF q
      <4> QED
        BY <4>2, <4>3, <4>4
    <3> QED
      BY <3>3, <3>4
  <2> QED
    BY <2>1, <2>2
<1>7. ASSUME NEW i \in 7 .. Len(s) PROVE s[i] \notin {"#", "bad"}
  <2>1. CASE i <= 6 + Len(r.key)
    BY <1>4, <1>5, <2>1
  <2>2. CASE i > 6 + Len(r.key)
    <3> DEFINE j == i - (6 + Len(r.key))
    <3>1. j \in 1 .. Len(rest) /\ 6 + Len(r.key) + j = i
      BY <1>3, <1>4, <2>2
    <3> HIDE DEF j
    <3> QED
      BY <1>3, <1>6, <3>1
  <2> QED
    BY <1>3, <1>4, <2>1, <2>2
<1> QED
  BY <1>5, <1>7

(* http_parser accepts their URL, and the store is sent the key as path    *)
(* and the parameters as query.                                            *)
LEMMA PlainUrlSent ==
  ASSUME NEW r \in RequestType, PlainRequest(r), NEW s, s = Url(r)
  PROVE  /\ ~ ParseFails(s)
         /\ Tail(SentPath(s)) = r.key
         /\ SentQuery(s) = QueryText(r.params)
<1>1. r.key \in Seq(Chars) /\ r.params \in Seq(Seq(Chars))
  BY DEF RequestType
<1>2. PICK rest \in Seq(Chars) : rest = QueryPart(r.params)
  BY <1>1, QueryPartIs
<1>3. /\ s \in Seq(Chars) /\ Started(s) /\ Len(s) = 6 + Len(r.key) + Len(rest)
      /\ \A i \in 1 .. Len(r.key) : s[6 + i] = r.key[i]
      /\ \A i \in 1 .. Len(rest) : s[6 + Len(r.key) + i] = rest[i]
  BY <1>2, UrlIs DEF Spelled
<1>4. Len(r.key) \in Nat /\ Len(rest) \in Nat
  BY <1>1, LenProperties
<1> DEFINE e == Len(s)
           p == 6 + Len(r.key)
<1>5. /\ e \in 6 .. Len(s) /\ p \in 6 .. e /\ p \in Nat
  BY <1>3, <1>4
<1>6. /\ \A i \in 7 .. e : s[i] \notin {"#", "bad"}
      /\ Without(s, 7, e, "#") /\ Without(s, 7, p, "?")
  BY PlainUrlIs DEF Without
<1>7. ~ ParseFails(s)
  <2>1. ParserAt(Parsed(s), s, e)
    BY <1>3, ParsedMarks
  <2>2. PICK u : u = Parsed(s)
    OBVIOUS
  <2>3. ParserAt(u, s, e)
    BY <2>1, <2>2
  <2>4. ~ Dead(u, s, e)
    BY <1>6 DEF Dead
  <2>5. u.state # "dead" /\ "host" \in DOMAIN u.data
    BY <2>3, <2>4 DEF ParserAt, InPath, InQueryStart, InQuery, InFragment, Marked
  <2> QED
    BY <2>2, <2>5 DEF ParseFails
<1>8. Target(s) = SubSeq(s, 6, e)
  BY <1>3, <1>5, <1>6, TargetIs
<1>9. SentPath(s) = SubSeq(s, 6, p) /\ SentQuery(s) = QueryText(r.params)
  <2>1. CASE r.params = <<>>
    <3>1. Len(rest) = 0 /\ p = e
      <4>1. Len(rest) = 0
        BY <1>1, <1>2, <2>1, QueryPartIs
      <4> QED
        BY <1>3, <1>4, <4>1
    <3>2. SentPath(s) = SubSeq(s, 6, e) /\ SentQuery(s) = <<>>
      BY <1>3, <1>5, <1>6, <1>8, <3>1, SentNoQuery
    <3>3. QueryText(r.params) = <<>>
      <4>1. Len(r.params) = 0
        BY <2>1, EmptySeq
      <4>2. PICK f : Joins(f, r.params) /\ QueryText(r.params) = f[0]
        BY <4>1, QueryTextIs
      <4> QED
        BY <1>1, <4>2, JoinsAdd
    <3> QED
      BY <3>1, <3>2, <3>3
  <2>2. CASE r.params # <<>>
    <3>0. PICK t \in Seq(Chars) : t = QueryText(r.params)
      BY <1>1, QueryTextKind
    <3>1. /\ rest[1] = "?" /\ Len(rest) = 1 + Len(t) /\ Len(t) \in Nat
          /\ \A i \in 1 .. Len(t) : rest[1 + i] = t[i]
      BY <1>1, <1>2, <2>2, <3>0, QueryPartIs, LenProperties
    <3> DEFINE q == p + 1
    <3>2. q \in 7 .. e /\ q - 1 = p /\ e = q + Len(t) /\ q \in Nat
      <4>1. e = p + Len(rest) /\ Len(rest) = 1 + Len(t)
        BY <1>3, <3>1
      <4>2. Len(t) \in Nat /\ p \in Nat /\ p >= 6
        BY <1>4, <3>1
      <4> HIDE DEF e, p
      <4> QED
        BY <4>1, <4>2
    <3>3. s[q] = "?"
      <4>1. 1 \in 1 .. Len(rest)
        BY <3>1
      <4> QED
        BY <1>3, <3>1, <4>1
    <3> HIDE DEF p
    <3>4. Without(s, 7, q - 1, "?")
      BY <1>6, <3>2
    <3>5. SentPath(s) = SubSeq(s, 6, q - 1) /\ SentQuery(s) = SubSeq(s, q + 1, e)
      BY <1>3, <1>5, <1>8, <3>2, <3>3, <3>4, SentWithQuery
    <3>6. SubSeq(s, q + 1, e) = t
      <4> DEFINE w == SubSeq(s, q + 1, e)
      <4>1. /\ q + 1 \in 1 .. Len(s) + 1 /\ e \in (q + 1) - 1 .. Len(s)
            /\ e - (q + 1) + 1 = Len(t)
        BY <3>1, <3>2
      <4>2. /\ w \in Seq(Chars) /\ Len(w) = e - (q + 1) + 1
            /\ \A i \in 1 .. e - (q + 1) + 1 : w[i] = s[i + (q + 1) - 1]
        BY <1>3, <4>1, SubSeqIs
      <4> HIDE DEF w, q
      <4>3. ASSUME NEW i \in 1 .. Len(t) PROVE w[i] = t[i]
        <5>1. 1 + i \in 1 .. Len(rest) /\ i + (q + 1) - 1 = 6 + Len(r.key) + (1 + i)
          <6>1. Len(rest) = 1 + Len(t) /\ Len(t) \in Nat
            BY <3>1
          <6>2. i \in Nat /\ i >= 1 /\ i <= Len(t)
            BY <6>1
          <6>3. q = 6 + Len(r.key) + 1
            BY DEF q, p
          <6>4. 1 + i \in 1 .. Len(rest)
            BY <6>1, <6>2
          <6>5. \A x, y, z \in Int : x = 6 + y + 1 => z + (x + 1) - 1 = 6 + y + (1 + z)
            OBVIOUS
          <6>6. q \in Int /\ Len(r.key) \in Int /\ i \in Int
            BY <1>4, <3>2, <6>2
          <6>7. i + (q + 1) - 1 = 6 + Len(r.key) + (1 + i)
            BY <6>3, <6>5, <6>6
          <6> QED
            BY <6>4, <6>7
        <5>2. w[i] = s[6 + Len(r.key) + (1 + i)]
          BY <4>1, <4>2, <5>1
        <5> QED
          BY <1>3, <3>1, <5>1, <5>2
      <4> QED
        BY <4>1, <4>2, <4>3, SeqEqual DEF w
    <3> QED
      BY <3>0, <3>2, <3>5, <3>6
  <2> QED
    BY <2>1, <2>2
<1>10. Tail(SentPath(s)) = r.key
  <2> DEFINE t == SubSeq(s, 6, p)
  <2>1. PICK k \in Seq(Chars) : k = r.key
    BY <1>1
  <2>2. /\ 6 \in 1 .. Len(s) + 1 /\ p \in 6 - 1 .. Len(s) /\ p - 6 + 1 = Len(k) + 1
    BY <1>3, <1>4, <2>1
  <2>3. /\ t \in Seq(Chars) /\ Len(t) = p - 6 + 1
        /\ \A i \in 1 .. p - 6 + 1 : t[i] = s[i + 6 - 1]
    BY <1>3, <2>2, SubSeqIs
  <2> HIDE DEF t, p
  <2>4. t # <<>>
    BY <1>4, <2>1, <2>2, <2>3, EmptySeq
  <2>5. /\ Tail(t) \in Seq(Chars) /\ Len(Tail(t)) = Len(t) - 1
        /\ \A i \in 1 .. Len(Tail(t)) : Tail(t)[i] = t[i + 1]
    BY <2>3, <2>4, HeadTailProperties
  <2>6. Len(Tail(t)) = Len(k)
    BY <1>4, <2>1, <2>2, <2>3, <2>5
  <2>7. ASSUME NEW i \in 1 .. Len(k) PROVE Tail(t)[i] = k[i]
    <3>1. i + 1 \in 1 .. p - 6 + 1 /\ (i + 1) + 6 - 1 = 6 + i
      BY <1>4, <2>1, <2>2
    <3>2. Tail(t)[i] = t[i + 1]
      BY <2>5, <2>6
    <3>3. t[i + 1] = s[6 + i]
      BY <2>3, <3>1
    <3> QED
      BY <1>3, <2>1, <3>2, <3>3
  <2>8. Tail(t) = k
    BY <2>5, <2>6, <2>7, SeqEqual
  <2> QED
    BY <1>9, <2>1, <2>8 DEF t
<1> QED
  BY <1>7, <1>9, <1>10

-----------------------------------------------------------------------------
(* What the store reads in a query and in a name *)

LEMMA ParamValue == ASSUME NEW v \in Seq(Chars) PROVE After(Param(v), "=") = v
<1>1. PICK p \in Seq(Chars) : p = Param(v)
  BY ParamIs
<1>2. Len(v) \in Nat /\ Len(p) \in Nat
  BY LenProperties
<1>3. CASE v = <<>>
  <2>1. Len(p) = 1 /\ p[1] = "a"
    BY <1>1, <1>3, ParamIs
  <2>2. \A i \in 1 .. Len(p) : p[i] # "="
    <3>1. \A i \in 1 .. Len(p) : i = 1
      BY <2>1
    <3> QED
      BY <2>1, <3>1
  <2>3. After(p, "=") = <<>>
    BY <2>2, CutNowhere
  <2> QED
    BY <1>1, <1>3, <2>3
<1>4. CASE v # <<>>
  <2>1. /\ Len(p) = Len(v) + 2 /\ p[1] = "a" /\ p[2] = "="
        /\ \A i \in 1 .. Len(v) : p[i + 2] = v[i]
    BY <1>1, <1>4, ParamIs
  <2>2. 2 \in 1 .. Len(p) /\ \A i \in 1 .. 2 - 1 : i = 1
    BY <1>2, <2>1
  <2>3. After(p, "=") = SubSeq(p, 2 + 1, Len(p))
    BY <1>2, <2>1, <2>2, CutAt
  <2> DEFINE w == SubSeq(p, 3, Len(p))
  <2>4. 3 \in 1 .. Len(p) + 1 /\ Len(p) \in 3 - 1 .. Len(p) /\ Len(p) - 3 + 1 = Len(v)
    <3>1. Len(p) = Len(v) + 2
      BY <2>1
    <3> QED
      BY <1>2, <3>1
  <2>5. /\ w \in Seq(Chars) /\ Len(w) = Len(p) - 3 + 1
        /\ \A i \in 1 .. Len(p) - 3 + 1 : w[i] = p[i + 3 - 1]
    BY <2>4, SubSeqIs
  <2> HIDE DEF w
  <2>6. ASSUME NEW i \in 1 .. Len(v) PROVE w[i] = v[i]
    <3>1. i + 3 - 1 = i + 2
      BY <1>2
    <3> QED
      BY <2>1, <2>4, <2>5, <3>1
  <2>7. w = v
    BY <2>4, <2>5, <2>6, SeqEqual
  <2>8. 2 + 1 = 3
    OBVIOUS
  <2>9. After(p, "=") = w
    BY <2>3, <2>8 DEF w
  <2> QED
    BY <1>1, <2>7, <2>9
<1> QED
  BY <1>3, <1>4

Decodes(f, s) ==
  f = [i \in 1 .. Len(s) + 1 |->
         IF i > Len(s) THEN <<>>
         ELSE IF s[i] = "%" /\ i + 2 <= Len(s) /\ s[i + 1] = "a" /\ s[i + 2] = "a"
              THEN <<"byte">> \o f[i + 3]
              ELSE <<s[i]>> \o f[i + 1]]

LEMMA FirstAndRest ==
  ASSUME NEW S, NEW s \in Seq(S), NEW i \in 1 .. Len(s)
  PROVE  SubSeq(s, i, Len(s)) = <<s[i]>> \o SubSeq(s, i + 1, Len(s))
<1> DEFINE N == Len(s)
           l == SubSeq(s, i, N)
           t == SubSeq(s, i + 1, N)
           c == <<s[i]>>
           r == c \o t
<1>1. N \in Nat /\ i \in Nat /\ i >= 1 /\ i <= N
  BY LenProperties
<1>2. /\ i \in 1 .. N + 1 /\ N \in i - 1 .. N
      /\ i + 1 \in 1 .. N + 1 /\ N \in (i + 1) - 1 .. N /\ N - (i + 1) + 1 = N - i
  BY <1>1
<1>3. /\ l \in Seq(S) /\ Len(l) = N - i + 1
      /\ \A j \in 1 .. N - i + 1 : l[j] = s[j + i - 1]
  BY <1>2, SubSeqIs
<1>4. /\ t \in Seq(S) /\ Len(t) = N - (i + 1) + 1
      /\ \A j \in 1 .. N - (i + 1) + 1 : t[j] = s[j + (i + 1) - 1]
  BY <1>2, SubSeqIs
<1>5. c \in Seq(S) /\ Len(c) = 1 /\ c[1] = s[i]
  <2>1. s[i] \in S
    BY ElementOfSeq
  <2> QED
    BY <2>1
<1>6. r = c \o t
  OBVIOUS
<1> HIDE DEF c, t, l, r
<1>7. /\ r \in Seq(S) /\ Len(r) = Len(c) + Len(t)
      /\ \A j \in 1 .. Len(c) + Len(t) : r[j] = IF j <= Len(c) THEN c[j] ELSE t[j - Len(c)]
  BY <1>4, <1>5, <1>6, ConcatProperties
<1>8. Len(l) = N - i + 1 /\ Len(r) = N - i + 1 /\ Len(t) = N - i
  <2>1. Len(l) = N - i + 1 /\ Len(t) = N - (i + 1) + 1 /\ Len(r) = Len(c) + Len(t) /\ Len(c) = 1
    BY <1>3, <1>4, <1>5, <1>7
  <2> HIDE DEF N
  <2> QED
    BY <1>1, <2>1
<1>9. ASSUME NEW j \in 1 .. N - i + 1 PROVE l[j] = r[j]
  <2>1. l[j] = s[j + i - 1]
    BY <1>3
  <2>2. CASE j = 1
    <3>1. 1 + i - 1 = i /\ 1 \in 1 .. Len(c) + Len(t) /\ 1 <= Len(c)
      <4> HIDE DEF N
      <4> QED
        BY <1>1, <1>5, <1>8
    <3> QED
      BY <1>5, <1>7, <2>1, <2>2, <3>1
  <2>3. CASE j # 1
    <3>1. /\ j \in 1 .. Len(c) + Len(t) /\ ~ (j <= Len(c)) /\ j - Len(c) = j - 1
          /\ j - 1 \in 1 .. N - (i + 1) + 1 /\ (j - 1) + (i + 1) - 1 = j + i - 1
      <4>1. Len(c) = 1 /\ Len(t) = N - i
        BY <1>5, <1>8
      <4> HIDE DEF N
      <4> QED
        BY <1>1, <2>3, <4>1
    <3> QED
      BY <1>4, <1>7, <2>1, <3>1
  <2> QED
    BY <2>2, <2>3
<1>10. l = r
  BY <1>3, <1>7, <1>8, <1>9, SeqEqual
<1> QED
  BY <1>10 DEF l, r, c, t

(* Nothing is written out in a name without '%'.                           *)
LEMMA DecodedIs ==
  ASSUME NEW s \in Seq(Chars), \A i \in 1 .. Len(s) : s[i] # "%"
  PROVE  Decoded(s) = s
<1> DEFINE N == Len(s)
           h == [i \in 1 .. N + 1 |-> SubSeq(s, i, N)]
           f == CHOOSE g : Decodes(g, s)
<1>1. N \in Nat
  BY LenProperties
<1>a. ASSUME NEW i \in 1 .. N + 1, i > N PROVE SubSeq(s, i, N) = <<>>
  <2>1. i \in 1 .. Len(s) + 1 /\ N \in i - 1 .. Len(s) /\ N - i + 1 = 0
    BY <1>1, <1>a
  <2>2. SubSeq(s, i, N) \in Seq(Chars) /\ Len(SubSeq(s, i, N)) = N - i + 1
    BY <2>1, SubSeqIs
  <2> QED
    BY <2>1, <2>2, EmptySeq
<1>2. Decodes(h, s)
  <2>1. ASSUME NEW i \in 1 .. N + 1, i > N PROVE h[i] = <<>>
    BY <1>a, <2>1
  <2>2. ASSUME NEW i \in 1 .. N + 1, ~ (i > N)
        PROVE  s[i] # "%" /\ h[i] = <<s[i]>> \o h[i + 1]
    <3>1. i \in 1 .. N /\ i + 1 \in 1 .. N + 1
      BY <1>1, <2>2
    <3>2. SubSeq(s, i, N) = <<s[i]>> \o SubSeq(s, i + 1, N)
      BY <3>1, FirstAndRest
    <3> QED
      BY <3>1, <3>2
  <2>3. h = [i \in 1 .. N + 1 |-> h[i]]
    OBVIOUS
  <2> HIDE DEF h
  <2>4. \A i \in 1 .. N + 1 : h[i] =
          IF i > N THEN <<>>
          ELSE IF s[i] = "%" /\ i + 2 <= N /\ s[i + 1] = "a" /\ s[i + 2] = "a"
               THEN <<"byte">> \o h[i + 3]
               ELSE <<s[i]>> \o h[i + 1]
    BY <2>1, <2>2
  <2> QED
    BY <2>3, <2>4 DEF Decodes
<1>3. Decodes(f, s)
  <2> HIDE DEF h
  <2> QED
    BY <1>2
<1>4. Decoded(s) = f[1]
  BY DEF Decoded, Decodes
<1> HIDE DEF f
<1> DEFINE S == {n \in 0 .. N : f[N + 1 - n] = SubSeq(s, N + 1 - n, N)}
<1>5. 0 \in S
  <2>1. N + 1 - 0 = N + 1 /\ N + 1 \in 1 .. N + 1 /\ N + 1 > N /\ 0 \in 0 .. N
    BY <1>1
  <2>2. f[N + 1] = <<>>
    BY <1>3, <2>1 DEF Decodes
  <2>3. SubSeq(s, N + 1, N) = <<>>
    BY <1>a, <2>1
  <2> QED
    BY <2>1, <2>2, <2>3
<1>6. ASSUME NEW n \in 1 .. N, n - 1 \in S PROVE n \in S
  <2> DEFINE i == N + 1 - n
  <2>1. /\ i \in 1 .. N + 1 /\ i \in 1 .. N /\ ~ (i > N) /\ N + 1 - (n - 1) = i + 1
        /\ n \in 0 .. N
    BY <1>1
  <2>2. f[i + 1] = SubSeq(s, i + 1, N)
    BY <1>6, <2>1
  <2> HIDE DEF i
  <2>3. f[i] = <<s[i]>> \o f[i + 1]
    BY <1>3, <2>1 DEF Decodes
  <2>4. f[i] = SubSeq(s, i, N)
    BY <2>1, <2>2, <2>3, FirstAndRest
  <2> QED
    BY <2>1, <2>4 DEF i
<1>7. N \in S
  <2> HIDE DEF S
  <2>1. \A n \in 0 .. N : n \in S
    BY <1>1, <1>5, <1>6, Induction
  <2> QED
    BY <1>1, <2>1
<1>8. N + 1 - N = 1
  BY <1>1
<1>9. f[1] = SubSeq(s, 1, N)
  BY <1>7, <1>8
<1>10. SubSeq(s, 1, N) = s
  <2>1. 1 \in 1 .. Len(s) + 1 /\ N \in 1 - 1 .. Len(s) /\ N - 1 + 1 = N
    BY <1>1
  <2>2. /\ SubSeq(s, 1, N) \in Seq(Chars) /\ Len(SubSeq(s, 1, N)) = N - 1 + 1
        /\ \A j \in 1 .. N - 1 + 1 : SubSeq(s, 1, N)[j] = s[j + 1 - 1]
    BY <2>1, SubSeqIs
  <2>3. ASSUME NEW j \in 1 .. N PROVE SubSeq(s, 1, N)[j] = s[j]
    <3>1. j + 1 - 1 = j
      BY <1>1
    <3> QED
      BY <2>1, <2>2, <3>1
  <2> QED
    BY <2>1, <2>2, <2>3, SeqEqual
<1> QED
  BY <1>4, <1>9, <1>10

Splits(f, s) ==
  f = [n \in 0 .. Len(s) |-> IF n = 0 THEN << <<>> >> ELSE Cut(f[n - 1], s[n])]

LEMMA SplitsExists == ASSUME NEW s, Len(s) \in Nat PROVE \E f : Splits(f, s)
<1> DEFINE N == Len(s)
           UpTo(g, k) == g[0] = << <<>> >> /\ \A n \in 1 .. k : g[n] = Cut(g[n - 1], s[n])
           S == {k \in 0 .. N : \E g : UpTo(g, k)}
<1>1. 0 \in S
  <2> DEFINE h == [n \in {0} |-> << <<>> >>]
  <2>1. UpTo(h, 0) /\ 0 \in 0 .. N
    OBVIOUS
  <2> HIDE DEF h, UpTo
  <2> QED
    BY <2>1
<1>2. ASSUME NEW k \in 1 .. N, k - 1 \in S PROVE k \in S
  <2>1. PICK g : UpTo(g, k - 1)
    BY <1>2
  <2> DEFINE h == [n \in 0 .. k |-> IF n < k THEN g[n] ELSE Cut(g[k - 1], s[k])]
  <2>2. h[0] = << <<>> >> /\ h[k] = Cut(h[k - 1], s[k])
    BY <2>1
  <2>3. ASSUME NEW n \in 1 .. k - 1 PROVE h[n] = Cut(h[n - 1], s[n])
    BY <2>1
  <2> HIDE DEF h
  <2>4. UpTo(h, k)
    BY <2>2, <2>3
  <2> QED
    BY <2>4
<1>3. N \in S
  <2> HIDE DEF S
  <2>1. \A k \in 0 .. N : k \in S
    BY <1>1, <1>2, Induction
  <2> QED
    BY <2>1
<1>4. PICK g : UpTo(g, N)
  BY <1>3
<1> DEFINE f == [n \in 0 .. N |-> g[n]]
<1>5. \A n \in 0 .. N : f[n] = IF n = 0 THEN << <<>> >> ELSE Cut(f[n - 1], s[n])
  <2>1. f[0] = << <<>> >>
    BY <1>4
  <2>2. ASSUME NEW n \in 1 .. N PROVE f[n] = Cut(f[n - 1], s[n])
    BY <1>4
  <2>3. \A n \in 0 .. N : n = 0 \/ n \in 1 .. N
    OBVIOUS
  <2> HIDE DEF f
  <2> QED
    BY <2>1, <2>2, <2>3
<1>6. f = [n \in 0 .. N |-> f[n]]
  OBVIOUS
<1> HIDE DEF f
<1>7. Splits(f, s)
  BY <1>5, <1>6 DEF Splits
<1> QED
  BY <1>7

LEMMA SplitIs ==
  ASSUME NEW s, Len(s) \in Nat
  PROVE  \E f : Splits(f, s) /\ Split(s) = f[Len(s)]
<1> DEFINE f == CHOOSE g : Splits(g, s)
<1>1. Split(s) = f[Len(s)]
  BY DEF Split, Splits
<1>2. Splits(f, s)
  BY SplitsExists
<1> QED
  BY <1>1, <1>2

(* The parameters before the m-th, and t of that one.                      *)
Parts(ps, m, t) == [i \in 1 .. m |-> IF i < m THEN Param(ps[i]) ELSE t]

LEMMA PartsIs ==
  ASSUME NEW ps \in Seq(Seq(Chars)), NEW m \in 1 .. Len(ps), NEW t \in Seq(Chars)
  PROVE  Parts(ps, m, t) \in Seq(Seq(Chars)) /\ Len(Parts(ps, m, t)) = m
<1> DEFINE p == Parts(ps, m, t)
<1>1. m \in Nat /\ Len(ps) \in Nat
  BY LenProperties
<1>2. ASSUME NEW i \in 1 .. m PROVE (IF i < m THEN Param(ps[i]) ELSE t) \in Seq(Chars)
  <2>1. i \in 1 .. Len(ps)
    BY <1>1
  <2>2. ps[i] \in Seq(Chars)
    BY <2>1, ElementOfSeq
  <2> QED
    BY <2>2, ParamIs
<1>3. p \in [1 .. m -> Seq(Chars)] /\ DOMAIN p = 1 .. m
  BY <1>2 DEF Parts
<1> HIDE DEF p
<1>4. p \in Seq(Seq(Chars))
  BY <1>1, <1>3, SeqDef
<1>5. Len(p) \in Nat /\ DOMAIN p = 1 .. Len(p)
  BY <1>4, LenProperties
<1>6. Len(p) = m
  BY <1>1, <1>3, <1>5
<1> QED
  BY <1>4, <1>6 DEF p

LEMMA CutGoesOn ==
  ASSUME NEW ps \in Seq(Seq(Chars)), NEW m \in 1 .. Len(ps), NEW t \in Seq(Chars),
         NEW c \in Chars, c # "&"
  PROVE  Cut(Parts(ps, m, t), c) = Parts(ps, m, Append(t, c))
<1> DEFINE p == Parts(ps, m, t)
<1>1. Len(p) = m /\ m \in Nat /\ m \in 1 .. m
  BY PartsIs, LenProperties
<1>2. p = [i \in 1 .. m |-> p[i]] /\ p[m] = t /\ \A i \in 1 .. m : i < m => p[i] = Param(ps[i])
  BY <1>1 DEF Parts
<1>3. Cut(p, c) = [p EXCEPT ![m] = Append(p[m], c)]
  BY <1>1 DEF Cut
<1> HIDE DEF p
<1>4. [p EXCEPT ![m] = Append(p[m], c)]
        = [i \in 1 .. m |-> IF i < m THEN Param(ps[i]) ELSE Append(t, c)]
  <2>1. PICK x : x = Append(t, c)
    OBVIOUS
  <2>2. [p EXCEPT ![m] = x] = [i \in 1 .. m |-> IF i = m THEN x ELSE p[i]]
    BY <1>2
  <2>3. ASSUME NEW i \in 1 .. m
        PROVE  (IF i = m THEN x ELSE p[i]) = IF i < m THEN Param(ps[i]) ELSE x
    BY <1>1, <1>2
  <2>4. [p EXCEPT ![m] = x] = [i \in 1 .. m |-> IF i < m THEN Param(ps[i]) ELSE x]
    BY <2>2, <2>3
  <2> QED
    BY <1>2, <2>1, <2>4
<1> QED
  BY <1>3, <1>4 DEF p, Parts

LEMMA CutSeparates ==
  ASSUME NEW ps \in Seq(Seq(Chars)), NEW m \in 1 .. Len(ps), m + 1 <= Len(ps)
  PROVE  Cut(Parts(ps, m, Param(ps[m])), "&") = Parts(ps, m + 1, <<>>)
<1>1. PICK t \in Seq(Chars) : t = Param(ps[m])
  <2>1. ps[m] \in Seq(Chars)
    BY ElementOfSeq
  <2> QED
    BY <2>1, ParamIs
<1>2. m \in Nat /\ m + 1 \in 1 .. Len(ps) /\ <<>> \in Seq(Chars)
  BY LenProperties, EmptySeq
<1> DEFINE p == Parts(ps, m, t)
           r == Parts(ps, m + 1, <<>>)
           a == Append(p, <<>>)
<1>3. /\ p \in Seq(Seq(Chars)) /\ Len(p) = m
      /\ r \in Seq(Seq(Chars)) /\ Len(r) = m + 1
  BY <1>2, PartsIs
<1>4. \A i \in 1 .. m : p[i] = Param(ps[i]) /\ r[i] = Param(ps[i])
  BY <1>1, <1>2 DEF Parts
<1>5. r[m + 1] = <<>>
  BY <1>2 DEF Parts
<1>a. a = Append(p, <<>>) /\ Cut(p, "&") = a
  BY DEF Cut
<1> HIDE DEF p, r, a
<1>6. /\ a \in Seq(Seq(Chars)) /\ Len(a) = Len(p) + 1
      /\ \A i \in 1 .. Len(p) : a[i] = p[i]
      /\ a[Len(p) + 1] = <<>>
  BY <1>2, <1>3, <1>a, AppendProperties
<1>7. ASSUME NEW i \in 1 .. m + 1 PROVE a[i] = r[i]
  <2>1. i \in 1 .. m \/ i = m + 1
    BY <1>2
  <2> QED
    BY <1>3, <1>4, <1>5, <1>6, <2>1
<1>8. a = r
  BY <1>3, <1>6, <1>7, SeqEqual
<1> QED
  BY <1>1, <1>8, <1>a DEF p, r

LEMMA LastAdded ==
  ASSUME NEW S, NEW s \in Seq(S), NEW j \in 1 .. Len(s)
  PROVE  Append(SubSeq(s, 1, j - 1), s[j]) = SubSeq(s, 1, j)
<1> DEFINE l == SubSeq(s, 1, j - 1)
           r == SubSeq(s, 1, j)
           a == Append(l, s[j])
<1>1. Len(s) \in Nat /\ s[j] \in S
  BY LenProperties, ElementOfSeq
<1>2. /\ 1 \in 1 .. Len(s) + 1 /\ j \in 1 - 1 .. Len(s) /\ j - 1 \in 1 - 1 .. Len(s)
      /\ j - 1 + 1 = j /\ j - 1 - 1 + 1 = j - 1 /\ \A i \in Int : i + 1 - 1 = i
  BY <1>1
<1>3. /\ l \in Seq(S) /\ Len(l) = j - 1 - 1 + 1
      /\ \A i \in 1 .. j - 1 - 1 + 1 : l[i] = s[i + 1 - 1]
  BY <1>2, SubSeqIs
<1>4. /\ r \in Seq(S) /\ Len(r) = j - 1 + 1
      /\ \A i \in 1 .. j - 1 + 1 : r[i] = s[i + 1 - 1]
  BY <1>2, SubSeqIs
<1>a. a = Append(l, s[j])
  OBVIOUS
<1> HIDE DEF l, r, a
<1>5. /\ a \in Seq(S) /\ Len(a) = Len(l) + 1 /\ a[Len(l) + 1] = s[j]
      /\ \A i \in 1 .. Len(l) : a[i] = l[i]
  BY <1>1, <1>3, <1>a, AppendProperties
<1>6. ASSUME NEW i \in 1 .. j PROVE a[i] = r[i]
  <2>1. r[i] = s[i]
    BY <1>2, <1>4
  <2>2. CASE i = j
    <3>1. Len(l) + 1 = j
      BY <1>2, <1>3
    <3> QED
      BY <1>5, <2>1, <2>2, <3>1
  <2>3. CASE i # j
    <3>1. i \in 1 .. j - 1 /\ Len(l) = j - 1
      BY <1>2, <1>3, <2>3
    <3>2. a[i] = l[i] /\ l[i] = s[i + 1 - 1] /\ i + 1 - 1 = i
      BY <1>2, <1>3, <1>5, <3>1
    <3> QED
      BY <2>1, <3>2
  <2> QED
    BY <2>2, <2>3
<1>7. Len(a) = j /\ Len(r) = j
  BY <1>2, <1>3, <1>4, <1>5
<1>8. a = r
  BY <1>4, <1>5, <1>6, <1>7, SeqEqual
<1> QED
  BY <1>8 DEF a, l, r

(* A parameter without '&' is read as one.                                 *)
LEMMA SplitParam ==
  ASSUME NEW ps \in Seq(Seq(Chars)), NEW m \in 1 .. Len(ps),
         NEW s \in Seq(Chars), NEW f, Splits(f, s),
         NEW p \in Seq(Chars), \A i \in 1 .. Len(p) : p[i] # "&",
         NEW o \in Nat, o + Len(p) <= Len(s),
         \A i \in 1 .. Len(p) : s[o + i] = p[i],
         f[o] = Parts(ps, m, <<>>)
  PROVE  f[o + Len(p)] = Parts(ps, m, p)
<1> DEFINE N == Len(p)
           S == {j \in 0 .. N : f[o + j] = Parts(ps, m, SubSeq(p, 1, j))}
<1>1. N \in Nat /\ Len(s) \in Nat
  BY LenProperties
<1>2. ASSUME NEW j \in 0 .. N
      PROVE  /\ SubSeq(p, 1, j) \in Seq(Chars) /\ Len(SubSeq(p, 1, j)) = j
             /\ \A i \in 1 .. j : SubSeq(p, 1, j)[i] = p[i]
  <2>1. /\ 1 \in 1 .. Len(p) + 1 /\ j \in 1 - 1 .. Len(p) /\ j - 1 + 1 = j
        /\ \A i \in 1 .. j : i + 1 - 1 = i
    BY <1>1
  <2>2. /\ SubSeq(p, 1, j) \in Seq(Chars) /\ Len(SubSeq(p, 1, j)) = j - 1 + 1
        /\ \A i \in 1 .. j - 1 + 1 : SubSeq(p, 1, j)[i] = p[i + 1 - 1]
    BY <2>1, SubSeqIs
  <2> QED
    BY <2>1, <2>2
<1>3. 0 \in S
  <2>1. 0 \in 0 .. N /\ o + 0 = o
    BY <1>1
  <2>2. SubSeq(p, 1, 0) = <<>>
    BY <1>2, <2>1, EmptySeq
  <2> QED
    BY <2>1, <2>2
<1>4. ASSUME NEW j \in 1 .. N, j - 1 \in S PROVE j \in S
  <2>1. /\ j \in 0 .. N /\ j - 1 \in 0 .. N /\ (o + j) - 1 = o + (j - 1)
        /\ o + j \in 0 .. Len(s) /\ o + j # 0 /\ o + j \in 1 .. Len(s)
    BY <1>1
  <2>2. f[o + j] = Cut(f[(o + j) - 1], s[o + j])
    BY <2>1 DEF Splits
  <2>3. PICK t \in Seq(Chars) : t = SubSeq(p, 1, j - 1)
    BY <1>2, <2>1
  <2>4. f[o + (j - 1)] = Parts(ps, m, t)
    BY <1>4, <2>3
  <2>5. s[o + j] = p[j] /\ p[j] # "&" /\ p[j] \in Chars
    BY ElementOfSeq
  <2>6. Cut(Parts(ps, m, t), p[j]) = Parts(ps, m, Append(t, p[j]))
    BY <2>5, CutGoesOn
  <2>7. Append(t, p[j]) = SubSeq(p, 1, j)
    BY <2>3, LastAdded
  <2>8. f[o + j] = Parts(ps, m, SubSeq(p, 1, j))
    BY <2>1, <2>2, <2>4, <2>5, <2>6, <2>7
  <2> QED
    BY <2>1, <2>8
<1>5. N \in S
  <2> HIDE DEF S
  <2>1. \A j \in 0 .. N : j \in S
    BY <1>1, <1>3, <1>4, Induction
  <2> QED
    BY <1>1, <2>1
<1>6. SubSeq(p, 1, N) = p
  <2>1. N \in 0 .. N
    BY <1>1
  <2> QED
    BY <1>2, <2>1, SeqEqual
<1> QED
  BY <1>5, <1>6

(* So are all the parameters of a query.                                   *)
LEMMA SplitQuery ==
  ASSUME NEW ps \in Seq(Seq(Chars)), ps # <<>>,
         \A n \in 1 .. Len(ps) : Plain(ps[n], {"&"})
  PROVE  Split(QueryText(ps)) = [n \in 1 .. Len(ps) |-> Param(ps[n])]
<1> DEFINE N == Len(ps)
<1>1. N \in Nat /\ N >= 1
  BY LenProperties, EmptySeq
<1>2. PICK s \in Seq(Chars) : s = QueryText(ps)
  BY QueryTextKind
<1>3. Len(s) \in Nat
  BY LenProperties
<1>4. PICK g : Joins(g, ps) /\ s = g[N]
  BY <1>1, <1>2, QueryTextIs
<1>5. PICK f : Splits(f, s) /\ Split(s) = f[Len(s)]
  BY <1>3, SplitIs
<1>6. \A n \in 1 .. N : Param(ps[n]) \in Seq(Chars) /\ Len(Param(ps[n])) \in Nat
  <2> SUFFICES ASSUME NEW n \in 1 .. N
               PROVE  Param(ps[n]) \in Seq(Chars) /\ Len(Param(ps[n])) \in Nat
    OBVIOUS
  <2>1. ps[n] \in Seq(Chars)
    BY ElementOfSeq
  <2> QED
    BY <2>1, ParamIs, LenProperties
<1>7. ASSUME NEW n \in 1 .. N, f[Len(g[n - 1]) + Sep(n)] = Parts(ps, n, <<>>)
      PROVE  f[Len(g[n])] = Parts(ps, n, Param(ps[n]))
  <2> DEFINE o == Len(g[n - 1]) + Sep(n)
  <2>1. PICK p \in Seq(Chars) : p = Param(ps[n])
    BY <1>6
  <2>2. PlacedAt(s, o, n, p) /\ o + Len(p) = Len(g[n])
    BY <1>4, <2>1, ParamAt
  <2>3. \A i \in 1 .. Len(p) : p[i] # "&"
    <3>1. ps[n] \in Seq(Chars) /\ Plain(ps[n], {"&"})
      BY ElementOfSeq
    <3>2. \A i \in 1 .. Len(Param(ps[n])) : Param(ps[n])[i] \notin {"&", "#", "%", "bad"}
      BY <3>1, PlainParam
    <3> QED
      BY <2>1, <3>2
  <2>4. f[o] = Parts(ps, n, <<>>)
    BY <1>7
  <2> HIDE DEF o
  <2>5. /\ o \in Nat /\ o + Len(p) <= Len(s)
        /\ \A i \in 1 .. Len(p) : s[o + i] = p[i]
    BY <2>2 DEF PlacedAt
  <2>6. f[o + Len(p)] = Parts(ps, n, p)
    BY <1>5, <2>3, <2>4, <2>5, SplitParam
  <2> QED
    BY <2>1, <2>2, <2>6
<1> DEFINE S == {n \in 0 .. N : n >= 1 => f[Len(g[n])] = Parts(ps, n, Param(ps[n]))}
<1>8. 0 \in S
  BY <1>1
<1>9. ASSUME NEW n \in 1 .. N, n - 1 \in S PROVE n \in S
  <2>1. f[Len(g[n - 1]) + Sep(n)] = Parts(ps, n, <<>>)
    <3>1. CASE n = 1
      <4>1. g[0] = <<>> /\ Len(<<>>) = 0 /\ Sep(1) = 0
        BY <1>4, JoinsAdd DEF Sep
      <4>2. 0 \in 0 .. Len(s) /\ 1 - 1 = 0 /\ 0 + 0 = 0
        BY <1>3
      <4>3. f[0] = << <<>> >>
        BY <1>5, <4>2 DEF Splits
      <4>4. Parts(ps, 1, <<>>) = << <<>> >>
        <5> DEFINE e == <<>>
                   q == Parts(ps, 1, e)
        <5>1. e \in Seq(Chars) /\ 1 \in 1 .. Len(ps)
          BY <1>1, EmptySeq
        <5>2. q \in Seq(Seq(Chars)) /\ Len(q) = 1
          BY <5>1, PartsIs
        <5>3. q[1] = e
          BY DEF Parts
        <5>4. <<e>> \in Seq(Seq(Chars)) /\ Len(<<e>>) = 1 /\ <<e>>[1] = e
          BY <5>1
        <5> HIDE DEF q, e
        <5>5. q = <<e>>
          <6> DEFINE l == <<e>>
          <6>1. l \in Seq(Seq(Chars)) /\ Len(l) = Len(q) /\ l[1] = q[1] /\ Len(q) = 1
            BY <5>2, <5>3, <5>4
          <6> HIDE DEF l
          <6>2. \A i \in 1 .. Len(q) : i = 1
            BY <6>1
          <6>3. q = l
            BY <5>2, <6>1, <6>2, SeqEqual
          <6> QED
            BY <6>3 DEF l
        <5> QED
          BY <5>5 DEF q, e
      <4> QED
        BY <3>1, <4>1, <4>2, <4>3, <4>4
    <3>2. CASE n # 1
      <4> DEFINE k == n - 1
                 o == Len(g[k]) + Sep(n)
      <4>1. k \in 1 .. N /\ k \in 0 .. N /\ k >= 1 /\ k + 1 = n /\ k + 1 <= N
        BY <1>1, <3>2
      <4>2. f[Len(g[k])] = Parts(ps, k, Param(ps[k]))
        BY <1>9, <4>1
      <4> HIDE DEF k
      <4>3. Len(g[k]) \in Nat /\ Sep(n) = 1 /\ o = Len(g[k]) + 1
        BY <1>4, <3>2, <4>1, JoinsAdd, LenProperties, SepIs
      <4>4. o \in Nat /\ o + Len(Param(ps[n])) <= Len(s) /\ s[o] = "&"
        <5>1. PlacedAt(s, o, n, Param(ps[n]))
          BY <1>4, ParamAt DEF k
        <5> HIDE DEF o
        <5> QED
          BY <3>2, <5>1 DEF PlacedAt
      <4> HIDE DEF o
      <4>5. o \in 0 .. Len(s) /\ o # 0 /\ o - 1 = Len(g[k])
        <5>1. Len(Param(ps[n])) \in Nat /\ o \in Nat /\ o + Len(Param(ps[n])) <= Len(s)
          BY <1>6, <4>4
        <5>2. o <= Len(s)
          BY <1>3, <5>1
        <5>3. o = Len(g[k]) + 1 /\ Len(g[k]) \in Nat
          BY <4>3 DEF o
        <5> QED
          BY <5>1, <5>2, <5>3
      <4>6. f[o] = Cut(f[o - 1], s[o])
        BY <1>5, <4>5 DEF Splits
      <4>7. Cut(Parts(ps, k, Param(ps[k])), "&") = Parts(ps, k + 1, <<>>)
        BY <4>1, CutSeparates
      <4>8. f[o] = Parts(ps, n, <<>>)
        BY <4>1, <4>2, <4>4, <4>5, <4>6, <4>7
      <4> QED
        BY <4>8 DEF o, k
    <3> QED
      BY <3>1, <3>2
  <2>2. f[Len(g[n])] = Parts(ps, n, Param(ps[n])) /\ n \in 0 .. N
    BY <1>1, <1>7, <2>1
  <2> QED
    BY <2>2
<1>10. N \in S
  <2> HIDE DEF S
  <2>1. \A n \in 0 .. N : n \in S
    BY <1>1, <1>8, <1>9, Induction
  <2> QED
    BY <1>1, <2>1
<1>11. Split(s) = Parts(ps, N, Param(ps[N]))
  BY <1>1, <1>4, <1>5, <1>10
<1>12. Parts(ps, N, Param(ps[N])) = [n \in 1 .. N |-> Param(ps[n])]
  <2>1. \A n \in 1 .. N : (IF n < N THEN Param(ps[n]) ELSE Param(ps[N])) = Param(ps[n])
    <3>1. \A n \in 1 .. N : n < N \/ n = N
      BY <1>1
    <3> QED
      BY <3>1
  <2> QED
    BY <2>1 DEF Parts
<1> QED
  BY <1>2, <1>11, <1>12

(* The store reads plain names as they are.                                *)
LEMMA PlainNamesRead ==
  ASSUME NEW r \in RequestType, PlainRequest(r)
  PROVE  ReadKey(Url(r)) = r.key /\ ReadParams(Url(r)) = r.params
<1>1. r.key \in Seq(Chars) /\ r.params \in Seq(Seq(Chars))
  BY DEF RequestType
<1>2. Tail(SentPath(Url(r))) = r.key /\ SentQuery(Url(r)) = QueryText(r.params)
  BY PlainUrlSent
<1>3. ASSUME NEW v \in Seq(Chars), NEW reserved, Plain(v, reserved) PROVE Decoded(v) = v
  <2>1. \A i \in 1 .. Len(v) : v[i] \notin reserved \cup {"#", "%", "bad"}
    BY <1>3, PlainIs
  <2>2. \A i \in 1 .. Len(v) : v[i] # "%"
    BY <2>1
  <2> QED
    BY <2>2, DecodedIs
<1>4. ReadKey(Url(r)) = r.key
  <2>1. Plain(r.key, {"?"})
    BY DEF PlainRequest
  <2> QED
    BY <1>1, <1>2, <1>3, <2>1 DEF ReadKey
<1>5. PICK ps \in Seq(Seq(Chars)) : ps = r.params
  BY <1>1
<1>6. ReadParams(Url(r)) = r.params
  <2>1. CASE ps = <<>>
    <3>1. Len(ps) = 0
      BY <2>1, EmptySeq
    <3>2. PICK f : Joins(f, ps) /\ QueryText(ps) = f[0]
      BY <3>1, QueryTextIs
    <3>3. QueryText(ps) = <<>>
      BY <3>2, JoinsAdd
    <3> QED
      BY <1>2, <1>5, <2>1, <3>3 DEF ReadParams
  <2>2. CASE ps # <<>>
    <3>1. \A n \in 1 .. Len(ps) : Plain(ps[n], {"&"})
      BY <1>5 DEF PlainRequest
    <3>2. QueryText(ps) # <<>>
      <4>1. Len(QueryText(ps)) >= 1
        BY <2>2, QueryTextKind
      <4>2. Len(<<>>) = 0
        BY EmptySeq
      <4> QED
        BY <4>1, <4>2
    <3>3. PICK c : c = Split(QueryText(ps))
      OBVIOUS
    <3>4. c = [n \in 1 .. Len(ps) |-> Param(ps[n])]
      BY <2>2, <3>1, <3>3, SplitQuery
    <3>5. ReadParams(Url(r)) = [i \in DOMAIN c |-> Decoded(After(c[i], "="))]
      BY <1>2, <1>5, <3>2, <3>3 DEF ReadParams
    <3>6. ASSUME NEW i \in 1 .. Len(ps) PROVE Decoded(After(c[i], "=")) = ps[i]
      <4>1. ps[i] \in Seq(Chars) /\ c[i] = Param(ps[i])
        BY <3>4, ElementOfSeq
      <4>2. After(c[i], "=") = ps[i]
        BY <4>1, ParamValue
      <4> QED
        BY <1>3, <3>1, <4>1, <4>2
    <3>7. ps = [i \in 1 .. Len(ps) |-> ps[i]]
      BY LenProperties
    <3>8. [i \in DOMAIN c |-> Decoded(After(c[i], "="))] = [i \in 1 .. Len(ps) |-> ps[i]]
      BY <3>4, <3>6
    <3> QED
      BY <1>5, <3>5, <3>7, <3>8
  <2> QED
    BY <2>1, <2>2
<1> QED
  BY <1>4, <1>6

(* What is cut off is made of the same characters.                         *)
LEMMA CutKind ==
  ASSUME NEW s \in Seq(Chars), NEW ch
  PROVE  Before(s, ch) \in Seq(Chars) /\ After(s, ch) \in Seq(Chars)
<1> DEFINE I == {i \in 1 .. Len(s) : s[i] = ch}
<1>1. Len(s) \in Nat
  BY LenProperties
<1>2. CASE I = {}
  BY <1>2, CutNowhere, EmptySeq
<1>3. CASE I # {}
  <2>1. I \subseteq Nat
    OBVIOUS
  <2>2. PICK k \in I : \A i \in I : k <= i
    <3> HIDE DEF I
    <3> QED
      BY <1>3, <2>1, LeastOf
  <2>3. k \in 1 .. Len(s) /\ s[k] = ch /\ \A i \in 1 .. k - 1 : s[i] # ch
    BY <1>1, <2>2
  <2>4. Before(s, ch) = SubSeq(s, 1, k - 1) /\ After(s, ch) = SubSeq(s, k + 1, Len(s))
    BY <1>1, <2>3, CutAt
  <2>5. /\ 1 \in 1 .. Len(s) + 1 /\ k - 1 \in 1 - 1 .. Len(s)
        /\ k + 1 \in 1 .. Len(s) + 1 /\ Len(s) \in (k + 1) - 1 .. Len(s)
    BY <1>1, <2>3
  <2> QED
    BY <2>4, <2>5, SubSeqIs
<1> QED
  BY <1>2, <1>3

LEMMA SentQueryKind ==
  ASSUME NEW s \in Seq(Chars), Started(s)
  PROVE  SentQuery(s) \in Seq(Chars)
<1>1. Len(s) \in Nat /\ Len(s) >= 6 /\ Len(Origin) = 5
  BY LenProperties DEF Started, Origin
<1> DEFINE t == SubSeq(s, Len(Origin) + 1, Len(s))
<1>2. Len(Origin) + 1 \in 1 .. Len(s) + 1 /\ Len(s) \in (Len(Origin) + 1) - 1 .. Len(s)
  BY <1>1
<1>3. t \in Seq(Chars)
  BY <1>2, SubSeqIs
<1> HIDE DEF t
<1>4. Before(t, "#") \in Seq(Chars)
  BY <1>3, CutKind
<1>5. Target(s) \in Seq(Chars)
  BY <1>4 DEF Target, t
<1> QED
  BY <1>5, CutKind DEF SentQuery

(* A request that names no object is one of "/".                           *)
LEMMA PathWithoutKey ==
  ASSUME NEW r \in RequestType, r.key = <<>>, ~ ParseFails(Url(r))
  PROVE  SentPath(Url(r)) = <<"/">>
<1>1. PICK s : s = Url(r)
  OBVIOUS
<1>2. PICK rest : rest = QueryPart(r.params)
  OBVIOUS
<1>3. r.params \in Seq(Seq(Chars)) /\ Len(r.key) = 0
  BY EmptySeq DEF RequestType
<1>4. Spelled(s, r.key, rest)
  BY <1>1, <1>2, UrlIs
<1>5. /\ s \in Seq(Chars) /\ Started(s) /\ Len(s) = 6 + Len(rest) /\ s[6] = "/"
      /\ \A i \in 1 .. Len(rest) : s[6 + i] = rest[i]
  <2>1. Len(rest) \in Nat
    <3>1. rest \in Seq(Chars)
      BY <1>2, <1>3, QueryPartIs
    <3> QED
      BY <3>1, LenProperties
  <2>2. /\ s \in Seq(Chars) /\ Started(s) /\ Len(s) = 6 + Len(r.key) + Len(rest)
        /\ \A i \in 1 .. Len(rest) : s[6 + Len(r.key) + i] = rest[i]
    BY <1>4 DEF Spelled
  <2>3. 6 + Len(r.key) = 6
    BY <1>3
  <2>4. s[6] = "/"
    BY <2>2 DEF Started
  <2> QED
    BY <2>1, <2>2, <2>3, <2>4
<1>6. PICK e \in 6 .. Len(s) : Without(s, 7, e, "#") /\ (e = Len(s) \/ s[e + 1] = "#")
  BY <1>1, <1>5, AcceptedIsMarked
<1>7. Len(s) \in Nat /\ Len(s) >= 6
  BY <1>5, LenProperties DEF Started
<1>8. Target(s) = SubSeq(s, 6, e)
  BY <1>5, <1>6, TargetIs
<1>9. SentPath(s) = SubSeq(s, 6, 6)
  <2>1. CASE r.params = <<>>
    <3>1. Len(rest) = 0
      BY <1>2, <1>3, <2>1, QueryPartIs
    <3>2. e = 6
      <4>1. Len(s) = 6
        BY <1>5, <3>1
      <4> QED
        BY <4>1
    <3>3. Without(s, 7, e, "?")
      BY <3>2 DEF Without
    <3>4. SentPath(s) = SubSeq(s, 6, e)
      BY <1>5, <1>8, <3>3, SentNoQuery
    <3> QED
      BY <3>2, <3>4
  <2>2. CASE r.params # <<>>
    <3>1. rest[1] = "?" /\ Len(rest) = 1 + Len(QueryText(r.params))
      BY <1>2, <1>3, <2>2, QueryPartIs
    <3>2. Len(QueryText(r.params)) \in Nat
      BY <1>3, QueryTextKind, LenProperties
    <3>3. s[7] = "?" /\ Len(s) >= 7
      <4>1. Len(rest) >= 1 /\ 1 \in 1 .. Len(rest) /\ 6 + 1 = 7
        BY <3>1, <3>2
      <4>2. Len(s) = 6 + Len(rest)
        BY <1>5
      <4>3. s[6 + 1] = rest[1]
        BY <1>5, <4>1
      <4> QED
        BY <3>1, <3>2, <4>1, <4>2, <4>3
    <3>4. e # 6
      <4>1. ASSUME e = 6 PROVE FALSE
        <5>1. e + 1 = 7 /\ e # Len(s)
          BY <3>3, <4>1
        <5> QED
          BY <1>6, <3>3, <5>1
      <4> QED
        BY <4>1
    <3>5. 7 \in 7 .. e /\ 7 - 1 = 6
      BY <1>7, <3>4
    <3>6. Without(s, 7, 7 - 1, "?")
      BY DEF Without
    <3>7. SentPath(s) = SubSeq(s, 6, 7 - 1)
      BY <1>5, <1>8, <3>3, <3>5, <3>6, SentWithQuery
    <3> QED
      BY <3>5, <3>7
  <2> QED
    BY <2>1, <2>2
<1>10. SubSeq(s, 6, 6) = <<"/">>
  <2> DEFINE w == SubSeq(s, 6, 6)
             l == <<"/">>
  <2>1. 6 \in 1 .. Len(s) + 1 /\ 6 \in 6 - 1 .. Len(s) /\ 6 - 6 + 1 = 1 /\ 1 + 6 - 1 = 6
    BY <1>7
  <2>2. /\ w \in Seq(Chars) /\ Len(w) = 6 - 6 + 1
        /\ \A i \in 1 .. 6 - 6 + 1 : w[i] = s[i + 6 - 1]
    BY <1>5, <2>1, SubSeqIs
  <2>3. l \in Seq(Chars) /\ Len(l) = 1 /\ l[1] = "/"
    BY DEF Chars
  <2> HIDE DEF w, l
  <2>4. w[1] = "/" /\ Len(w) = 1
    <3>1. 1 \in 1 .. 6 - 6 + 1
      BY <2>1
    <3>2. w[1] = s[1 + 6 - 1]
      BY <2>2, <3>1
    <3> QED
      BY <1>5, <2>1, <2>2, <3>2
  <2>5. \A i \in 1 .. Len(w) : i = 1
    BY <2>4
  <2>6. w = l
    BY <2>2, <2>3, <2>4, <2>5, SeqEqual
  <2> QED
    BY <2>6 DEF w, l
<1> QED
  BY <1>1, <1>9, <1>10
=============================================================================
