------------------------------ MODULE Request -------------------------------
(***************************************************************************)
(* One call of DoGetJSON, from the options libcurl is given to the result: *)
(* how a request is addressed, announced and signed, attempt by attempt,   *)
(* and what becomes of the reply, which ResponseBuffer gathers; at the end *)
(* what listBuckets and headObject, which are one request each, read from  *)
(* it.                                                                     *)
(*                                                                         *)
(* Names and values stand for themselves; only URLs are spelled out, into  *)
(* the characters that UrlParser tells apart.  The program's credentials   *)
(* are given, its bucket has an ordinary name, and no path has a segment   *)
(* of dots, which libcurl would take away.                                 *)
(***************************************************************************)
EXTENDS ResponseBuffer, UrlParser, FiniteSets

CONSTANTS
  Requests,  \* the requests that the library makes
  Retries,   \* mConnectionRetries
  Lines,     \* lines of headers a store may send
  MaxLines,  \* bound of the model: lines of one reply
  Listings   \* what a store may say of its buckets

Listing == {"LIST_BUCKET", "LIST_OBJECT"}
Sending == {"UPLOAD_MP", "COMP_MP_UPLOAD"}
Deleting == {"DELETE_OBJECT", "DELETE_BUCKET", "ABORT_MP_UPLOAD"}
Types == Listing \cup Sending \cup Deleting
           \cup {"CREATE_BUCKET", "HEAD_OBJECT", "INIT_MP_UPLOAD"}

(* The key is empty for a request about a bucket; params are the values of *)
(* the parameters of the query; body is the size of the MemoryData.        *)
RequestType == [qsrt : Types, location : BOOLEAN, key : Seq(Chars),
                params : Seq(Seq(Chars)), body : Nat]
LineType == [name : STRING, value : {"number", "word", "quoted", "empty", "nothing"}, length : Nat]

(* A listing of buckets: which of its two members there are, the count,    *)
(* and the array, each element of which is the set of its fields.          *)
ListingType == [members : SUBSET {"count", "buckets"}, count : Nat,
                buckets : Seq(SUBSET STRING)]
NoListing == [members |-> {}, count |-> 0, buckets |-> <<>>]

ASSUME RequestAssumption ==
  /\ Requests \subseteq RequestType
  /\ \A r \in Requests : r.qsrt = "LIST_BUCKET" => r.key = <<>>
  /\ Retries \in Nat \ {0}
  /\ Lines \subseteq LineType
  /\ MaxLines \in Nat
  /\ Listings \subseteq ListingType

VARIABLES
  request,
  step,      \* where the call is
  failing,   \* failed attempts
  sizeleft,  \* of the MemoryData
  options,   \* what libcurl has been told
  header,    \* HeaderContent: pairs of a field and its value
  signed,    \* what the signature is made of
  sent,      \* bytes of the MemoryData sent by this attempt
  held,      \* what this attempt has to release, besides the reply
  lines,     \* the headers of the reply
  listing,   \* the buckets it lists
  result

attempt == <<options, header, signed, sent>>
requestVars == <<request, step, failing, sizeleft, attempt, held, lines, listing, result>>

-----------------------------------------------------------------------------

NoOptions == [url |-> <<>>, nobody |-> FALSE, customRequest |-> "", upload |-> FALSE, post |-> FALSE,
              body |-> "none"]
Unsigned == [method |-> "", type |-> "", path |-> <<>>, query |-> <<>>, room |-> 0]
NoResult == [kind |-> "none", length |-> 0, buckets |-> <<>>]

RequestInit ==
  /\ Init
  /\ request \in Requests
  /\ step = "setup"
  /\ failing = 0
  /\ sizeleft = request.body
  /\ options = NoOptions /\ header = <<>> /\ signed = Unsigned /\ sent = 0
  /\ held = {}
  /\ lines = <<>> /\ listing = NoListing
  /\ result = NoResult

(* The handlers of DoGetJSON_Internal and of DoGetJSON: the reply's memory *)
(* is deleted, and the next attempt starts.                                *)
Throw ==
  /\ Release
  /\ failing' = failing + 1
  /\ step' = IF failing + 1 < Retries THEN "setup" ELSE "thrown"
  /\ lines' = <<>> /\ listing' = NoListing

-----------------------------------------------------------------------------
(* A request is made *)

(* Seeded fault: a second parameter is not separated from the first.       *)
QueryTextRun(params) ==
  LET upTo[n \in 0 .. Len(params)] ==
        IF n = 0 THEN <<>> ELSE upTo[n - 1] \o <<"a", "=">> \o params[n]
  IN  upTo[Len(params)]

(* The URLs of Context and QingStorWriter, of origin, key and parameters,  *)
(* as they are; each name of a parameter, and the origin's, is one letter. *)
Param(value) == IF value = <<>> THEN <<"a">> ELSE <<"a", "=">> \o value
QueryText(params) ==
  LET upTo[n \in 0 .. Len(params)] ==
        IF n = 0 THEN <<>>
        ELSE upTo[n - 1] \o (IF n = 1 THEN <<>> ELSE <<"&">>) \o Param(params[n])
  IN  upTo[Len(params)]
Origin == <<"a", ":", "/", "/", "a">>
Url(r) == Origin \o <<"/">> \o r.key
            \o IF r.params = <<>> THEN <<>> ELSE <<"?">> \o QueryText(r.params)

OptionsOf(r) ==
  [url |-> Url(r),
   nobody |-> r.qsrt = "HEAD_OBJECT",
   customRequest |-> CASE r.qsrt \in Deleting -> "DELETE"
                       [] r.qsrt = "CREATE_BUCKET" -> "PUT"
                       [] OTHER -> "",
   upload |-> r.qsrt = "UPLOAD_MP",
   post |-> r.qsrt \in {"INIT_MP_UPLOAD", "COMP_MP_UPLOAD"},
   body |-> CASE r.qsrt \in Sending -> "memory"
              [] r.qsrt = "INIT_MP_UPLOAD" -> "uploads"
              [] OTHER -> "none"]

(* A new handle, the options, and a HeaderContent with the address.        *)
Setup ==
  /\ step = "setup"
  /\ step' = "sign"
  /\ options' = OptionsOf(request)
  /\ held' = {"curl", "header"}
  /\ header' = << <<"Host", "host">> >>
                 \o IF request.location THEN << <<"Location", "location">> >> ELSE <<>>
  /\ signed' = Unsigned /\ sent' = 0
  /\ UNCHANGED <<vars, request, failing, sizeleft, lines, listing, result>>

(* curl_easy_init returns NULL.                                            *)
SetupThrows ==
  /\ step = "setup"
  /\ Throw
  /\ held' = {}
  /\ UNCHANGED <<request, sizeleft, attempt, result>>

(* qs_parse_url: the path "/" becomes empty; every slash of the query      *)
(* becomes three characters, in a buffer that has been measured before.    *)
PathOf(url) == LET path == ExtractField(url, "path") IN IF path = <<"/">> THEN <<>> ELSE path

Slash == <<"%", "2", "F">>
Escaped(query) ==
  LET upTo[n \in 0 .. Len(query)] ==
        IF n = 0 THEN <<>>
        ELSE upTo[n - 1] \o IF query[n] = "/" THEN Slash ELSE <<query[n]>>
  IN  upTo[Len(query)]

NumSlashes(query, n) == Cardinality({i \in 1 .. n : query[i] = "/"})
TmpbufLen(query) == Len(query) + 2 * NumSlashes(query, Len(query))

(* Seeded fault: a part is taken for one of the requests without a body.   *)
SignedMethodShort(qsrt) ==
  CASE qsrt \in Listing -> "GET"
    [] qsrt = "HEAD_OBJECT" -> "HEAD"
    [] qsrt \in Deleting -> "DELETE"
    [] qsrt \in {"INIT_MP_UPLOAD", "COMP_MP_UPLOAD", "UPLOAD_MP"} -> "POST"
    [] OTHER -> "PUT"

(* The branches of Signature: the method and the type that are signed, and *)
(* the length that is announced; that of GET_DATA is HTTPFetcher's.        *)
SignedMethod(qsrt) ==
  CASE qsrt \in Listing -> "GET"
    [] qsrt = "HEAD_OBJECT" -> "HEAD"
    [] qsrt \in Deleting -> "DELETE"
    [] qsrt \in {"INIT_MP_UPLOAD", "COMP_MP_UPLOAD"} -> "POST"
    [] qsrt \in {"CREATE_BUCKET", "UPLOAD_MP"} -> "PUT"

SignedType(qsrt) ==
  CASE qsrt \in {"INIT_MP_UPLOAD", "UPLOAD_MP"} -> "plain/text"
    [] qsrt = "COMP_MP_UPLOAD" -> "application/json"
    [] OTHER -> ""

(* Seeded fault: the length is that of the body as it was at the start.    *)
LengthFieldWhole ==
  CASE request.qsrt \in Sending -> << <<"Content-Length", request.body>> >>
    [] request.qsrt \in {"CREATE_BUCKET", "DELETE_BUCKET"} -> <<>>
    [] OTHER -> << <<"Content-Length", 0>> >>

LengthField ==
  CASE request.qsrt \in Sending -> << <<"Content-Length", sizeleft>> >>
    [] request.qsrt \in {"CREATE_BUCKET", "DELETE_BUCKET"} -> <<>>
    [] OTHER -> << <<"Content-Length", 0>> >>

(* HeaderContent_Add adds no empty value.                                  *)
Field(field, value) == IF value = "" THEN <<>> ELSE << <<field, value>> >>

(* Signature, and the list of headers made for libcurl.  What is written   *)
(* behind a NULL bucket, when buckets are listed, is lost.                 *)
Sign ==
  /\ step = "sign" /\ ~ ParseFails(options.url)
  /\ step' = "perform"
  /\ header' = header \o LengthField \o Field("Date", "date")
                 \o Field("Content-Type", SignedType(request.qsrt))
                 \o Field("Authorization", "signature")
  /\ signed' = [method |-> SignedMethod(request.qsrt), type |-> SignedType(request.qsrt),
                path |-> IF request.qsrt = "LIST_BUCKET" THEN <<>> ELSE PathOf(options.url),
                query |-> Escaped(ExtractField(options.url, "query")),
                room |-> TmpbufLen(ExtractField(options.url, "query"))]
  /\ held' = held \cup {"chunk"}
  /\ UNCHANGED <<vars, request, failing, sizeleft, options, sent, lines, listing, result>>

(* The URL cannot be parsed: what the attempt holds is not released.       *)
SignThrows ==
  /\ step = "sign" /\ ParseFails(options.url)
  /\ Throw
  /\ UNCHANGED <<request, sizeleft, attempt, held, result>>

-----------------------------------------------------------------------------
(* curl_easy_perform *)

(* The method libcurl uses (external).                                     *)
WireMethod == CASE options.customRequest # "" -> options.customRequest
                [] options.nobody -> "HEAD"
                [] options.upload -> "PUT"
                [] options.post -> "POST"
                [] OTHER -> "GET"

(* mem_read_callback gives libcurl n bytes more.                           *)
MemRead(n) ==
  /\ step = "perform" /\ options.body = "memory"
  /\ n <= sizeleft
  /\ sizeleft' = sizeleft - n
  /\ sent' = sent + n
  /\ UNCHANGED <<vars, request, step, failing, options, header, signed, held, lines, listing, result>>

(* The reply comes in.                                                     *)
Receive ==
  /\ step = "perform"
  /\ (\E n \in Pieces : Callback(n)) \/ Grow \/ Copy
  /\ UNCHANGED requestVars

PerformThrows ==
  /\ step = "perform"
  /\ Throw
  /\ UNCHANGED <<request, sizeleft, attempt, held, result>>

(* The reply is complete, an ordinary one or a refusal, which may come     *)
(* before all has been sent.  A HEAD's reply is its lines.                 *)
Performed ==
  /\ step = "perform"
  /\ Parse \/ NoReply
  /\ step' = "judge"
  /\ lines' \in IF request.qsrt = "HEAD_OBJECT" /\ size > 0 THEN BoundedSeq(Lines, MaxLines)
                ELSE {<<>>}
  /\ listing' \in IF request.qsrt = "LIST_BUCKET" /\ size > 0 THEN Listings ELSE {NoListing}
  /\ UNCHANGED <<request, failing, sizeleft, attempt, held, result>>

-----------------------------------------------------------------------------
(* The reply is judged *)

(* ParseHttpHeader: each line becomes a member of a JSON object, its value *)
(* in quotes unless it is one of two.  A line that ends behind its colon,  *)
(* one of these two with a word that is not in quotes or with no value,    *)
(* and quotes within quotes are not accepted.                              *)
Raw == {"Content-Length", "ETag"}
WellFormed(line) ==
  /\ line.value # "nothing"
  /\ IF line.name \in Raw THEN line.value \notin {"word", "empty"}
     ELSE line.value # "quoted"

(* Seeded fault: the first of several members of a name is kept.           *)
MemberFirst(object, line) ==
  [name \in DOMAIN object \cup {line.name} |->
     IF name \in DOMAIN object THEN object[name] ELSE line]

(* What json-c makes of a name and a value: the last one is kept.          *)
Member(object, line) ==
  [name \in DOMAIN object \cup {line.name} |->
     IF name = line.name THEN line ELSE object[name]]

HeadObject ==
  LET after[n \in Nat] == IF n = 0 THEN [name \in {} |-> <<>>]
                          ELSE Member(after[n - 1], lines[n])
  IN  after[Len(lines)]

(* The reply is what the request expects: JSON, headers, or nothing.       *)
Judge(accepted) ==
  /\ step = "judge"
  /\ CASE request.qsrt \in Listing \cup {"INIT_MP_UPLOAD"} -> accepted => pc = "parsed"
       [] request.qsrt = "HEAD_OBJECT" ->
            accepted <=> pc = "parsed" /\ \A i \in 1 .. Len(lines) : WellFormed(lines[i])
       [] OTHER -> accepted <=> pc = "empty"

Accept ==
  /\ Judge(TRUE)
  /\ Release
  /\ held' = {}
  /\ step' = "returned"
  /\ UNCHANGED <<request, failing, sizeleft, attempt, lines, listing, result>>

Refuse ==
  /\ Judge(FALSE)
  /\ Throw
  /\ UNCHANGED <<request, sizeleft, attempt, held, result>>

(* extractHeadObjectContent, for headObject: three fields are looked for.  *)
Needed == {"Content-Type", "Content-Length", "Last-Modified"}

Complete(object) == Needed \subseteq DOMAIN object

ExtractHead ==
  /\ step = "returned" /\ request.qsrt = "HEAD_OBJECT"
  /\ IF Complete(HeadObject)
     THEN /\ step' = "done"
          /\ result' = [NoResult EXCEPT !.kind = "head",
                                        !.length = HeadObject["Content-Length"].length]
     ELSE step' = "thrown" /\ UNCHANGED result
  /\ UNCHANGED <<vars, request, failing, sizeleft, attempt, held, lines, listing>>

(* extractListBucketContent, for listBuckets: the count must be that of    *)
(* the array, and no element may lack a field.                             *)
BucketFields == {"name", "location", "url", "created"}

(* Seeded fault: the count is not compared with the length of the array.   *)
WholeUncounted(l) ==
  /\ l.members = {"count", "buckets"}
  /\ \A i \in 1 .. l.count : i <= Len(l.buckets) => BucketFields \subseteq l.buckets[i]

Whole(l) ==
  /\ l.members = {"count", "buckets"}
  /\ Len(l.buckets) = l.count
  /\ \A i \in 1 .. l.count : BucketFields \subseteq l.buckets[i]

ExtractBuckets ==
  /\ step = "returned" /\ request.qsrt = "LIST_BUCKET"
  /\ IF Whole(listing)
     THEN /\ step' = "done"
          /\ result' = [NoResult EXCEPT !.kind = "buckets",
                                        !.buckets = [i \in 1 .. listing.count |-> i]]
     ELSE step' = "thrown" /\ UNCHANGED result
  /\ UNCHANGED <<vars, request, failing, sizeleft, attempt, held, lines, listing>>

Returned ==
  /\ step = "returned" /\ request.qsrt \notin {"HEAD_OBJECT", "LIST_BUCKET"}
  /\ step' = "done"
  /\ UNCHANGED <<vars, request, failing, sizeleft, attempt, held, lines, listing, result>>

RequestEnded ==
  /\ step \in {"done", "thrown"}
  /\ UNCHANGED <<vars, requestVars>>

RequestNext ==
  \/ Setup \/ SetupThrows
  \/ Sign \/ SignThrows
  \/ \E n \in 1 .. sizeleft : MemRead(n)
  \/ Receive \/ Performed \/ PerformThrows
  \/ Accept \/ Refuse
  \/ ExtractHead \/ ExtractBuckets \/ Returned
  \/ RequestEnded

RequestSpec == RequestInit /\ [][RequestNext]_<<vars, requestVars>>

-----------------------------------------------------------------------------
(* What the store is asked for (external): libcurl takes off the origin    *)
(* and the fragment, the store takes the rest apart and decodes it.        *)

Before(s, ch) == LET i == SelectInSeq(s, LAMBDA c : c = ch) IN
                      IF i = 0 THEN s ELSE SubSeq(s, 1, i - 1)
After(s, ch) == LET i == SelectInSeq(s, LAMBDA c : c = ch) IN
                     IF i = 0 THEN <<>> ELSE SubSeq(s, i + 1, Len(s))

Target(url) == Before(SubSeq(url, Len(Origin) + 1, Len(url)), "#")
SentPath(url) == Before(Target(url), "?")
SentQuery(url) == After(Target(url), "?")

(* '%' and two digits, of which "a" is one, become a byte.                 *)
Decoded(s) ==
  LET from[i \in 1 .. Len(s) + 1] ==
        IF i > Len(s) THEN <<>>
        ELSE IF s[i] = "%" /\ i + 2 <= Len(s) /\ s[i + 1] = "a" /\ s[i + 2] = "a"
             THEN <<"byte">> \o from[i + 3]
             ELSE <<s[i]>> \o from[i + 1]
  IN  from[1]

Cut(parts, c) == IF c = "&" THEN Append(parts, <<>>)
                 ELSE [parts EXCEPT ![Len(parts)] = Append(@, c)]
Split(s) ==
  LET upTo[n \in 0 .. Len(s)] == IF n = 0 THEN << <<>> >> ELSE Cut(upTo[n - 1], s[n])
  IN  upTo[Len(s)]

ReadKey(url) == Decoded(Tail(SentPath(url)))
ReadParams(url) ==
  IF SentQuery(url) = <<>> THEN <<>>
  ELSE [i \in DOMAIN Split(SentQuery(url)) |-> Decoded(After(Split(SentQuery(url))[i], "="))]

-----------------------------------------------------------------------------

Performing == step \in {"perform", "judge"}

SignedKindIsSent ==
  /\ signed.method = WireMethod
  /\ \A i \in 1 .. Len(header) : header[i][1] = "Content-Type" => header[i][2] = signed.type
  /\ signed.type # "" <=> \E i \in 1 .. Len(header) : header[i][1] = "Content-Type"

(* s is query with each slash written out: what is before a character      *)
(* takes two places more for every slash in it.                            *)
EscapedAs(query, s) ==
  \A i \in 1 .. Len(query) :
    LET k == i + 2 * NumSlashes(query, i - 1) IN
      IF query[i] = "/" THEN SubSeq(s, k, k + 2) = Slash ELSE s[k] = query[i]

SignedTargetIsSent ==
  /\ signed.path = IF SentPath(options.url) = <<"/">> THEN <<>> ELSE SentPath(options.url)
  /\ signed.room = TmpbufLen(SentQuery(options.url))
  /\ Len(signed.query) = signed.room
  /\ EscapedAs(SentQuery(options.url), signed.query)

(* The method and the type that are signed are those of the request that   *)
(* libcurl sends: Signature and the options of DoGetJSON_Internal, each    *)
(* with its own list of the types of requests, agree about every one.  So  *)
(* do qs_parse_url and libcurl about the path and the query of any URL,    *)
(* but for the slashes of the query, and the query that is signed fills    *)
(* the buffer that was measured for it, each character in its place.       *)
SignedIsSent == Performing => SignedKindIsSent /\ SignedTargetIsSent

(* The object and the parameters that the store is asked for are those     *)
(* the caller named.                                                       *)
Named == ReadKey(options.url) = request.key /\ ReadParams(options.url) = request.params

(* That holds, and http_parser accepts the URL, when nothing in the names  *)
(* has a meaning of its own in a URL, whatever slashes they have.          *)
(* Nothing escapes the others: README, "Other divergences".                *)
Plain(s, reserved) == ToSet(s) \cap (reserved \cup {"#", "%", "bad"}) = {}
PlainNames == /\ Plain(request.key, {"?"})
              /\ \A i \in 1 .. Len(request.params) : Plain(request.params[i], {"&"})

Addressed ==
  /\ step = "sign" /\ PlainNames => ~ ParseFails(options.url)
  /\ Performing /\ PlainNames => Named

(* In every attempt, the first or another, one length is announced for a   *)
(* body from memory, and it is what has been sent and what is left; no     *)
(* length but 0 is announced where there is no body.  The request that     *)
(* starts an upload is left out: it announces 0 and sends "uploads"        *)
(* (QingStorCommon.cpp:55 and :287).                                       *)
BodyAnnounced ==
  Performing /\ options.body # "uploads" =>
    LET lengths == {i \in 1 .. Len(header) : header[i][1] = "Content-Length"} IN
    /\ Cardinality(lengths) = IF request.qsrt \in {"CREATE_BUCKET", "DELETE_BUCKET"}
                              THEN 0 ELSE 1
    /\ \A i \in lengths :
         header[i][2] = IF options.body = "memory" THEN sent + sizeleft ELSE 0

(* No attempt leaves the memory of its reply behind, however it ends, and  *)
(* one that succeeds nothing else either.                                  *)
ReplyReleased ==
  /\ step \in {"setup", "returned", "done", "thrown"} => size = 0
  /\ step \in {"returned", "done"} => held = {}

(* The size a HEAD gives is the last that the headers of its own reply     *)
(* state, and these had all that is needed: never one left over from a     *)
(* reply before, or a zero for one that was missing.  A listing of buckets *)
(* has all that are in the array, each with all its fields.                *)
ResultIsReply ==
  /\ result.kind = "head" =>
       /\ \E i \in 1 .. Len(lines) :
            /\ lines[i].name = "Content-Length" /\ result.length = lines[i].length
            /\ \A j \in i + 1 .. Len(lines) : lines[j].name # "Content-Length"
       /\ \A name \in Needed : \E i \in 1 .. Len(lines) : lines[i].name = name
  /\ result.kind = "buckets" =>
       /\ Len(result.buckets) = Len(listing.buckets)
       /\ \A i \in 1 .. Len(result.buckets) : BucketFields \subseteq listing.buckets[result.buckets[i]]
  /\ step = "done" /\ request.qsrt = "HEAD_OBJECT" => result.kind = "head"

=============================================================================
