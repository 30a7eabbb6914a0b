--------------------------- MODULE Request_proofs ---------------------------
(***************************************************************************)
(* Safety of a call of DoGetJSON, for any requests, any number of attempts *)
(* and any replies: ParserCallback's buffer always has room for the '\0',  *)
(* and the parser is given the reply that came; no attempt leaves the      *)
(* memory of its reply behind; what is announced and signed is what is     *)
(* sent, and the store is asked for what the caller named.                 *)
(***************************************************************************)
EXTENDS Url_proofs, TLAPS

-----------------------------------------------------------------------------
(* The buffer of ParserCallback, for every initial size, every set of      *)
(* piece lengths and every bound on the reply                              *)

(* What the offsets stand for while the reply comes in: the bytes before   *)
(* position are those received, and position is inside the memory.         *)
Prefix ==
  /\ position = received
  /\ pc = "callback" => size > 0
  /\ size > 0 /\ pc \in {"receive", "callback"} => position < size
  /\ size = 0 => position = 0
  /\ pc \in {"receive", "callback"} =>
       \A i \in DOMAIN data : i < position => data[i] = i + 1

IInv == TypeOK /\ Prefix /\ TextIsReply

LEMMA InitIInv == Init => IInv
  BY BufferAssumption
  DEF Init, IInv, TypeOK, Prefix, TextIsReply, NoData, Byte, Unwritten

(* A new piece: the first one finds new memory.                            *)
LEMMA CallbackStep ==
  ASSUME IInv, NEW n \in Pieces, Callback(n)
  PROVE  IInv'
<1>1. n \in Nat /\ InitialSize \in Nat \ {0}
  BY BufferAssumption
<1>2. TypeOK'
  BY <1>1 DEF IInv, TypeOK, Callback, Byte, Unwritten
<1>3. Prefix'
  BY <1>1 DEF IInv, TypeOK, Prefix, Callback
<1>4. TextIsReply'
  BY DEF Callback, TextIsReply
<1> QED
  BY <1>2, <1>3, <1>4 DEF IInv

(* Growing keeps every byte received.                                      *)
LEMMA GrowStep ==
  ASSUME IInv, Grow
  PROVE  IInv'
<1>1. position < size /\ size \in Nat /\ position \in Nat
  BY DEF IInv, TypeOK, Prefix, Grow
<1>2. data' \in [0 .. size' - 1 -> Byte]
  BY <1>1 DEF IInv, TypeOK, Grow, Grown, NewSize, Byte, Unwritten
<1>3. \A i \in DOMAIN data' : i < position => data'[i] = i + 1
  BY <1>1 DEF IInv, TypeOK, Prefix, Grow, Grown, NewSize
<1>4. TypeOK'
  BY <1>1, <1>2 DEF IInv, TypeOK, Grow, NewSize
<1>5. Prefix'
  BY <1>1, <1>3 DEF IInv, TypeOK, Prefix, Grow, NewSize
<1>6. TextIsReply'
  BY DEF Grow, TextIsReply
<1> QED
  BY <1>4, <1>5, <1>6 DEF IInv

(* The piece goes behind the bytes received, and one offset stays free.    *)
LEMMA CopyStep ==
  ASSUME IInv, Copy
  PROVE  IInv'
<1>1. /\ position = received /\ position \in Nat /\ realsize \in Nat
      /\ size \in Nat /\ position + realsize < size
  BY DEF IInv, TypeOK, Prefix, Copy, TooSmall
<1>2. data' \in [0 .. size - 1 -> Byte]
  BY <1>1 DEF IInv, TypeOK, Copy, Byte
<1>3. \A i \in DOMAIN data' : i < position' => data'[i] = i + 1
  BY <1>1 DEF IInv, TypeOK, Prefix, Copy
<1>4. TypeOK'
  BY <1>1, <1>2 DEF IInv, TypeOK, Copy
<1>5. Prefix'
  BY <1>1, <1>3 DEF IInv, TypeOK, Prefix, Copy
<1>6. TextIsReply'
  BY DEF Copy, TextIsReply
<1> QED
  BY <1>4, <1>5, <1>6 DEF IInv

(* The terminator goes behind the text.                                    *)
LEMMA ParseStep ==
  ASSUME IInv, Parse
  PROVE  IInv'
<1>1. /\ position = received /\ position \in Nat /\ size \in Nat
      /\ position < size /\ data \in [0 .. size - 1 -> Byte]
  BY DEF IInv, TypeOK, Prefix, Parse
<1>2. \A k \in 1 .. position : k - 1 \in DOMAIN data /\ data[k - 1] = k
  BY <1>1 DEF IInv, Prefix, Parse
<1>3. text' = [k \in 1 .. position |-> k]
  BY <1>2 DEF Parse
<1>4. text' \in Seq(Byte)
  BY <1>1, <1>3 DEF Byte
<1>5. TypeOK'
  BY <1>1, <1>4 DEF IInv, TypeOK, Parse, Byte, Nul
<1>6. Prefix' /\ TextIsReply'
  BY <1>1, <1>3 DEF Prefix, TextIsReply, Parse
<1> QED
  BY <1>5, <1>6 DEF IInv

LEMMA NextIInv == IInv /\ [Next]_vars => IInv'
<1> SUFFICES ASSUME IInv, [Next]_vars PROVE IInv'
  OBVIOUS
<1>1. CASE \E n \in Pieces : Callback(n)
  BY <1>1, CallbackStep
<1>2. CASE Grow
  BY <1>2, GrowStep
<1>3. CASE Copy
  BY <1>3, CopyStep
<1>4. CASE Parse
  BY <1>4, ParseStep
<1>5. CASE NoReply
  BY <1>5 DEF NoReply, IInv, TypeOK, Prefix, TextIsReply
<1>6. CASE Release
  BY <1>6 DEF Release, IInv, TypeOK, Prefix, TextIsReply, NoData, Byte
<1>7. CASE UNCHANGED vars
  BY <1>7 DEF vars, IInv, TypeOK, Prefix, TextIsReply
<1> QED
  BY <1>1, <1>2, <1>3, <1>4, <1>5, <1>6, <1>7 DEF Next

LEMMA Safety == Spec => []IInv
  BY InitIInv, NextIInv, PTL DEF Spec

(* The variables keep their types: BufferInfo describes its memory.        *)
THEOREM BufferTypeOK == Spec => []TypeOK
  BY Safety, PTL DEF IInv

(* There is a byte for the '\0' that DoGetJSON_Internal writes at position *)
(* after the last call of ParserCallback.                                  *)
THEOREM BufferRoomForNul == Spec => []RoomForNul
<1>1. IInv => RoomForNul
  BY DEF IInv, Prefix, RoomForNul
<1> QED
  BY <1>1, Safety, PTL

(* The JSON or YAML parser is given the reply: however it was cut into     *)
(* pieces, ParserCallback has neither lost nor moved a byte.               *)
THEOREM BufferTextIsReply == Spec => []TextIsReply
  BY Safety, PTL DEF IInv

-----------------------------------------------------------------------------
(* The call *)

LEMMA RequestInitBuffer == RequestInit => Init
  BY DEF RequestInit

(* Each step of a call is a step of the buffer or leaves it alone.         *)
LEMMA RequestNextBuffer == [RequestNext]_<<vars, requestVars>> => [Next]_vars
<1> SUFFICES ASSUME [RequestNext]_<<vars, requestVars>> PROVE [Next]_vars
  OBVIOUS
<1>1. CASE Setup \/ ExtractHead \/ ExtractBuckets \/ Returned \/ \E n \in 1 .. sizeleft : MemRead(n)
  BY <1>1 DEF Setup, ExtractHead, ExtractBuckets, Returned, MemRead
<1>2. CASE Sign
  BY <1>2 DEF Sign
<1>3. CASE SetupThrows \/ SignThrows \/ PerformThrows \/ Refuse
  BY <1>3 DEF SetupThrows, SignThrows, PerformThrows, Refuse, Throw, Next
<1>4. CASE Accept
  BY <1>4 DEF Accept, Next
<1>5. CASE Receive
  BY <1>5 DEF Receive, Next
<1>6. CASE Performed
  BY <1>6 DEF Performed, Next
<1>7. CASE RequestEnded \/ UNCHANGED <<vars, requestVars>>
  BY <1>7 DEF RequestEnded
<1> QED
  BY <1>1, <1>2, <1>3, <1>4, <1>5, <1>6, <1>7 DEF RequestNext

(* What a call of DoGetJSON does to the buffer of its replies, attempt     *)
(* after attempt, is a behaviour of ResponseBuffer.                        *)
THEOREM RequestImplementsBuffer == RequestSpec => Spec
  BY RequestInitBuffer, RequestNextBuffer, PTL DEF RequestSpec, Spec

(* In every attempt of every request the parser is given the reply that    *)
(* came, however libcurl's calls of ParserCallback cut it.                 *)
THEOREM RequestTextIsReply == RequestSpec => [](RoomForNul /\ TextIsReply)
  BY RequestImplementsBuffer, BufferRoomForNul, BufferTextIsReply, PTL

(* The memory of a reply is deleted on every way out of an attempt, and    *)
(* the handle and the headers on the way of those that succeed.            *)
THEOREM RequestReplyReleased == RequestSpec => []ReplyReleased
<1>1. RequestInit => ReplyReleased
  BY DEF RequestInit, Init, ReplyReleased
<1>2. ReplyReleased /\ [RequestNext]_<<vars, requestVars>> => ReplyReleased'
  <2> SUFFICES ASSUME ReplyReleased, [RequestNext]_<<vars, requestVars>>
               PROVE  ReplyReleased'
    OBVIOUS
  <2>1. CASE Setup
    BY <2>1 DEF Setup, ReplyReleased, vars
  <2>2. CASE Sign
    BY <2>2 DEF Sign, ReplyReleased
  <2>3. CASE SetupThrows \/ SignThrows \/ PerformThrows \/ Refuse
    <3>1. Throw
      BY <2>3 DEF SetupThrows, SignThrows, PerformThrows, Refuse
    <3> QED
      BY <3>1 DEF Throw, Release, ReplyReleased
  <2>4. CASE \E n \in 1 .. sizeleft : MemRead(n)
    BY <2>4 DEF MemRead, ReplyReleased
  <2>5. CASE Receive
    BY <2>5 DEF Receive, ReplyReleased, requestVars
  <2>6. CASE Performed
    BY <2>6 DEF Performed, ReplyReleased
  <2>7. CASE Accept
    BY <2>7 DEF Accept, Release, ReplyReleased
  <2>8. CASE ExtractHead \/ ExtractBuckets \/ Returned
    <3>1. step = "returned" /\ UNCHANGED <<vars, held>>
      BY <2>8 DEF ExtractHead, ExtractBuckets, Returned
    <3> QED
      BY <2>8, <3>1 DEF ExtractHead, ExtractBuckets, Returned, ReplyReleased, vars
  <2>9. CASE RequestEnded \/ UNCHANGED <<vars, requestVars>>
    BY <2>9 DEF RequestEnded, ReplyReleased, vars, requestVars
  <2> QED
    BY <2>1, <2>2, <2>3, <2>4, <2>5, <2>6, <2>7, <2>8, <2>9 DEF RequestNext
<1> QED
  BY <1>1, <1>2, PTL DEF RequestSpec

-----------------------------------------------------------------------------
(* How a request is announced and signed *)

(* What the headers are made of.                                           *)
Names == {"Host", "Location", "Content-Length", "Date", "Content-Type", "Authorization"}
Contents == {"host", "location", "date", "plain/text", "application/json", "signature"} \cup Nat
Fields == Names \X Contents

Places(h, name) == {i \in 1 .. Len(h) : h[i][1] = name}

(* h has one field of a name, with that value.                             *)
Once(h, name, value) ==
  \E k \in 1 .. Len(h) : Places(h, name) = {k} /\ h[k][2] = value

LEMMA FieldsKept ==
  ASSUME NEW h \in Seq(Fields), NEW t \in Seq(Fields), NEW name,
         Places(t, name) = {}
  PROVE  /\ h \o t \in Seq(Fields)
         /\ Places(h \o t, name) = Places(h, name)
         /\ \A v : Once(h, name, v) => Once(h \o t, name, v)
<1> DEFINE r == h \o t
<1>2. /\ r \in Seq(Fields) /\ Len(r) = Len(h) + Len(t) /\ Len(h) \in Nat /\ Len(t) \in Nat
      /\ \A i \in 1 .. Len(r) : r[i] = IF i <= Len(h) THEN h[i] ELSE t[i - Len(h)]
  BY ConcatProperties, LenProperties
<1> HIDE DEF r
<1>3. \A i \in 1 .. Len(h) : i \in 1 .. Len(r) /\ r[i] = h[i]
  BY <1>2
<1>4. \A i \in 1 .. Len(r) : i \in 1 .. Len(h) \/ r[i][1] # name
  <2> SUFFICES ASSUME NEW i \in 1 .. Len(r), i \notin 1 .. Len(h)
               PROVE  r[i][1] # name
    OBVIOUS
  <2>1. i - Len(h) \in 1 .. Len(t) /\ r[i] = t[i - Len(h)]
    BY <1>2
  <2> QED
    BY <2>1 DEF Places
<1>5. Places(r, name) = Places(h, name)
  BY <1>3, <1>4 DEF Places
<1>6. \A v : Once(h, name, v) => Once(r, name, v)
  BY <1>3, <1>5 DEF Once
<1> QED
  BY <1>2, <1>5, <1>6 DEF r

LEMMA OneField ==
  ASSUME NEW name \in Names, NEW v \in Contents
  PROVE  /\ << <<name, v>> >> \in Seq(Fields)
         /\ \A other : other # name => Places(<< <<name, v>> >>, other) = {}
<1> DEFINE e == <<name, v>>
<1>1. e \in Fields /\ e[1] = name
  BY DEF Fields
<1> HIDE DEF e
<1>2. <<e>> \in Seq(Fields) /\ Len(<<e>>) = 1 /\ <<e>>[1] = e
  BY <1>1
<1>3. \A i \in 1 .. Len(<<e>>) : <<e>>[i][1] = name
  BY <1>1, <1>2
<1> QED
  BY <1>2, <1>3 DEF Places, e

LEMMA FieldAdded ==
  ASSUME NEW h \in Seq(Fields), NEW name \in Names, NEW v \in Contents,
         Places(h, name) = {}
  PROVE  /\ h \o << <<name, v>> >> \in Seq(Fields)
         /\ Once(h \o << <<name, v>> >>, name, v)
<1> DEFINE e == <<name, v>>
           r == h \o <<e>>
<1>1. e \in Fields /\ e[1] = name /\ e[2] = v
  BY DEF Fields
<1> HIDE DEF e
<1>2. <<e>> \in Seq(Fields) /\ Len(<<e>>) = 1 /\ <<e>>[1] = e
  BY <1>1
<1>3. /\ r \in Seq(Fields) /\ Len(r) = Len(h) + 1 /\ Len(h) \in Nat
      /\ \A i \in 1 .. Len(r) : r[i] = IF i <= Len(h) THEN h[i] ELSE <<e>>[i - Len(h)]
  BY <1>2, ConcatProperties, LenProperties
<1> HIDE DEF r
<1>4. r[Len(h) + 1] = e
  <2>1. Len(h) + 1 \in 1 .. Len(r) /\ ~ (Len(h) + 1 <= Len(h)) /\ (Len(h) + 1) - Len(h) = 1
    BY <1>3
  <2> QED
    BY <1>2, <1>3, <2>1
<1>5. \A i \in 1 .. Len(h) : r[i] = h[i] /\ h[i][1] # name
  BY <1>3 DEF Places
<1>6. Places(r, name) = {Len(h) + 1}
  <2>1. \A i \in 1 .. Len(r) : i \in 1 .. Len(h) \/ i = Len(h) + 1
    BY <1>3
  <2>2. Len(h) + 1 \in 1 .. Len(r)
    BY <1>3
  <2> QED
    BY <1>1, <1>4, <1>5, <2>1, <2>2 DEF Places
<1>7. Len(h) + 1 \in 1 .. Len(r)
  BY <1>3
<1> QED
  BY <1>1, <1>3, <1>4, <1>6, <1>7 DEF Once, r, e

LEMMA EmptyFields == <<>> \in Seq(Fields) /\ \A name : Places(<<>>, name) = {}
<1>1. <<>> \in Seq(Fields) /\ Len(<<>>) = 0
  BY EmptySeq
<1>2. 1 .. 0 = {}
  OBVIOUS
<1> QED
  BY <1>1, <1>2 DEF Places

(* A field that is not put there when its value is empty.                  *)
LEMMA FieldOrNone ==
  ASSUME NEW name \in Names, NEW v \in Contents \cup {""}
  PROVE  /\ Field(name, v) \in Seq(Fields)
         /\ \A other : other # name => Places(Field(name, v), other) = {}
         /\ v = "" => Field(name, v) = <<>>
         /\ v # "" => Field(name, v) = << <<name, v>> >>
<1>1. <<>> \in Seq(Fields) /\ \A other : Places(<<>>, other) = {}
  BY EmptyFields
<1>2. CASE v = ""
  BY <1>1, <1>2 DEF Field
<1>3. CASE v # ""
  BY <1>3, OneField DEF Field
<1> QED
  BY <1>2, <1>3

(* The headers a HeaderContent begins with.                                *)
Address(r) ==
  << <<"Host", "host">> >> \o IF r.location THEN << <<"Location", "location">> >> ELSE <<>>

LEMMA AddressFields ==
  ASSUME NEW r
  PROVE  /\ Address(r) \in Seq(Fields)
         /\ Places(Address(r), "Content-Length") = {}
         /\ Places(Address(r), "Content-Type") = {}
<1> DEFINE host == << <<"Host", "host">> >>
           location == << <<"Location", "location">> >>
<1>1. /\ "Host" \in Names /\ "Location" \in Names /\ "host" \in Contents
      /\ "location" \in Contents
  BY DEF Names, Contents
<1>2. /\ host \in Seq(Fields) /\ location \in Seq(Fields) /\ <<>> \in Seq(Fields)
      /\ \A other : Places(<<>>, other) = {}
      /\ \A other : other # "Host" => Places(host, other) = {}
      /\ \A other : other # "Location" => Places(location, other) = {}
  BY <1>1, OneField DEF Places
<1>3. PICK rest \in {location, <<>>} : Address(r) = host \o rest
  BY DEF Address
<1> HIDE DEF host, location
<1>4. rest \in Seq(Fields) /\ Places(rest, "Content-Length") = {} /\ Places(rest, "Content-Type") = {}
  BY <1>2
<1> QED
  BY <1>2, <1>3, <1>4, FieldsKept

(* The fields that Signature adds, each with what it says.                 *)
LEMMA SignedFields ==
  ASSUME NEW r \in RequestType, NEW left \in Nat, NEW h,
         LET length == CASE r.qsrt \in Sending -> << <<"Content-Length", left>> >>
                         [] r.qsrt \in {"CREATE_BUCKET", "DELETE_BUCKET"} -> <<>>
                         [] OTHER -> << <<"Content-Length", 0>> >>
         IN  h = Address(r) \o length \o Field("Date", "date")
                   \o Field("Content-Type", SignedType(r.qsrt))
                   \o Field("Authorization", "signature")
  PROVE  /\ IF r.qsrt \in {"CREATE_BUCKET", "DELETE_BUCKET"} THEN Places(h, "Content-Length") = {}
            ELSE Once(h, "Content-Length", IF r.qsrt \in Sending THEN left ELSE 0)
         /\ IF SignedType(r.qsrt) = "" THEN Places(h, "Content-Type") = {}
            ELSE Once(h, "Content-Type", SignedType(r.qsrt))
<1> DEFINE type == SignedType(r.qsrt)
           length == CASE r.qsrt \in Sending -> << <<"Content-Length", left>> >>
                       [] r.qsrt \in {"CREATE_BUCKET", "DELETE_BUCKET"} -> <<>>
                       [] OTHER -> << <<"Content-Length", 0>> >>
           none == r.qsrt \in {"CREATE_BUCKET", "DELETE_BUCKET"}
           value == IF r.qsrt \in Sending THEN left ELSE 0
           date == Field("Date", "date")
           kind == Field("Content-Type", type)
           author == Field("Authorization", "signature")
           h1 == Address(r) \o length
           h2 == h1 \o date
           h3 == h2 \o kind
           Said(g) == IF none THEN Places(g, "Content-Length") = {}
                      ELSE Once(g, "Content-Length", value)
           Typed(g) == IF type = "" THEN Places(g, "Content-Type") = {}
                       ELSE Once(g, "Content-Type", type)
<1>1. h = h3 \o author
  OBVIOUS
<1>2. type \in {"", "plain/text", "application/json"}
  BY DEF SignedType
<1>3. /\ "Content-Length" \in Names /\ "Content-Type" \in Names
      /\ "Date" \in Names /\ "Authorization" \in Names
      /\ value \in Contents /\ type \in Contents \cup {""}
      /\ "date" \in Contents \cup {""} /\ "signature" \in Contents \cup {""}
  BY <1>2 DEF Names, Contents
<1>4. length = IF none THEN <<>> ELSE << <<"Content-Length", value>> >>
  BY DEF Sending
<1>5. /\ date \in Seq(Fields) /\ Places(date, "Content-Length") = {}
      /\ Places(date, "Content-Type") = {}
      /\ author \in Seq(Fields) /\ Places(author, "Content-Length") = {}
      /\ Places(author, "Content-Type") = {}
      /\ kind \in Seq(Fields) /\ Places(kind, "Content-Length") = {}
      /\ type = "" => kind = <<>>
      /\ type # "" => kind = << <<"Content-Type", type>> >>
  BY <1>3, FieldOrNone
<1>6. /\ Address(r) \in Seq(Fields) /\ Places(Address(r), "Content-Length") = {}
      /\ Places(Address(r), "Content-Type") = {}
  BY AddressFields
<1> HIDE DEF length, value, none, type, date, kind, author
(* What is behind the length leaves it alone.                              *)
<1>7. ASSUME NEW g \in Seq(Fields), NEW t \in Seq(Fields), Said(g),
              Places(t, "Content-Length") = {}
       PROVE  g \o t \in Seq(Fields) /\ Said(g \o t)
  <2>1. /\ g \o t \in Seq(Fields) /\ Places(g \o t, "Content-Length") = Places(g, "Content-Length")
        /\ \A v : Once(g, "Content-Length", v) => Once(g \o t, "Content-Length", v)
    BY <1>7, FieldsKept
  <2> QED
    BY <1>7, <2>1
<1>8. ASSUME NEW g \in Seq(Fields), NEW t \in Seq(Fields), Typed(g),
              Places(t, "Content-Type") = {}
       PROVE  Typed(g \o t)
  <2>1. /\ Places(g \o t, "Content-Type") = Places(g, "Content-Type")
        /\ \A v : Once(g, "Content-Type", v) => Once(g \o t, "Content-Type", v)
    BY <1>8, FieldsKept
  <2> QED
    BY <1>8, <2>1
<1>9. h1 \in Seq(Fields) /\ Said(h1) /\ Places(h1, "Content-Type") = {}
  <2>1. CASE none
    <3>1. h1 = Address(r)
      BY <1>4, <1>6, <2>1, ConcatEmptySeq
    <3> QED
      BY <1>6, <2>1, <3>1
  <2>2. CASE ~ none
    <3> DEFINE t == << <<"Content-Length", value>> >>
    <3>1. h1 = Address(r) \o t
      BY <1>4, <2>2
    <3>2. h1 \in Seq(Fields) /\ Once(h1, "Content-Length", value)
      BY <1>3, <1>6, <3>1, FieldAdded
    <3>3. t \in Seq(Fields) /\ Places(t, "Content-Type") = {}
      BY <1>3, OneField
    <3> HIDE DEF t
    <3>4. Places(h1, "Content-Type") = {}
      BY <1>6, <3>1, <3>3, FieldsKept
    <3> QED
      BY <2>2, <3>2, <3>4
  <2> QED
    BY <2>1, <2>2
<1> HIDE DEF h1
<1>10. h2 \in Seq(Fields) /\ Said(h2) /\ Places(h2, "Content-Type") = {}
  <2>1. h2 \in Seq(Fields) /\ Said(h2)
    BY <1>5, <1>9, <1>7
  <2>2. Places(h2, "Content-Type") = {}
    <3>1. \A g, t : /\ g \in Seq(Fields) /\ t \in Seq(Fields) /\ Places(t, "Content-Type") = {}
                   => Places(g \o t, "Content-Type") = Places(g, "Content-Type")
      BY FieldsKept
    <3> HIDE DEF Places
    <3> QED
      BY <1>5, <1>9, <3>1 DEF h2
  <2> QED
    BY <2>1, <2>2
<1> HIDE DEF h2
<1>11. h3 \in Seq(Fields) /\ Said(h3) /\ Typed(h3)
  <2>1. h3 \in Seq(Fields) /\ Said(h3)
    BY <1>5, <1>10, <1>7
  <2>2. CASE type = ""
    <3>1. h3 = h2
      BY <1>5, <1>10, <2>2, ConcatEmptySeq
    <3> QED
      BY <1>10, <2>1, <2>2, <3>1
  <2>3. CASE type # ""
    <3>1. h3 = h2 \o << <<"Content-Type", type>> >> /\ type \in Contents
      BY <1>3, <1>5, <2>3
    <3>2. Once(h3, "Content-Type", type)
      BY <1>3, <1>10, <3>1, FieldAdded
    <3> QED
      BY <2>1, <2>3, <3>2
  <2> QED
    BY <2>2, <2>3
<1> HIDE DEF h3
<1>12. Said(h) /\ Typed(h)
  BY <1>1, <1>5, <1>11, <1>7, <1>8
<1> QED
  BY <1>12 DEF none, value, type

Unlengthed(r) == r.qsrt \in {"CREATE_BUCKET", "DELETE_BUCKET"}

(* The length is announced as often as it should be, and is that of what   *)
(* has been sent and what is left.                                         *)
Announced ==
  IF Unlengthed(request) THEN Places(header, "Content-Length") = {}
  ELSE Once(header, "Content-Length", IF request.qsrt \in Sending THEN sent + sizeleft ELSE 0)

Typed ==
  /\ signed.method = SignedMethod(request.qsrt)
  /\ signed.type = SignedType(request.qsrt)
  /\ IF signed.type = "" THEN Places(header, "Content-Type") = {}
     ELSE Once(header, "Content-Type", signed.type)

(* What an attempt has made, from its start to the end of its reply; what  *)
(* the attempts share is what is left of the body.                         *)
Made ==
  /\ request \in RequestType
  /\ sizeleft \in Nat /\ sent \in Nat
  /\ step = "sign" => header = Address(request) /\ sent = 0
  /\ step \in {"sign", "perform", "judge"} => options = OptionsOf(request)
  /\ Performing => Announced /\ Typed

LEMMA InitMade == RequestInit => Made
<1> SUFFICES ASSUME RequestInit PROVE Made
  OBVIOUS
<1>1. request \in RequestType /\ step = "setup" /\ sizeleft = request.body /\ sent = 0
  BY RequestAssumption DEF RequestInit
<1>2. request.body \in Nat
  BY <1>1 DEF RequestType
<1> QED
  BY <1>1, <1>2 DEF Made, Performing

LEMMA NextMade == Made /\ [RequestNext]_<<vars, requestVars>> => Made'
<1> SUFFICES ASSUME Made, [RequestNext]_<<vars, requestVars>> PROVE Made'
  OBVIOUS
<1> USE DEF Made, Performing
<1>1. CASE Setup
  <2>1. /\ step' = "sign" /\ options' = OptionsOf(request) /\ header' = Address(request)
        /\ sent' = 0 /\ request' = request /\ sizeleft' = sizeleft
    BY <1>1 DEF Setup, Address
  <2> QED
    BY <2>1
<1>2. CASE SetupThrows \/ SignThrows \/ PerformThrows \/ Refuse
  <2>1. Throw /\ UNCHANGED <<request, sizeleft, sent>>
    BY <1>2 DEF SetupThrows, SignThrows, PerformThrows, Refuse, attempt
  <2>2. step' \in {"setup", "thrown"}
    BY <2>1 DEF Throw
  <2> QED
    BY <2>1, <2>2
<1>3. CASE Sign
  <2>1. /\ step = "sign" /\ step' = "perform" /\ request' = request /\ sizeleft' = sizeleft
        /\ sent' = sent /\ options' = options
        /\ signed'.method = SignedMethod(request.qsrt) /\ signed'.type = SignedType(request.qsrt)
    BY <1>3 DEF Sign
  <2>2. header' = header \o LengthField \o Field("Date", "date")
                    \o Field("Content-Type", SignedType(request.qsrt))
                    \o Field("Authorization", "signature")
    BY <1>3 DEF Sign
  <2>3. header = Address(request) /\ sent = 0
    BY <2>1
  <2>4. /\ IF request.qsrt \in {"CREATE_BUCKET", "DELETE_BUCKET"}
           THEN Places(header', "Content-Length") = {}
           ELSE Once(header', "Content-Length", IF request.qsrt \in Sending THEN sizeleft ELSE 0)
        /\ IF SignedType(request.qsrt) = "" THEN Places(header', "Content-Type") = {}
           ELSE Once(header', "Content-Type", SignedType(request.qsrt))
    BY <2>2, <2>3, SignedFields DEF LengthField
  <2>5. sent' + sizeleft' = sizeleft
    BY <2>1, <2>3
  <2>6. Announced'
    BY <2>1, <2>4, <2>5 DEF Announced, Unlengthed, Places, Once
  <2>7. Typed'
    BY <2>1, <2>4 DEF Typed, Places, Once
  <2> QED
    BY <2>1, <2>6, <2>7
<1>4. ASSUME NEW n \in 1 .. sizeleft, MemRead(n) PROVE Made'
  <2>1. /\ step = "perform" /\ step' = step /\ sizeleft' = sizeleft - n /\ sent' = sent + n
        /\ UNCHANGED <<request, options, header, signed>>
    BY <1>4 DEF MemRead
  <2>2. sizeleft' \in Nat /\ sent' \in Nat /\ sent' + sizeleft' = sent + sizeleft
    BY <2>1
  <2>3. Announced'
    BY <2>1, <2>2 DEF Announced, Places, Once, Unlengthed
  <2>4. Typed'
    BY <2>1 DEF Typed, Places, Once
  <2> QED
    BY <2>1, <2>2, <2>3, <2>4
<1>5. CASE \/ Receive \/ Performed \/ Accept \/ ExtractHead \/ ExtractBuckets \/ Returned
           \/ RequestEnded \/ UNCHANGED <<vars, requestVars>>
  <2>1. UNCHANGED <<request, sizeleft, options, header, signed, sent>>
    BY <1>5 DEF Receive, Performed, Accept, ExtractHead, ExtractBuckets, Returned, RequestEnded,
                requestVars, attempt
  <2>2. \/ step' = step
        \/ step = "perform" /\ step' = "judge"
        \/ step' \in {"returned", "done", "thrown"}
    BY <1>5 DEF Receive, Performed, Accept, ExtractHead, ExtractBuckets, Returned, RequestEnded,
                requestVars
  <2>3. (Announced /\ Typed) => Announced' /\ Typed'
    BY <2>1 DEF Announced, Typed, Places, Once, Unlengthed
  <2> QED
    BY <2>1, <2>2, <2>3
<1> QED
  BY <1>1, <1>2, <1>3, <1>4, <1>5 DEF RequestNext

LEMMA RequestMade == RequestSpec => []Made
  BY InitMade, NextMade, PTL DEF RequestSpec

(* A body from memory is announced once, in every attempt, with the length *)
(* of what has been sent and is left, however much the attempts before     *)
(* have taken of it: Signature and mem_read_callback share sizeleft.       *)
THEOREM RequestBodyAnnounced == RequestSpec => []BodyAnnounced
<1>1. Made => BodyAnnounced
  <2> SUFFICES ASSUME Made, Performing, options.body # "uploads"
               PROVE  /\ Cardinality(Places(header, "Content-Length"))
                            = IF request.qsrt \in {"CREATE_BUCKET", "DELETE_BUCKET"} THEN 0 ELSE 1
                      /\ \A i \in Places(header, "Content-Length") :
                           header[i][2] = IF options.body = "memory" THEN sent + sizeleft ELSE 0
    BY DEF BodyAnnounced, Places
  <2>1. Announced /\ options = OptionsOf(request)
    BY DEF Made, Performing
  <2>2. options.body = "memory" <=> request.qsrt \in Sending
    <3>1. options.body = CASE request.qsrt \in Sending -> "memory"
                           [] request.qsrt = "INIT_MP_UPLOAD" -> "uploads"
                           [] OTHER -> "none"
      BY <2>1 DEF OptionsOf
    <3> QED
      BY <3>1 DEF Sending
  <2>3. CASE Unlengthed(request)
    <3>1. Places(header, "Content-Length") = {}
      BY <2>1, <2>3 DEF Announced
    <3> QED
      BY <2>3, <3>1, FS_EmptySet DEF Unlengthed
  <2>4. CASE ~ Unlengthed(request)
    <3>1. PICK k \in 1 .. Len(header) :
             /\ Places(header, "Content-Length") = {k}
             /\ header[k][2] = IF request.qsrt \in Sending THEN sent + sizeleft ELSE 0
      BY <2>1, <2>4 DEF Announced, Once
    <3>2. Cardinality(Places(header, "Content-Length")) = 1
      BY <3>1, FS_Singleton
    <3> QED
      BY <2>2, <2>4, <3>1, <3>2 DEF Unlengthed
  <2> QED
    BY <2>3, <2>4
<1> QED
  BY <1>1, RequestMade, PTL

(* The method and the type that Signature signs are those that libcurl     *)
(* sends, for every type of request: the two lists of types agree.         *)
THEOREM RequestSignedKind == RequestSpec => [](Performing => SignedKindIsSent)
<1>1. Made => (Performing => SignedKindIsSent)
  <2> SUFFICES ASSUME Made, Performing PROVE SignedKindIsSent
    OBVIOUS
  <2>1. Typed /\ options = OptionsOf(request) /\ request.qsrt \in Types
    BY DEF Made, Performing, RequestType
  <2>2. signed.method = WireMethod
    BY <2>1 DEF Typed, WireMethod, SignedMethod, OptionsOf, Types, Listing, Sending, Deleting
  <2>3. CASE signed.type = ""
    <3>1. Places(header, "Content-Type") = {}
      BY <2>1, <2>3 DEF Typed
    <3> QED
      BY <2>2, <2>3, <3>1 DEF Places, SignedKindIsSent
  <2>4. CASE signed.type # ""
    <3>1. PICK k \in 1 .. Len(header) :
             Places(header, "Content-Type") = {k} /\ header[k][2] = signed.type
      BY <2>1, <2>4 DEF Typed, Once
    <3> QED
      BY <2>2, <2>4, <3>1 DEF Places, SignedKindIsSent
  <2> QED
    BY <2>3, <2>4
<1> QED
  BY <1>1, RequestMade, PTL

(* The path and the query that an attempt signs are what qs_parse_url      *)
(* finds in its URL, which http_parser has accepted.                       *)
Directed ==
  /\ request \in Requests
  /\ Performing =>
       /\ ~ ParseFails(options.url)
       /\ signed.path = IF request.qsrt = "LIST_BUCKET" THEN <<>> ELSE PathOf(options.url)
       /\ signed.query = Escaped(ExtractField(options.url, "query"))
       /\ signed.room = TmpbufLen(ExtractField(options.url, "query"))

LEMMA NextDirected == Directed /\ [RequestNext]_<<vars, requestVars>> => Directed'
<1> SUFFICES ASSUME Directed, [RequestNext]_<<vars, requestVars>> PROVE Directed'
  OBVIOUS
<1> USE DEF Directed, Performing
<1>1. CASE Setup
  <2>1. step' = "sign" /\ request' = request
    BY <1>1 DEF Setup
  <2> QED
    BY <2>1
<1>2. CASE SetupThrows \/ SignThrows \/ PerformThrows \/ Refuse
  <2>1. Throw /\ request' = request
    BY <1>2 DEF SetupThrows, SignThrows, PerformThrows, Refuse
  <2>2. step' \in {"setup", "thrown"}
    BY <2>1 DEF Throw
  <2> QED
    BY <2>1, <2>2
<1>3. CASE Sign
  <2>1. /\ ~ ParseFails(options.url) /\ UNCHANGED <<request, options>>
        /\ signed'.path = IF request.qsrt = "LIST_BUCKET" THEN <<>> ELSE PathOf(options.url)
        /\ signed'.query = Escaped(ExtractField(options.url, "query"))
        /\ signed'.room = TmpbufLen(ExtractField(options.url, "query"))
    BY <1>3 DEF Sign
  <2> QED
    BY <2>1
<1>4. CASE \/ \E n \in 1 .. sizeleft : MemRead(n)
           \/ Receive \/ Performed \/ Accept \/ ExtractHead \/ ExtractBuckets \/ Returned
           \/ RequestEnded \/ UNCHANGED <<vars, requestVars>>
  <2>1. UNCHANGED <<request, options, signed>>
    BY <1>4 DEF MemRead, Receive, Performed, Accept, ExtractHead, ExtractBuckets, Returned,
                RequestEnded, requestVars, attempt
  <2>2. step' = step \/ step = "perform" \/ step' \in {"returned", "done", "thrown"}
    BY <1>4 DEF MemRead, Receive, Performed, Accept, ExtractHead, ExtractBuckets, Returned,
                RequestEnded, requestVars
  <2> QED
    BY <2>1, <2>2
<1> QED
  BY <1>1, <1>2, <1>3, <1>4 DEF RequestNext

LEMMA RequestDirected == RequestSpec => []Directed
<1>1. RequestInit => Directed
  BY DEF RequestInit, Directed, Performing
<1> QED
  BY <1>1, NextDirected, PTL DEF RequestSpec

(* For every request whose URL http_parser accepts, the path and the query *)
(* that are signed are those the store is sent, whatever names they are    *)
(* made of; each slash of the query is written out, and the result fills   *)
(* the buffer measured for it.  So with the method and the type.           *)
THEOREM RequestSignedIsSent == RequestSpec => []SignedIsSent
<1>1. Made /\ Directed /\ (Performing => SignedKindIsSent) => SignedIsSent
  <2> SUFFICES ASSUME Made, Directed, Performing PROVE SignedTargetIsSent
    BY DEF SignedIsSent
  <2>1. request \in RequestType /\ options = OptionsOf(request) /\ request \in Requests
    BY DEF Made, Performing, Directed
  <2>2. PICK s : s = Url(request)
    OBVIOUS
  <2>3. options.url = s
    BY <2>1, <2>2 DEF OptionsOf
  <2>4. s \in Seq(Chars) /\ Started(s)
    BY <2>1, <2>2, UrlIs DEF Spelled
  <2>5. /\ ~ ParseFails(s)
        /\ signed.path = IF request.qsrt = "LIST_BUCKET" THEN <<>> ELSE PathOf(s)
        /\ signed.query = Escaped(ExtractField(s, "query"))
        /\ signed.room = TmpbufLen(ExtractField(s, "query"))
    BY <2>3 DEF Directed
  <2>6. ExtractField(s, "path") = SentPath(s) /\ ExtractField(s, "query") = SentQuery(s)
    BY <2>4, <2>5, TargetsAgree
  <2>7. signed.path = IF SentPath(s) = <<"/">> THEN <<>> ELSE SentPath(s)
    <3>1. CASE request.qsrt = "LIST_BUCKET"
      <4>1. request.key = <<>>
        BY <2>1, <3>1, RequestAssumption
      <4>2. SentPath(s) = <<"/">>
        BY <2>1, <2>2, <2>5, <4>1, PathWithoutKey
      <4> QED
        BY <2>5, <3>1, <4>2
    <3>2. CASE request.qsrt # "LIST_BUCKET"
      BY <2>5, <2>6, <3>2 DEF PathOf
    <3> QED
      BY <3>1, <3>2
  <2>8. PICK q \in Seq(Chars) : q = SentQuery(s)
    BY <2>4, SentQueryKind
  <2>9. Len(Escaped(q)) = TmpbufLen(q) /\ EscapedAs(q, Escaped(q))
    BY EscapedFits
  <2>10. signed.query = Escaped(q) /\ signed.room = TmpbufLen(q)
    BY <2>5, <2>6, <2>8
  <2> QED
    BY <2>3, <2>7, <2>8, <2>9, <2>10 DEF SignedTargetIsSent
<1> QED
  BY <1>1, RequestMade, RequestDirected, RequestSignedKind, PTL

(* Names in which nothing has a meaning of its own in a URL reach the      *)
(* store as the caller gave them, of any length and in any number, and no  *)
(* attempt fails because of them: what Url writes, http_parser, the rules  *)
(* of libcurl and the store's reading take apart again.                    *)
THEOREM RequestAddressed == RequestSpec => []Addressed
<1>1. Made => Addressed
  <2>1. PlainNames <=> PlainRequest(request)
    BY DEF PlainNames, PlainRequest
  <2>2. ASSUME Made, step = "sign" \/ Performing, PlainNames
        PROVE  ~ ParseFails(options.url) /\ Named
    <3>1. request \in RequestType /\ options = OptionsOf(request)
      BY <2>2 DEF Made, Performing
    <3>2. options.url = Url(request)
      BY <3>1 DEF OptionsOf
    <3>3. PlainRequest(request)
      BY <2>1, <2>2
    <3>4. ~ ParseFails(Url(request))
      BY <3>1, <3>3, PlainUrlSent
    <3>5. ReadKey(Url(request)) = request.key /\ ReadParams(Url(request)) = request.params
      BY <3>1, <3>3, PlainNamesRead
    <3> QED
      BY <3>2, <3>4, <3>5 DEF Named
  <2> QED
    BY <2>2 DEF Addressed
<1> QED
  BY <1>1, RequestMade, PTL

-----------------------------------------------------------------------------
(* What is read from the headers of a reply *)

(* f is the recursion of HeadObject over the lines ls.                     *)
Reads(f, ls) ==
  f = [n \in Nat |-> IF n = 0 THEN [name \in {} |-> <<>>] ELSE Member(f[n - 1], ls[n])]

(* The last line of a name among the first n.                              *)
LastsOf(ls, name, n) ==
  {i \in 1 .. n : ls[i].name = name /\ \A j \in i + 1 .. n : ls[j].name # name}

(* The recursion has a solution: each name with the last of its lines.     *)
LEMMA ReadsExists == ASSUME NEW ls PROVE \E f : Reads(f, ls)
<1> DEFINE NamesOf(n) == {ls[i].name : i \in 1 .. n}
           Line(n, name) == ls[CHOOSE i : i \in LastsOf(ls, name, n)]
           f == [n \in Nat |-> [name \in NamesOf(n) |-> Line(n, name)]]
<1>1. f[0] = [name \in {} |-> <<>>]
  <2>1. NamesOf(0) = {}
    OBVIOUS
  <2> QED
    BY <2>1
<1>2. ASSUME NEW n \in Nat \ {0} PROVE f[n] = Member(f[n - 1], ls[n])
  <2>1. n - 1 \in Nat /\ f[n] = [name \in NamesOf(n) |-> Line(n, name)]
        /\ f[n - 1] = [name \in NamesOf(n - 1) |-> Line(n - 1, name)]
    OBVIOUS
  <2>2. 1 .. n = (1 .. n - 1) \cup {n} /\ n \notin 1 .. n - 1
    OBVIOUS
  <2>3. NamesOf(n) = NamesOf(n - 1) \cup {ls[n].name}
    BY <2>2
  <2>4. Line(n, ls[n].name) = ls[n]
    <3>1. LastsOf(ls, ls[n].name, n) = {n}
      BY DEF LastsOf
    <3> QED
      BY <3>1
  <2>5. ASSUME NEW name, name # ls[n].name PROVE Line(n, name) = Line(n - 1, name)
    <3>1. \A i : i \in LastsOf(ls, name, n) <=> i \in LastsOf(ls, name, n - 1)
      <4>1. ASSUME NEW i \in LastsOf(ls, name, n) PROVE i \in LastsOf(ls, name, n - 1)
        BY <2>5, <4>1 DEF LastsOf
      <4>2. ASSUME NEW i \in LastsOf(ls, name, n - 1) PROVE i \in LastsOf(ls, name, n)
        <5>1. i \in 1 .. n /\ ls[i].name = name
          BY <4>2 DEF LastsOf
        <5>2. ASSUME NEW j \in i + 1 .. n PROVE ls[j].name # name
          BY <2>5, <4>2, <5>1, <5>2 DEF LastsOf
        <5> QED
          BY <5>1, <5>2 DEF LastsOf
      <4> QED
        BY <4>1, <4>2
    <3>2. LastsOf(ls, name, n) = LastsOf(ls, name, n - 1)
      BY <3>1
    <3> QED
      BY <3>2
  <2> HIDE DEF NamesOf, Line, f
  <2> QED
    BY <2>1, <2>3, <2>4, <2>5 DEF Member
<1>3. Reads(f, ls)
  <2>1. f = [n \in Nat |-> f[n]]
    OBVIOUS
  <2> HIDE DEF f
  <2> QED
    BY <1>1, <1>2, <2>1 DEF Reads
<1> QED
  BY <1>3

(* Every solution has the names of the lines, each with its last line.     *)
LEMMA ReadsLast ==
  ASSUME NEW ls, NEW f, Reads(f, ls), NEW n \in Nat
  PROVE  /\ DOMAIN f[n] = {ls[i].name : i \in 1 .. n}
         /\ \A name \in DOMAIN f[n] : \E i \in LastsOf(ls, name, n) : f[n][name] = ls[i]
<1> DEFINE Good(k) ==
             /\ DOMAIN f[k] = {ls[i].name : i \in 1 .. k}
             /\ \A name \in DOMAIN f[k] : \E i \in LastsOf(ls, name, k) : f[k][name] = ls[i]
           Bad == {k \in Nat : ~ Good(k)}
<1>1. SUFFICES ASSUME Bad # {} PROVE FALSE
  OBVIOUS
<1>2. PICK k \in Bad : \A j \in Bad : k <= j
  <2>1. Bad \subseteq Nat
    OBVIOUS
  <2> HIDE DEF Bad
  <2> QED
    BY <1>1, <2>1, LeastOf
<1>3. k # 0
  <2>1. f[0] = [name \in {} |-> <<>>]
    BY DEF Reads
  <2>2. DOMAIN f[0] = {} /\ {ls[i].name : i \in 1 .. 0} = {}
    BY <2>1
  <2> QED
    BY <2>2
<1>4. k \in Nat \ {0} /\ k - 1 \in Nat /\ Good(k - 1)
  <2>1. k \in Nat \ {0} /\ k - 1 \in Nat /\ ~ (k <= k - 1)
    BY <1>3
  <2>2. k - 1 \notin Bad
    BY <1>2, <2>1
  <2> QED
    BY <2>1, <2>2
<1>5. f[k] = Member(f[k - 1], ls[k])
  BY <1>4 DEF Reads
<1>6. 1 .. k = (1 .. k - 1) \cup {k}
  BY <1>4
<1>7. DOMAIN f[k] = DOMAIN f[k - 1] \cup {ls[k].name}
  BY <1>5 DEF Member
<1>8. DOMAIN f[k] = {ls[i].name : i \in 1 .. k}
  BY <1>4, <1>6, <1>7
<1>9. ASSUME NEW name \in DOMAIN f[k]
      PROVE  \E i \in LastsOf(ls, name, k) : f[k][name] = ls[i]
  <2>1. CASE name = ls[k].name
    <3>1. k \in LastsOf(ls, name, k)
      BY <1>4, <2>1 DEF LastsOf
    <3>2. f[k][name] = ls[k]
      BY <1>5, <1>7, <2>1 DEF Member
    <3> QED
      BY <3>1, <3>2
  <2>2. CASE name # ls[k].name
    <3>1. name \in DOMAIN f[k - 1] /\ f[k][name] = f[k - 1][name]
      BY <1>5, <1>7, <2>2 DEF Member
    <3>2. PICK i \in LastsOf(ls, name, k - 1) : f[k - 1][name] = ls[i]
      BY <1>4, <3>1
    <3>3. i \in 1 .. k /\ ls[i].name = name
      BY <1>4 DEF LastsOf
    <3>4. ASSUME NEW j \in i + 1 .. k PROVE ls[j].name # name
      BY <1>4, <2>2, <3>3, <3>4 DEF LastsOf
    <3>5. i \in LastsOf(ls, name, k)
      BY <3>3, <3>4 DEF LastsOf
    <3> QED
      BY <3>1, <3>2, <3>5
  <2> QED
    BY <2>1, <2>2
<1>10. Good(k)
  BY <1>8, <1>9
<1> QED
  BY <1>2, <1>10

LEMMA HeadObjectIsLast ==
  ASSUME Len(lines) \in Nat
  PROVE  /\ DOMAIN HeadObject = {lines[i].name : i \in 1 .. Len(lines)}
         /\ \A name \in DOMAIN HeadObject :
              \E i \in LastsOf(lines, name, Len(lines)) : HeadObject[name] = lines[i]
<1> DEFINE f == CHOOSE g : Reads(g, lines)
<1>1. HeadObject = f[Len(lines)]
  BY DEF HeadObject, Reads
<1>2. Reads(f, lines)
  BY ReadsExists
<1> HIDE DEF f
<1> QED
  BY <1>1, <1>2, ReadsLast

(* Nothing is read before the reply is accepted, and lines and listing are *)
(* those of the reply it is read from.                                     *)
Read ==
  /\ Len(lines) \in Nat
  /\ listing.count \in Nat
  /\ step # "done" => result = NoResult

LEMMA InitRead == RequestInit => Read /\ ResultIsReply
<1> SUFFICES ASSUME RequestInit PROVE Read /\ ResultIsReply
  OBVIOUS
<1>1. step = "setup" /\ lines = <<>> /\ listing.count = 0 /\ result = NoResult
  BY DEF RequestInit, NoListing
<1>2. Len(lines) \in Nat
  BY <1>1
<1>3. result.kind = "none"
  BY <1>1 DEF NoResult
<1> QED
  BY <1>1, <1>2, <1>3 DEF Read, ResultIsReply

LEMMA NextRead ==
  Read /\ ResultIsReply /\ [RequestNext]_<<vars, requestVars>> => Read' /\ ResultIsReply'
<1> SUFFICES ASSUME Read, ResultIsReply, [RequestNext]_<<vars, requestVars>>
             PROVE  Read' /\ ResultIsReply'
  OBVIOUS
<1>1. NoResult.kind = "none"
  BY DEF NoResult
<1>2. CASE SetupThrows \/ SignThrows \/ PerformThrows \/ Refuse
  <2>1. Throw /\ result' = result /\ step # "done"
    BY <1>2 DEF SetupThrows, SignThrows, PerformThrows, Refuse, Judge
  <2>2. step' \in {"setup", "thrown"} /\ lines' = <<>> /\ listing'.count = 0
    BY <2>1 DEF Throw, NoListing
  <2>3. Len(lines') \in Nat /\ result' = NoResult
    BY <2>1, <2>2 DEF Read
  <2>4. step' # "done" /\ result'.kind = "none"
    BY <1>1, <2>2, <2>3
  <2> QED
    BY <2>2, <2>3, <2>4 DEF Read, ResultIsReply
<1>3. CASE Performed
  <2>1. /\ step = "perform" /\ step' = "judge" /\ result' = result
        /\ lines' \in BoundedSeq(Lines, MaxLines) \cup {<<>>}
        /\ listing' \in Listings \cup {NoListing}
    BY <1>3 DEF Performed
  <2>2. Len(lines') \in Nat
    <3>1. CASE lines' = <<>>
      BY <3>1
    <3>2. CASE lines' \in BoundedSeq(Lines, MaxLines)
      <4>1. PICK n \in 0 .. MaxLines : lines' \in [1 .. n -> Lines]
        BY <3>2 DEF BoundedSeq, SeqOf
      <4>2. n \in Nat
        BY <4>1, RequestAssumption
      <4>3. lines' \in Seq(Lines)
        BY <4>1, <4>2, SeqDef
      <4> QED
        BY <4>3, LenProperties
    <3> QED
      BY <2>1, <3>1, <3>2
  <2>3. listing'.count \in Nat
    BY <2>1, RequestAssumption DEF ListingType, NoListing
  <2>4. result' = NoResult /\ result'.kind = "none"
    BY <1>1, <2>1 DEF Read
  <2> QED
    BY <2>1, <2>2, <2>3, <2>4 DEF Read, ResultIsReply
<1>4. CASE ExtractHead
  <2>1. step = "returned" /\ request.qsrt = "HEAD_OBJECT" /\ UNCHANGED <<request, lines, listing>>
    BY <1>4 DEF ExtractHead
  <2>2. CASE ~ Complete(HeadObject)
    <3>1. step' = "thrown" /\ result' = NoResult
      BY <1>4, <2>1, <2>2 DEF ExtractHead, Read
    <3>2. result'.kind = "none"
      BY <1>1, <3>1
    <3> QED
      BY <2>1, <3>1, <3>2 DEF Read, ResultIsReply
  <2>3. CASE Complete(HeadObject)
    <3>1. /\ step' = "done"
          /\ result' = [NoResult EXCEPT !.kind = "head",
                                        !.length = HeadObject["Content-Length"].length]
      BY <1>4, <2>3 DEF ExtractHead
    <3>2. result'.kind = "head" /\ result'.length = HeadObject["Content-Length"].length
      BY <3>1 DEF NoResult
    <3>3. Len(lines) \in Nat
      BY DEF Read
    <3>4. \A name \in Needed : \E i \in 1 .. Len(lines) : lines[i].name = name
      BY <2>3, <3>3, HeadObjectIsLast DEF Complete
    <3>5. PICK i \in LastsOf(lines, "Content-Length", Len(lines)) :
             HeadObject["Content-Length"] = lines[i]
      BY <2>3, <3>3, HeadObjectIsLast DEF Complete, Needed
    <3>6. /\ i \in 1 .. Len(lines) /\ lines[i].name = "Content-Length"
          /\ result'.length = lines[i].length
          /\ \A j \in i + 1 .. Len(lines) : lines[j].name # "Content-Length"
      BY <3>2, <3>5 DEF LastsOf
    <3> QED
      BY <2>1, <3>1, <3>2, <3>4, <3>6 DEF Read, ResultIsReply
  <2> QED
    BY <2>2, <2>3
<1>5. CASE ExtractBuckets
  <2>1. step = "returned" /\ request.qsrt = "LIST_BUCKET" /\ UNCHANGED <<request, lines, listing>>
    BY <1>5 DEF ExtractBuckets
  <2>2. CASE ~ Whole(listing)
    <3>1. step' = "thrown" /\ result' = NoResult
      BY <1>5, <2>1, <2>2 DEF ExtractBuckets, Read
    <3>2. result'.kind = "none"
      BY <1>1, <3>1
    <3> QED
      BY <2>1, <3>1, <3>2 DEF Read, ResultIsReply
  <2>3. CASE Whole(listing)
    <3>1. /\ step' = "done"
          /\ result' = [NoResult EXCEPT !.kind = "buckets",
                                        !.buckets = [i \in 1 .. listing.count |-> i]]
      BY <1>5, <2>3 DEF ExtractBuckets
    <3>2. result'.kind = "buckets" /\ result'.buckets = [i \in 1 .. listing.count |-> i]
      BY <3>1 DEF NoResult
    <3>3. Len(result'.buckets) = listing.count /\ Len(listing.buckets) = listing.count
      BY <2>3, <3>2 DEF Read, Whole
    <3>4. \A i \in 1 .. Len(result'.buckets) :
             BucketFields \subseteq listing.buckets[result'.buckets[i]]
      BY <2>3, <3>2, <3>3 DEF Whole
    <3> QED
      BY <2>1, <3>1, <3>2, <3>3, <3>4 DEF Read, ResultIsReply
  <2> QED
    BY <2>2, <2>3
<1>6. CASE Returned
  <2>1. /\ step = "returned" /\ step' = "done" /\ request.qsrt # "HEAD_OBJECT"
        /\ UNCHANGED <<request, lines, listing, result>>
    BY <1>6 DEF Returned
  <2>2. result.kind = "none"
    BY <1>1, <2>1 DEF Read
  <2> QED
    BY <2>1, <2>2 DEF Read, ResultIsReply
<1>7. CASE \/ Setup \/ Sign \/ (\E n \in 1 .. sizeleft : MemRead(n)) \/ Receive \/ Accept
           \/ RequestEnded \/ UNCHANGED <<vars, requestVars>>
  <2>1. UNCHANGED <<request, lines, listing, result>>
    BY <1>7 DEF Setup, Sign, MemRead, Receive, Accept, RequestEnded, requestVars
  <2>2. step' = step \/ (step # "done" /\ step' # "done")
    BY <1>7 DEF Setup, Sign, MemRead, Receive, Accept, RequestEnded, requestVars, Judge
  <2> QED
    BY <2>1, <2>2 DEF Read, ResultIsReply
<1> QED
  BY <1>2, <1>3, <1>4, <1>5, <1>6, <1>7 DEF RequestNext

(* What headObject and listBuckets return is what the reply of their own   *)
(* request says: the last of its lengths, and every bucket with all its    *)
(* fields, after any number of attempts and for any lines.                 *)
THEOREM RequestResultIsReply == RequestSpec => []ResultIsReply
  BY InitRead, NextRead, PTL DEF RequestSpec

=============================================================================
