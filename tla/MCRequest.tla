----------------------------- MODULE MCRequest ------------------------------
(* Instances of Request for TLC.                                           *)
EXTENDS Request

Made(types, keys, params, bodies) ==
  [qsrt : types, location : {FALSE}, key : keys, params : params, body : bodies]

Texts(n) == BoundedSeq({"a", "/", "?", "#", "%", "bad"}, n) \ {<<>>}
Values(n) == BoundedSeq({"a", "/", "?", "&", "#", "%"}, n) \ {<<>>}

(* What Context and QingStorWriter ask for: all keys where an object is    *)
(* deleted, all values where objects are listed, some elsewhere.           *)
MCRequests ==
  Made(Listing, {<<>>}, {<<>>}, {0})
    \cup [qsrt : {"LIST_BUCKET"}, location : {TRUE}, key : {<<>>}, params : {<<>>}, body : {0}]
    \cup Made({"CREATE_BUCKET", "DELETE_BUCKET"}, {<<>>}, {<<>>}, {0})
    \cup Made({"LIST_OBJECT"}, {<<>>},
              {<<v>> : v \in Values(2)} \cup Values(1) \X Values(1), {0})
    \cup Made({"HEAD_OBJECT"}, {<<"a">>, <<"bad">>}, {<<>>}, {0})
    \cup Made({"DELETE_OBJECT"}, Texts(2) \cup {<<"%", "a", "a">>}, {<<>>}, {0})
    \cup Made({"INIT_MP_UPLOAD"}, Texts(1), {<< <<>> >>}, {0})
    \cup Made({"ABORT_MP_UPLOAD"}, {<<"a">>, <<"a", "?">>}, {<< <<"a">> >>}, {0})
    \cup Made({"COMP_MP_UPLOAD"}, {<<"a">>}, {<< <<"a">> >>}, {1, 2})
    \cup Made({"UPLOAD_MP"}, {<<"a">>}, {<< <<"a">>, <<"a">> >>}, {1, 2})

MCListing(members, count, buckets) == [members |-> members, count |-> count, buckets |-> buckets]

(* Listings that are as they should be, and others.                        *)
MCListings ==
  {MCListing({"count", "buckets"}, n, buckets) :
     n \in 0 .. 2, buckets \in BoundedSeq({BucketFields, BucketFields \ {"url"}}, 2)}
    \cup {MCListing({"count"}, 1, <<>>), MCListing({"buckets"}, 0, <<BucketFields>>)}

MCLine(name, value, length) == [name |-> name, value |-> value, length |-> length]

MCLines ==
  {MCLine("Content-Length", "number", 5), MCLine("Content-Length", "number", 7),
   MCLine("Content-Type", "word", 0), MCLine("Last-Modified", "word", 0),
   MCLine("ETag", "quoted", 0), MCLine("X", "quoted", 0), MCLine("X", "nothing", 0),
   MCLine("X", "empty", 0)}
=============================================================================
