# Formal models of the QingStor C SDK

TLA+ models of the QingStor client library (`src/src/`), checked with TLC on
small instances, and theorems about them proved with TLAPS. Paths such as
`DownloadPipeline.cpp:59` are relative to `src/src/` of the repository.

Contents: [the system](#the-system), [what makes it correct](#what-makes-it-correct),
[the modules](#the-modules), [the runs](#the-runs), [bounds](#bounds),
[fairness](#fairness), [assumptions about what is outside](#assumptions-about-what-is-outside),
[what is proved](#what-is-proved), [findings](#findings),
[other divergences](#other-divergences), [what is not modelled](#what-is-not-modelled),
[plan](#plan).

## The system

The library gives a C program access to an object store: it opens objects for
reading or writing, lists buckets, and makes single requests (create, delete,
head). No thread is started anywhere. The library runs on the thread that
calls it, and libcurl runs, and calls back, only inside the calls the library
makes to it. What interleaves is therefore the transfers inside
one libcurl multi handle, the library with the remote store, and the calls of
the program, which may come from several threads that share a context.

| component | code | state | operations |
|---|---|---|---|
| C interface | `QingStor.cpp`, `qingstor.h` | context and object handles, `errno`, a thread-local error message | `qingstorGetObject`, `PutObject`, `Read`, `Write`, `CancelObject`, `CloseObject`, `ListObjects`, ... |
| Reader | `QingStorReader.cpp` | owns one `DownloadPipeline` | plans the transfers of a range; `transferData` |
| Download pipeline | `DownloadPipeline.cpp` | pending and active `HTTPFetcher`s, a curl multi handle | `add`, `launch`, `read`, the destructor |
| HTTP fetcher | `HTTPFetcher.cpp` | one transfer: state, curl handle, headers, read buffer with two offsets, bytes done, paused flag | `start`, `get`, `handleResult`, `fail`, `done`, `cleanup`, `WriterCallback` |
| Writer | `QingStorWriter.cpp` | upload id, part counter, write buffer, cancelled flag | constructor, `transferData`, `flush`, `close`, `cancel` |
| Request engine | `QingStorCommon.cpp`, `lib/http_parser.c` | per request: the body left to send, the reply buffer, the failures so far; per attempt: URL, headers, what is signed | `DoGetJSON`, `DoGetJSON_Internal`, `Signature`, `qs_parse_url`, `http_parser_parse_url`, `mem_read_callback`, `ParserCallback`, `ParseHttpHeader` |
| Context | `Context.cpp` | per listing: marker, result | `listObjects`, and requests without state |
| Configuration | `Configuration.cpp` | the settings; locals of the file scan | the constructors |
| Exceptions, logging, stack traces, encodings, build, examples | see `PROJECT.json` | none that matters here | |

How they interact: `qingstorGetObject` makes a HEAD request (Context, request
engine), then builds a Reader, which fills the pipeline's pending list.
`qingstorRead` calls `DownloadPipeline::read`, which moves fetchers to the
active list and starts them (`launch`), asks the first active one for bytes
(`get`), and, when there are none, lets libcurl work
(`curl_multi_wait`, `curl_multi_perform`, from where `WriterCallback` fills the
buffers of all active fetchers) and hands completion messages to the fetchers.
`get` itself may call `curl_easy_pause`, which calls `WriterCallback` again.
`qingstorPutObject` starts a multipart upload; `qingstorWrite` sends parts when
the buffer is full; `qingstorCloseObject` sends the rest and completes the
upload. Each of these requests goes through `DoGetJSON`, which tries it up to
`mConnectionRetries` times with the same body object.

### Hard behaviours

- Transfers proceed, pause, fail and finish in any order while their bytes
  must be returned in the order of the chunks.
- A transfer is restarted from the middle of its chunk, with bytes in its
  buffer and others already returned.
- A full buffer pauses a transfer; the refused bytes come back inside
  `curl_easy_pause`, called from `get`.
- Requests of an upload are tried again after attempts that the store may
  already have acted on, and that have consumed part of the body; a failed
  call leaves a full buffer for the next one.
- Cancel, write and close come in any order, each of which may fail.
- Other clients change a bucket between the pages of a listing.
- A call fails at any of its steps: what it owns must be released, what it
  shares kept, and the error reported to the thread that called, and only to
  it.
- Offsets and lengths at the boundaries of a range, a chunk, a buffer.
- Names are put into URLs as they are, which two parsers then take apart: one
  for the signature, libcurl's for the wire.

`PROJECT.json` lists these as hazards, each at its line.

## What makes it correct

- *Reader*: the transfers asked for tile the requested range: no gap, no
  overlap, none empty, each fitting its buffer.
- *Pipeline and fetchers*: what `qingstorRead` returns is the range, in order;
  end of file is reported when, and only when, all of it has been returned;
  every call returns; the code's "impossible" errors are impossible.
- *Writer*: the object appears at its close, all at once, with the
  bytes that were written, and not if it was cancelled.
- *Request engine*: every request ends; it is about the object and the
  parameters the caller named; it is announced and signed as libcurl
  sends it, in every attempt; the reply is parsed as it was sent and released
  on every way out; what is read from it is what it says.
- *Listing*: no key twice, none missed that was there all the time; it ends.
- *Configuration*: a file in the documented form is accepted.
- *C interface*: every stream belongs to a handle the program can close, and is
  used as what it is; the configuration outlives its last user; replies are
  released once; a thread finds the error of its own last failure.

## The modules

| module | models | state and actions in the code |
|---|---|---|
| `ChunkPlan` | the closed form of the plan | reference definition for the loop |
| `QingStorReader` | `qingstorGetObject`, `QingStorReader::setupPipeline` | one action per phase; `AddChunk` is one turn of the do-while loop with its closing test; `ToInt` is the conversion of `int64_t` to `int` at `HTTPFetcher`'s constructor |
| `HTTPFetcher` | `class HTTPFetcher` | a fetcher is a record with the class's fields; each method is an operator from record to record |
| `CurlMulti` | libcurl's multi handle and the server (external) | one record per transfer |
| `DownloadPipeline` | `DownloadPipeline` composed with both | `pc` is the place in `read()`; one action per step of its loop and of libcurl |
| `ByteStream` | what a reader promises | abstract specification, refined by `DownloadPipeline` |
| `MultipartServer` | the store's multipart interface (external) | upload, parts, object |
| `QingStorWriter` | `QingStorWriter` and the retry loop of `DoGetJSON` | `pc`, `api`, `op` say which call makes which request; an `Attempt` is one `DoGetJSON_Internal` |
| `ObjectUpload` | what a writer promises | abstract specification, refined by `QingStorWriter` |
| `ListObjects` | `Context::listObjects`, `extractListObjectContent` | `GetPage` is one turn of the loop, the `qsort` included; `Asked` is the marker as the store reads it; `Create` and `Delete` are other clients |
| `ResponseBuffer` | `ParserCallback` and the end of `DoGetJSON_Internal` | `Grow` is one turn of its while loop |
| `UrlParser` | `http_parser_parse_url`, `extract_field` | `Transitions` is the automaton of `parse_url_char`; `Turn` is one turn of the loop over the characters |
| `Request` | `DoGetJSON` with `DoGetJSON_Internal`, `Signature`, `qs_parse_url`, `ParseHttpHeader`, the URLs of the callers, and what `headObject` and `listBuckets` read from the reply; extends `ResponseBuffer` and `UrlParser` | `step` is the place in `DoGetJSON_Internal`: `setup` its options and address, `sign` the URL and `Signature`, `perform` inside `curl_easy_perform`, `judge` its tests of the reply, `returned` the caller's reading of it |
| `Configuration` | the constructor that reads a file | one action per kind of token |
| `Exceptions` | the exception classes, `throw e`, `handleException` | an exception is its class and the class its text names |
| `CInterface` | `QingStor.cpp`, the handlers of `Context.cpp` and `QingStorWriter.cpp` | `thread[t].pc` is the place in a call: `request` in `DoGetJSON`, `extract` reading a reply, `catch` in a handler marked "always cleanup", `unwind` in a handler of the C function, `stream` in a method of reader or writer; `failure` notes, for the properties, the cause of each failure that is reported, whether a handler throws it again, and whether a later failure went unreported |
| `MC...` | instances for TLC | |
| `..._proofs` | theorems and their proofs: the plan, the pipeline with its fetchers, the reading of URLs, the request with its reply buffer, the writer, the listing, the configuration, the C interface | |

Bytes are modelled by their position (in the object, in the stream written, in
the reply), so that a byte in a wrong place is a wrong value. Buffers keep
their offsets and their memory, since the arithmetic on them is what can go
wrong. The lists of the pipeline are queues: transfers are numbered as planned,
the active ones are always `front .. next - 1` and the pending ones
`next .. NumFetchers`.

Definitions introduced by "Seeded fault" are plausible bugs in the definition
that follows them; nothing uses them. Each property is known to fail when
one of them takes that definition's place (`PROJECT.json`, "mutants").

## The runs

| run | question | result |
|---|---|---|
| `reader_plan` | Do the transfers planned tile the range, for all small objects, ranges, chunk sizes and one or several connections, objects longer than an `int` included? | holds |
| `dl_safe` | With chunks larger than their buffers, two connections and two failures of any kind at any moment: is what the reads return the range in order? | holds, and refines `ByteStream` |
| `dl_live` | Does every read return, and does a caller that reads on reach the end? | holds |
| `up_once` | One attempt per request, each of which may fail before or after the store acted: do parts, buffer and completed object agree? | holds, and refines `ObjectUpload` |
| `up_any` | Two attempts per request and all failures: does every call return, are the bytes of successful writes taken in order? | holds |
| `list` | Is a listing complete, without repetition, and finite while the bucket changes? | holds |
| `request` | Every type of request, two attempts that fail anywhere: is it signed and announced as it is sent, whatever its names; is it about what plain names say; is the parser given the reply that came, is the reply released, is the result what the reply says? | holds |
| `capi` | Two threads, calls of all kinds, each failing at any of its steps: who owns what, and who finds which error? | holds |
| `capi_errno` | Does a call that fails set `errno` to what made it fail? | violated, finding 1 |
| `dl_errorbody` | Is no byte of an error reply returned as data? | violated, finding 2 |
| `up_truncated` | Does a close that succeeds leave the bytes taken in the store, with retries? | violated, finding 3 |
| `config_rejected` | Is a file like the README's accepted? | violated, finding 4 |

`dl_safe` and `up_once` are without fairness: they are about safety. In
`up_once` a part is tried once, because with more attempts finding 3 breaks
its properties; the failures themselves, and the program calling
again after them, are all there.

## Bounds

Small constants keep the relations between the real ones; nothing in the code
depends on their magnitude except the width of an `int`.

- *Reader*: objects of 0 to 7 bytes, range arguments -1 to 8 (so that the
  range may be empty, whole, inside, across and past the end), chunks of 1, 2,
  3, 5 and 6 bytes (dividing the range or not, longer than it, above the buffer
  limit `MaxChunkBuffer = 3`, which stands for 128 MB). `IntMax = 5`, so that
  objects of 6 and 7 bytes are longer than an `int` and are read in ordinary
  chunks; where a single transfer would be longer than an `int`, as with the
  chunk of 6, `LengthsFit` leaves the case out ("Other divergences"). Several
  connections are 3 in the code, and always 3: `Configuration.cpp:67` sets them,
  and no file is accepted that could set others. One connection is kept
  because `QingStorReader.cpp:87-91` has a branch for it.
- *Pipeline*: `dl_safe` reads 9 bytes from position 1 of an object of 11, in
  chunks of 4, 4 and 1 bytes over two connections, so that there is a first, a
  middle and a last transfer, a pending one while two are active, a short one,
  and one that starts at neither end of the object. A chunk (4) is longer
  than a buffer (3), and a buffer longer than libcurl's largest piece (2), as
  when chunks are above 128 MB: transfers pause, and the pieces held back are
  delivered by `get`. Reads of 1 and 3 bytes leave
  every amount in a buffer. Two failures (`MaxFaults`) allow one to hit the
  retry of another. The states are 623573.
- An empty object (`RangeSize = 0`, `ObjectSize = 0`: one transfer with the
  range "0--1") is not among the runs; that instance has 200 states, and the
  properties of `dl_safe` hold in it.
- `dl_live` has six bytes in two chunks, for the larger cost of liveness,
  and the failures the code recovers from.
- *Writer*: a buffer of 2 bytes, writes of 1 and 3 (less than, and more than a
  buffer; a write may send a part and leave a rest), up to 5 bytes in all: two
  full parts and a rest, or a part number used again after a failure.
  `MaxCancels` bounds calls that could otherwise go on for ever.
- *Listing*: five keys, pages of two, three changes: enough to delete a
  marker, to push a key over a page's edge in both directions, and to have an
  empty last page.
- *Request*: the 11 types that go through `DoGetJSON`. Only ten characters are
  told apart (`UrlParser!Chars`), each class by one that stands for it: an
  ordinary one, those with a meaning in a URL, and those that are refused. Keys
  of one and two characters, and of an escape sequence, where an object is
  deleted; one and two values of parameters where objects are listed, so that a
  separator of either kind may stand next to any character; some elsewhere. Two
  attempts, so that the second finds a body the first has half sent; bodies of
  1 and 2 bytes. The reply buffer starts with 2 bytes and doubles up to four
  times; pieces of 0, 1, 3 and 9 bytes fill it exactly, by one less, and need
  several doublings at once. The headers of a HEAD are up to four lines of
  eight: the three that are needed, a second length, one with an empty value, and
  lines that break the JSON. A listing of buckets has up to two, a count that may be another number,
  and fields or members that may be missing. The states are 645354.
- *Configuration*: files of one or two entries of three keys.
- *C interface*: two threads, so that one fails while the other finds out why;
  two objects, so that the last user of the configuration may be any of three;
  one function with and one without a reply, a listing of up to two pages, of
  which the second fails with the first one put. Of the exceptions one of each
  fate: thrown again as its base (`InvalidParameter`), as it was
  (`QingStorNetworkException` from a read), not caught on the way
  (`bad_alloc`). The states are 1483144, up to the names of threads and handles.
  `capi_errno` needs one thread and one handle.

## Fairness

- `DownloadPipeline!FairSpec`: weak fairness on the thread's own steps (it runs
  on once `qingstorRead` is called), strong fairness on `Network`: a transfer
  that can proceed does so some time. Strong, because `curl_multi_wait` gives
  up after a second and `Network` is disabled between two calls of it; the
  code calls it again and again. `EagerSpec` adds a program that reads on:
  without it nothing obliges a call, and `DownloadCompletes` says nothing.
- `QingStorWriter!FairSpec`, `ListObjects!FairSpec`: a call that runs goes on.
  Failures have no fairness: none is owed.

That an attempt ends, one way or the other, is an assumption about the network
and the store. The code does not see to it: neither `DoGetJSON_Internal`
(`QingStorCommon.cpp:266-330`) nor `HTTPFetcher::start`
(`HTTPFetcher.cpp:131-137`) gives libcurl a time limit for a transfer, so that
a store that accepts a connection and then says nothing holds a call for ever.
What the liveness properties show is that nothing in the library itself makes
a call endless, provided each attempt is answered or breaks.

## Assumptions about what is outside

`CurlMulti` and `MultipartServer`, and the token list in `Configuration`,
model code that is not in the repository, from how it is used:

- a body has a Content-Length, so that a transfer that has all its bytes ends
  well and one that breaks has not;
- a paused transfer is not read from; a callback that answered
  `CURL_WRITEFUNC_PAUSE` gets the same bytes again when it is unpaused;
- the server ignores a malformed Range header and refuses one that begins past
  the end (RFC 7233); of several Range headers it takes the last
  (`HonouredRange`, see below);
- the object being read does not change;
- libcurl sends what stands before the `#` of a URL; the store takes the path
  for the key and the rest at its `&` and `=`, and decodes `%` with two digits.
  No path has a segment of dots, which libcurl would remove and the signature
  keep; buckets have names that are host names;
- the store keeps the last part sent under a number, completes an upload only
  from parts it has, and lists keys in the order of `strcmp`.

## What is proved

The theorems hold for all values of the constants that satisfy the
assumptions of the modules (`ReaderAssumption`, `PipelineAssumption`, ...).

**The plan** (`QingStorReader_proofs`), for objects, ranges and chunks of any
size: `PlanTilesRange`, `PlanChunksFit`, `PlanClosedForm`, `PlanTypeOK`. Objects
and offsets above an `int` are no exception. What an `int` has to hold is the
length of a transfer, and the first three properties say so by their antecedent
`LengthsFit`: the chunk size, or, with a single connection, the range. The
invariant adds to the properties that the offset of the loop stays inside the
range (`LoopOk`), and what each transfer added so far satisfies
(`TransferOk`).
`PlanClosedForm` shows that the loop computes the formulas of `ChunkPlan`: its
invariant `Closed` gives every transfer the place and length of the closed
form and the offset that of the next one; that their number is the rounded-up
quotient rests on two lemmas about multiplication (`TimesMonotonic`,
`QuotientIs`).

**The download side** (`DownloadPipeline_proofs`), assuming `GoodServer`: the
last Range header counts, an error reply has no body, and the range lies in
the object. For any plan, any number of connections, any buffer and
read sizes and any number and kind of failures, the reads return the range in
order (`PipelineDeliversInOrder`), the end of file is complete
(`PipelineEofIsComplete`), no internal error is reported
(`PipelineNoInternalError`), a paused transfer can be unpaused
(`PipelinePausedIsLive`) and finds room for what was held back (`PipelineRetriesOnce`), a reply goes
on where the buffer stops (`PipelineTransferAligned`), the buffer's offsets
stay inside it (`PipelineTypeOK`), and the whole refines `ByteStream`
(`PipelineIsByteStream`).

None of these is inductive. The argument is local to a transfer: `LocalInv`
says that the unread bytes of its buffer are those that follow the bytes
done (`BufferOk`), which states allow which transfer (`StateOk`: a failed
fetcher is short of bytes, a done one has them all, a transfer in progress
means RUNNING), and that the request or the reply in progress goes on where
the buffer stops and ends where the range does (`TransferOk`). One lemma per
method of `HTTPFetcher` shows that it keeps `LocalInv`; `ActiveUpdateOk` lifts
this to the pipeline, whatever the other transfers are doing. The pipeline's
own part is `ListsOk` (transfers before `front` are used up, those after
it untouched by `get`) and `DeliveredOk` (the number of bytes returned is the position of the
first transfer in the range, `Position`). `GoodServer` is used in one place,
`AnswerOk`: what the server sends is what the fetcher is short of. TLC
checked the invariant on the instance of `dl_safe` before it was proved.

**A request and its reply** (`Request_proofs`). The reply's buffer by itself:
`BufferTypeOK`, `BufferRoomForNul`, `BufferTextIsReply`, from the invariant that
the memory below `position` holds the reply so far and that `position` is inside
it. `RequestImplementsBuffer` says that a call of `DoGetJSON`, over all its
attempts, is a behaviour of `ResponseBuffer`, so that these theorems hold for it
(`RequestTextIsReply`); `RequestReplyReleased` needs no strengthening, because
every way out of an attempt passes through `Throw` or `Accept`.
`RequestBodyAnnounced` and `RequestSignedKind` come from the invariant `Made`: an
attempt that performs has one Content-Length, or none, where the type of its
request says so, and its value is `sent + sizeleft`, a sum that
`mem_read_callback` leaves alone; likewise its Content-Type and the type that was
signed. The first attempt and the later ones differ only in the value of
`sizeleft` at which they start. `RequestResultIsReply` needs, besides that
nothing is read before a reply is accepted (`Read`), that the JSON object made
of the headers has the last line of every name (`HeadObjectIsLast`).

**The URL of a request** (`Url_proofs`, and the end of `Request_proofs`), for keys
and parameters of any length, made of any characters, and any number of
parameters. Three programs read the same URL, and each reads it in its own way:

- `http_parser`, character by character. `ParserAt` is the invariant of its loop:
  from the slash behind the host on, the automaton is in the path until the
  first `?` or `#`, in the query from a `?` until the first `#`, then in the
  fragment, and what it has marked are exactly these stretches (`Marked`); a
  character it refuses leaves it dead. It says what the automaton does on every
  URL that begins as the library's do, those with a `?` in a key or a `#` in a
  parameter included.
- libcurl, which cuts at the first `#` and then at the first `?`. `TargetsAgree`:
  on every such URL that the parser accepts, both find the same path and query.
- the store, which separates the parameters and decodes. `PlainNamesRead`: when
  the names are plain, `Decoded` leaves each alone and `Split` takes apart at
  the separators that `QueryText` has put there, no more and no fewer.

`EscapedFits` is about the loop that writes out the slashes of a query: it fills
the buffer measured before, to the last byte, and a character that stands
behind m slashes is 2m places further on. `RequestSignedIsSent` puts
`TargetsAgree`, `EscapedFits` and `RequestSignedKind` together, by the invariant
`Directed` (what is signed was computed from the URL that libcurl has);
`RequestAddressed` is `PlainNamesRead` and that a plain URL is accepted. Both
hold in every attempt. `TargetsAgree` needs no plain names: a key with a `?` is
signed as it is sent, and asks for another object ("Other divergences").
`RequestAssumption` says that a listing of buckets names no key, as
`Context::listBuckets` (`Context.cpp:62`) has it: the path signed for it is
always empty.

**The writer** (`QingStorWriter_proofs`), for any size of the buffer, any writes,
any number of attempts and any failures: `WriterTypeOK` and
`WriterAcceptedKept`, without a hypothesis, from the invariant `FInv`: the
argument of the current write is the last stretch of the bytes given, of which
`buffPos` are taken, and the bytes taken ascend. What the store has
(`WriterPartsHeld`, `WriterClosedIsStored`) and the refinement of `ObjectUpload`
(`WriterImplementsUpload`) need two hypotheses:

- `WholeBodies`: one attempt per request, or only attempts that fail before any
  of the body is sent. Without it `up_truncated` shows the properties violated
  (finding 3);
- `RefusalsExplained`: no refusal has an empty body, which the code takes for
  success ("Other divergences").

Both have states to speak of: they hold in the instance of `up_once`, with
every failure before and after the store acts. The invariant `UInv` adds what
no property states: which request a call is at (`Serving`), that the attempt
carries the whole body (`Whole`), and what a success that has not been looked
at yet says of the store (`Acknowledged`), so that parts, buffer and counter
agree again when the reply is read. TLC checked it on `up_once` and on
instances with retries before it was proved.

`WriterObjectIsSelection` is what remains without `WholeBodies`, for any number
of attempts: the object has no byte that was not taken, none twice, and none out
of order. So finding 3 can leave bytes out of an object and do no other harm:
a part stored by an attempt whose answer was lost, and stored again by the next
one with what is left of its body, neither doubles bytes nor brings in those of
another part. Its invariant `RInv` says that the parts counted, with the buffer
behind them, ascend and are bytes taken (`Kept`), and that a part on its way goes
on after them (`Follows`), which it does whatever part of its beginning is
missing (`EndOf`). TLC checked it on the instance of `up_any`, up to 5 bytes and
without "errorempty". With "errorempty" it fails: a part that was
never stored is counted, and the one an earlier failed write has left under its
number is taken for it.

**A listing** (`ListObjects_proofs`), for any bucket, any size of a page and
any changes by others. `ListStableListed` has no hypothesis: what was there
all the time is listed even if the store reads less of a marker than was
sent, since a smaller marker only makes it repeat. Its invariant is `Covered`: every
such key up to the marker is in the result. `ListListedOnce`,
`ListSortMovesNothing` and `ListTypeOK` assume `MarkersWhole`, which says that the
store reads every marker whole; keys with a `#` break it, and then `ListedOnce`
("Other divergences"). Under it, each page begins behind the last key listed.

**The C interface** (`CInterface_proofs`), for any number of threads and handles:
`InterfaceCastsMatch`, `InterfaceNoStreamLost`, `InterfaceConfigurationShared`,
`InterfaceErrorIsOwn`, `InterfaceTypeOK`. The invariant says for each thread what
its call may hold at each place of it (`CallOK`, `ReplyOK`), that no two threads
use the same handle (`Alone`, which the model asks of the program), for each handle
what its pointer is worth (`ObjectOK`), that the owners of the configuration
are the context and the streams (`Owned`), and how the exception in flight
goes with the failure that was noted (`Told`): which class its handler will find,
and so which errno, exactly. `InterfaceErrorIsOwn` therefore says of every
failure that is reported which of the two values, that of the cause or
`EINTERNAL`, the thread finds. The cancel of a reader is a failure that reports
nothing; `CancelReader` is its step, and the property is about the failures
before it. `InterfaceRepliesPut` assumes
`ForeignFaults = {}`, that only the library's own exceptions are thrown while a
reply is read; `InterfaceRepliesPutUnlessForeign` says what is left without it.
`ErrnoIsClosest` is about the code alone: the eleven handlers of
`handleException`, tried in order, choose for every class the closest one.

**The configuration** (`Configuration_proofs`): `ConfigurationAcceptsNoFile`,
finding 4 for every file and not only for the two of the run: no file is
accepted, and the code behind the check of the credentials is never reached by
one. The invariant says that every value in the map is empty, since the only
insertion is that of a key's scalar.

*Recursion.* The library's induction theorems take an operator as a parameter, which none of
the provers used here can instantiate. The few inductions these proofs need are made
by hand, from the well-foundedness of `<` on the naturals: a set of
counterexamples has a least one (`LeastOf`), and that one is refuted; `Induction`
in `Url_proofs` packs this for a set of numbers up to a bound. That a recursive function
of the model has the values its equation says is shown by exhibiting a solution
(`AssembledParts` for the object a store assembles, `ReadsExists` for
`HeadObject`, `ParsesExists`, `JoinsExists`, `SplitsExists`, `EscapesExists` for
the functions over the characters of a URL). After that the functions are known by
their equations.

Only model-checked are the liveness properties (`ReadReturns`,
`DownloadCompletes`, `CallReturns`, `ListReturns`): whatever depends on fairness is
beyond the prover. Every invariant, action property and refinement of the
passing runs is a theorem.

## Findings

1. `capi_errno`: `ErrnoOfCause` is what `qingstor.h:32` says, "All APIs set errno
   to meaningful values". `throw e` (`QingStorCommon.cpp:436`, `Context.cpp:202`,
   `QingStorWriter.cpp:194`, ...) copies the base class of what was caught, so that
   a broken connection, a refused permission and a bad key all give `EINTERNAL`;
   only the text tells them apart. The run finds a listing whose request breaks.
   The property has a second way to fail, `{"listObjects"}` for `Calls` and no
   faults at all: `qingstorCancelObject` of a reader returns -1
   (`QingStor.cpp:524-526`) and leaves `errno` and the text as they were, while
   `qingstor.h:194-195` has "Return true on success, false on error. On error,
   errno will be set appropriately." (For success it returns 0, which is "false".)
2. `dl_errorbody`: `WriterCallback` stores whatever body arrives, and the
   status is looked at only at the end (`HTTPFetcher.cpp:71,315`): the text of
   an error reply is returned as object data, and counted as received.
3. `up_truncated`: `DoGetJSON` repeats a request with the `MemoryData` its
   failed attempt has advanced (`QingStorCommon.cpp:231`): a part is stored
   without its beginning, and write and close succeed.
4. `config_rejected`: the scalar of a key clears `token_key`
   (`Configuration.cpp:151-152`), so that the scalar of its value is refused
   (`:132`): no file with a value is accepted, that of the README included.

## Other divergences

Questions that a change of a constant asks of the models, with the answer
observed; they are not among the runs.

- `HonouredRange = "first"`, with a "net" fault: `DeliveredInOrder` is
  violated. `mHeaders` is never cleared (`HTTPFetcher.cpp:162`), and a restart
  sends the Range headers of all starts; with a server that takes the first,
  bytes are repeated.
- `FaultsForever = TRUE` with "http": `ReadReturns` is violated. A failed
  fetcher is restarted without limit (`DownloadPipeline.cpp:111-115`);
  `mNFailures` counts and is never read. The same loop is entered by a range
  that ends past the object's end, once its last transfer starts there.
- `Faults = {"nohandle"}`: `ReadReturns` is violated. `launch` puts a
  fetcher on the active list before it starts it (`DownloadPipeline.cpp:59`);
  if `start` throws, the fetcher stays there in FETCHER_INIT, and nobody
  starts it again.
- `Faults = {"errorempty"}` in `QingStorWriter`: `PartsHeld` is violated. The
  status of a reply is not looked at, an empty body is success
  (`QingStorCommon.cpp:397`).
- Keys, prefixes and markers are put into URLs as they are (`Context.cpp:124`,
  `:142`, `:391`, `:526`, `QingStorWriter.cpp:42`, `:208`, `:254`, `:280`).
  Without `PlainNames`, `Addressed` is violated: a key with a `?` or a `#`
  addresses the object whose key is what stands before it, one with a `%41` that
  with an `A`; a prefix with a `#` or `&` selects another part of the bucket. A
  name with a blank or a byte beyond ASCII never gets that far: the vendored
  `http_parser` is strict, and the request is refused (`QingStorCommon.cpp:477`).
- `MarkerRead[k] < k` in `ListObjects`, for a key `k` with a `#`: `ListedOnce` is
  violated. The store reads the part before the `#`, and gives keys again that
  were listed; if it is small enough, the same page comes for ever, and the
  result grows without a bound.
- A write after a successful cancel is not refused: cached, it returns its
  length while there is room (`QingStorWriter.cpp:60`), and the close succeeds.
  In `ObjectUpload` a cancelled object therefore still takes bytes.
- `NoWildCleanup` is violated in `MCDownloadPipeline`: the constructor of
  `HTTPFetcher` does not set `mCurl`, which the destructor tests and releases
  (`HTTPFetcher.cpp:211`), for fetchers that were never started.
- Without `LengthsFit`, `ChunksTileRange` is violated: by a chunk of 6 where an
  `int` ends at 5. The chunk size of `qingstorInitContext` is an `int64_t` that nothing
  checks (`QingStor.cpp:203`, `Configuration.cpp:56-61`), and a fetcher keeps the
  length of its chunk in an `int` (`HTTPFetcher.h:99`). Such a length turns
  negative, or, from 4 GB on, too small. With a negative one the transfer at
  offset 0 sends no Range header (`HTTPFetcher.cpp:140`) and one that starts behind
  it "bytes=n-" (`:160`): either gets the object to its end, and so the bytes of the
  chunks that follow come twice.
- `ForeignFaults = {"bad_alloc"}`: `RepliesPut` is violated. The handlers that put a reply
  catch only `QingStorException`, and a string made from a reply may throw
  something else.
- `listObjects` puts `resp_body` a second time when a later request throws
  (`Context.cpp:195`): the pointer is not cleared after the first put.
  `Cleanup` has it, with a crash as a possible outcome; so has
  `InitContextThrows`, where `QingStor.cpp:220` and `:242` delete a pointer that
  was never assigned.
- The reply that starts an upload is never put (`QingStorWriter.cpp:98-124`),
  and the wrapper of an object that could not be opened is never deleted
  (`QingStor.cpp:406,440`; state "lost").
- An attempt that fails releases its reply and nothing else: the handle of
  libcurl, the `HeaderContent` and the list of headers are released at
  `QingStorCommon.cpp:421-423`, which `THROW` skips. `held` is empty in
  `ReplyReleased` only for attempts that succeed.
- The request that starts an upload announces a body of 0 bytes
  (`QingStorCommon.cpp:55`) and has one of 7, the word "uploads" (`:287`).
  `BodyAnnounced` leaves it out.
- A header line that ends behind its colon, an `ETag` or a `Content-Length` with an
  empty value, or a quote in the value of another line, such
  as `Content-Disposition: attachment; filename="x"`, makes a HEAD fail
  (`QingStorCommon.cpp:564` and `:574`), and with it `qingstorGetObject`:
  `WellFormed` has it, and `ResultIsReply` is about the HEADs that succeed. The
  status of a HEAD is not looked at; a refusal is recognised by a missing
  Last-Modified.
- With no bucket, what `DoGetJSON_Internal` writes to its stream behind the
  NULL pointer is lost (`QingStorCommon.cpp:352`): the resource that is signed
  for `listBuckets` is "/" because of that.
- The memmove of `WriterCallback` (`HTTPFetcher.cpp:53-62`) is never executed:
  `read` waits only when the buffer it reads from is empty, and the others
  have not been read from. `NothingToShift` checks this, and is proved.
- `qingstorListBuckets` and `qingstorHeadObject` do not look at what `malloc`
  returns; `qingstorListObjects` does, and after an error returns the structure
  it has begun, not NULL. The `etag` of a `qingstorHeadObjectResult` is always
  empty: `extractHeadObjectContent` does not look for it
  (`Context.cpp:550-587`).
- A chunk size of 0 makes the loop of `setupPipeline` endless
  (`QingStorReader.cpp:133`); nothing checks the argument of
  `qingstorInitContext`. `ReaderAssumption` excludes it.

## What is not modelled

- The hash of a signature and the encodings (strings, no state); logging and
  stack traces, which only format text.
- A `bad_alloc` in the middle of a request's attempt, or of the start of a transfer
  once its handle exists: the only exception left there, as the URL that is parsed and
  signed is the one the HEAD was sent to. A memory that was damaged, beyond the end of
  the program as a possible outcome: a second put or delete of the same pointer has no
  other effect in the models, and no property can tell it from the first.
- The host of a URL: `http_parse_host` is taken to accept it.
- The C structures results are copied into; the contents of a transfer's headers
  other than Range; uploads left behind in the store.
- The settings of a configuration file other than the credentials
  (`Configuration.cpp:194-301`): no file gets to them
  (`ConfigurationAcceptsNoFile`).
- A store whose object changes while it is read. No request carries a
  condition, so there is nothing in the code such a model would exercise.
- What is in the repository and not of the library: the vendored gtest and
  gmock (four fifths of the repository's lines, tests and data aside), the rest of `http_parser.c`
  (a parser of HTTP messages that nothing calls), the examples. Of the library's
  own code the models cover the reader, the writer, the requests, the listings,
  the C interface and what they rest on; `StackPrinter.cpp`, a reader of ELF
  files for the text of exceptions, is the largest part left out.

`PROJECT.json` gives the reason for each component.

## Plan

1. Done: reader, fetcher and pipeline with `ByteStream`; writer with
   `ObjectUpload`; listing, requests with their URLs and reply buffer,
   configuration, C interface; a theorem for every invariant and action property
   of the passing runs, and both refinements.
2. Next modules: the composition of `Request` with the multipart store.
3. Next proofs: that a close after retries leaves out only beginnings of parts
   whose first attempts failed, beyond `WriterObjectIsSelection`; and the two
   instances of one argument in `Request` and `QingStorWriter`, what attempts
   leave of a body, made one lemma when the modules are composed.
