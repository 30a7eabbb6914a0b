----------------------------- MODULE ListObjects -----------------------------
(***************************************************************************)
(* Context::listObjects: the pages of a bucket's listing are requested one *)
(* after the other, each from the last key of the page before, until one   *)
(* is short.  Between two requests other clients of the store create and   *)
(* delete objects.                                                         *)
(*                                                                         *)
(* Keys are numbers in the order of strcmp, which is also taken to be the  *)
(* order in which the store lists them.  Only the keys the prefix selects  *)
(* are counted.                                                            *)
(***************************************************************************)
EXTENDS Integers, Sequences, FiniteSets, SequencesExt

CONSTANTS
  Keys,        \* keys that exist at some time or other
  Limit,       \* keys in a page; the store says so in the page's "limit"
  MaxChanges,  \* bound of the model: creations and deletions in all
  MarkerRead   \* what the store reads of a key that is put in an URL as it is

ASSUME ListAssumption ==
  /\ Keys \subseteq Nat \ {0}
  /\ IsFiniteSet(Keys)
  /\ Limit \in Nat \ {0}
  /\ MaxChanges \in Nat
  /\ MarkerRead \in [Keys -> Nat]
  /\ \A k \in Keys : MarkerRead[k] <= k

VARIABLES
  bucket,   \* keys in the store
  changes,  \* creations and deletions so far
  pc,       \* "idle", "list", "done" or "error"
  marker,   \* current_marker; 0 is the empty string
  objects,  \* result->objects
  stable    \* keys that have been in the store since the call began

vars == <<bucket, changes, pc, marker, objects, stable>>

Init ==
  /\ bucket \in SUBSET Keys
  /\ changes = 0
  /\ pc = "idle"
  /\ marker = 0
  /\ objects = <<>>
  /\ stable = {}

-----------------------------------------------------------------------------

(* Other clients.                                                          *)
Create(k) ==
  /\ k \notin bucket /\ changes < MaxChanges
  /\ bucket' = bucket \cup {k}
  /\ changes' = changes + 1
  /\ UNCHANGED <<pc, marker, objects, stable>>

Delete(k) ==
  /\ k \in bucket /\ changes < MaxChanges
  /\ bucket' = bucket \ {k}
  /\ stable' = stable \ {k}
  /\ changes' = changes + 1
  /\ UNCHANGED <<pc, marker, objects>>

-----------------------------------------------------------------------------

(* The keys of a set, each at the place that those below it leave it.      *)
Ascending(S) ==
  [i \in 1 .. Cardinality(S) |-> CHOOSE k \in S : Cardinality({j \in S : j < k}) = i - 1]

(* The store's answer: the first Limit keys past the marker (external).    *)
After(m) == Ascending({k \in bucket : k > m})
Page(m) == SubSeq(After(m), 1, IF Len(After(m)) < Limit THEN Len(After(m)) ELSE Limit)

Call ==
  /\ pc = "idle"
  /\ pc' = "list"
  /\ stable' = bucket
  /\ UNCHANGED <<bucket, changes, marker, objects>>

(* The marker of the URL: the last key as it is, of which the store reads  *)
(* the whole, or less if it has a '#'.                                     *)
Asked == IF marker = 0 THEN 0 ELSE MarkerRead[marker]

(* Seeded faults: no page is the last one; a full page is.                 *)
EofNever(page) == FALSE
EofFull(page) == Len(page) <= Limit

(* extractListObjectContent: the end is an empty or a short page.          *)
Eof(page) == Len(page) = 0 \/ Len(page) < Limit

(* Seeded faults: the marker becomes the page's first key; it is not moved.*)
NextMarkerFirst(page) == IF page = <<>> THEN marker ELSE page[1]
NextMarkerStays(page) == marker

(* extractListObjectContent: the marker becomes the page's last key.       *)
NextMarker(page) == IF page = <<>> THEN marker ELSE page[Len(page)]

(* What the qsort at its end makes of the result, by strcmp: at each place *)
(* the key that has fewer below it, and enough that are not above it.      *)
Sorted(s) ==
  [i \in DOMAIN s |->
     CHOOSE k \in ToSet(s) : /\ Cardinality({j \in DOMAIN s : s[j] < k}) < i
                             /\ Cardinality({j \in DOMAIN s : s[j] <= k}) >= i]

(* One turn of the loop that gets a page.                                  *)
GetPage ==
  /\ pc = "list"
  /\ LET page == Page(Asked) IN
       /\ objects' = Sorted(objects \o page)
       /\ marker' = NextMarker(page)
       /\ pc' = IF Eof(page) THEN "done" ELSE "list"
  /\ UNCHANGED <<bucket, changes, stable>>

(* A turn that does not: DoGetJSON throws, all its attempts having failed, *)
(* or the reply is the description of an error instead of a page.          *)
RequestFails ==
  /\ pc = "list"
  /\ pc' = "error"
  /\ UNCHANGED <<bucket, changes, marker, objects, stable>>

Returned ==
  /\ pc \in {"done", "error"}
  /\ UNCHANGED vars

Next ==
  \/ \E k \in Keys : Create(k) \/ Delete(k)
  \/ Call
  \/ GetPage \/ RequestFails
  \/ Returned

Spec == Init /\ [][Next]_vars

(* The loop runs on; that it fails is possible at any time, but not owed.  *)
FairSpec == Spec /\ WF_vars(GetPage)

-----------------------------------------------------------------------------

(* Types; the marker is the last key of the result.                        *)
TypeOK ==
  /\ bucket \subseteq Keys
  /\ changes \in 0 .. MaxChanges
  /\ pc \in {"idle", "list", "done", "error"}
  /\ objects \in Seq(Keys)
  /\ marker = IF objects = <<>> THEN 0 ELSE objects[Len(objects)]
  /\ stable \subseteq bucket

(* No key is listed twice, and the result is in order, although objects    *)
(* come and go between the pages.                                          *)
ListedOnce == \A i, j \in 1 .. Len(objects) : i < j => objects[i] < objects[j]

(* A key that was in the bucket during the whole call is in its result,    *)
(* also when a key that served as a marker has been deleted, or new keys   *)
(* push it to another page.                                                *)
StableListed == pc = "done" => stable \subseteq ToSet(objects)

(* qsort is handed an array of std::string objects, which must not be      *)
(* moved byte by byte: it is in order already whenever it is sorted.       *)
SortMovesNothing == [][GetPage => objects' = objects \o Page(Asked)]_vars

(* A listing comes to an end.                                              *)
ListReturns == pc = "list" ~> pc \in {"done", "error"}

=============================================================================
