--------------------------- MODULE MCListObjects ---------------------------
(* Instances of ListObjects for TLC.                                       *)
EXTENDS ListObjects

(* Keys that nothing in an URL changes.                                    *)
MCMarkerRead == [k \in Keys |-> k]
=============================================================================
