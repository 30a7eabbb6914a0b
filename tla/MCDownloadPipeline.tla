------------------------- MODULE MCDownloadPipeline -------------------------
(* Instances of DownloadPipeline for TLC: the transfers are those planned  *)
(* for the range First .. Last.                                            *)
EXTENDS DownloadPipeline, ChunkPlan

CONSTANTS
  First, RangeSize,   \* the range
  ChunkSize

Last == First + RangeSize - 1

MCNum == NumChunks(RangeSize, ChunkSize)
MCOffset == [i \in 1 .. MCNum |-> ChunkStart(First, ChunkSize, i)]
MCLength == [i \in 1 .. MCNum |-> ChunkLen(First, Last, ChunkSize, i)]

=============================================================================
