----------------------------- MODULE ChunkPlan -----------------------------
(***************************************************************************)
(* The transfers QingStorReader::setupPipeline plans, in closed form: how  *)
(* many a range of n bytes takes with chunks of c bytes, and which bytes   *)
(* the i-th of them is for.  The module QingStorReader has the loop, whose *)
(* run checks that it computes this; the instances of DownloadPipeline     *)
(* take their transfers from here.                                         *)
(***************************************************************************)
EXTENDS Integers

NumChunks(n, c) == IF n = 0 THEN 1 ELSE (n + c - 1) \div c
ChunkStart(start, c, i) == start + (i - 1) * c
ChunkLen(start, end, c, i) ==
  IF ChunkStart(start, c, i) + c > end
  THEN end - ChunkStart(start, c, i) + 1
  ELSE c

=============================================================================
