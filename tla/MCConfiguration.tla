-------------------------- MODULE MCConfiguration --------------------------
(* Instances of Configuration for TLC.                                     *)
EXTENDS Configuration
=============================================================================
