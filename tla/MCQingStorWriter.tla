-------------------------- MODULE MCQingStorWriter --------------------------
(* Instances of QingStorWriter for TLC.                                    *)
EXTENDS QingStorWriter
=============================================================================
