-------------------------- MODULE MCQingStorReader --------------------------
(* Instances of QingStorReader for TLC.                                    *)
EXTENDS QingStorReader

MCSizes == 0 .. 7
MCRangeArgs == -1 .. 8

=============================================================================
