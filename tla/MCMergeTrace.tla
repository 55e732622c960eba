------------------------------ MODULE MCMergeTrace -----------------------------
(* MergeTrace for TLC: two files, one of which is named twice.             *)
EXTENDS MergeTrace

MCInputs == <<1, 2, 1>>
================================================================================
