------------------------------ MODULE MCIttRegistry ----------------------------
(* IttRegistry for TLC.  No symmetry: one of the properties is temporal.    *)
EXTENDS IttRegistry
================================================================================
