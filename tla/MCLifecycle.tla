------------------------------ MODULE MCLifecycle ------------------------------
(* Lifecycle for TLC: two of the six signals, which are handled alike: one that *)
(* only arrives, and the one that a jump to no code raises.                     *)
EXTENDS Lifecycle

MCSignals == {"SIGINT", "SIGSEGV"}
================================================================================
