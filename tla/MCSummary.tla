-------------------------------- MODULE MCSummary ------------------------------
(* The summary scripts for TLC, one after the other: either a schema is    *)
(* built and searched, with tags that extend, share and repeat each other's*)
(* keys, in both directions, and every name of up to four of two letters;  *)
(* or the reports of a job are made and read, with two oneCCL functions and*)
(* another name, calls of duration 0 and 5, a kernel and a oneCCL function *)
(* of one category.                                                        *)
EXTENDS SummaryScript, Categories

MCNames == 1..3
MCCclNames == 1..2
MCDurations == {0, 5}
MCCategory == [n \in {Wallclock, Kernel, 1} |-> IF n = Wallclock THEN "wallclock" ELSE "gemm"]

a == "a"
b == "b"

MCDirectTags == {<<a>>, <<a, b>>, <<a, b, a>>, <<a, b, b>>, <<b, a>>}
MCReverseTags == {<<b>>, <<a, b>>, <<b, b>>}
MCKernelNames == UNION {[1..n -> {a, b}] : n \in 1..4}

MCInit == PipelineInit /\ CategoriesInit

MCNext ==
  \/ PipelineNext /\ Known = 0 /\ phase = "read" /\ UNCHANGED categoriesVars
  \/ CategoriesNext /\ files = <<>> /\ info = << >> /\ ended = <<>> /\ ~reported /\ UNCHANGED pipelineVars

MCSpec == MCInit /\ [][MCNext]_<<pipelineVars, categoriesVars>>
================================================================================
