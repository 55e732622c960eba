------------------------------- MODULE MCRoofline ------------------------------
(* Roofline for TLC: two users, two times, applications of up to two       *)
(* processes and profiles that a user may have, good and bad.              *)
EXTENDS Roofline

CONSTANTS u, v, now, later
MCUsers == {u, v}
MCStamps == {now, later}
MCSymmetry == Permutations(MCUsers) \cup Permutations(MCStamps)

Bytes(k, simd, time, l3, memory) ==
  [kind |-> "sample", kernel |-> k, simd |-> simd, time |-> time, L3 |-> l3, gpu_memory |-> memory]
Flops(k, simd, time, fp16, fp32) ==
  [kind |-> "sample", kernel |-> k, simd |-> simd, time |-> time, FP16 |-> fp16, FP32 |-> fp32]
Begin(group) == <<Marker, [kind |-> "header", group |-> group]>>

\* A process writes a header again for each instance; a copy has no shape.
Basic1 == Begin("ComputeBasic") \o <<Bytes("k1", TRUE, 1, 4, 4), Bytes("k2", TRUE, 2, 8, 32)>>
            \o Tail(Begin("ComputeBasic")) \o <<Bytes("copy", FALSE, 9, 1, 1), Bytes("k1", TRUE, 2, 2, 2)>>
Basic2 == Begin("ComputeBasic") \o <<Bytes("k2", TRUE, 1, 2, 2), Bytes("k3", TRUE, 0, 1, 1)>>
Compute == Begin("VectorEngine138") \o <<Flops("k1", TRUE, 1, 1, 0), Flops("k2", TRUE, 2, 0, 1)>>
             \o Tail(Begin("VectorEngine138")) \o <<Flops("k1", TRUE, 1, 0, 1), Flops("k3", TRUE, 1, 2, 1)>>

MCSamples == [g \in {"ComputeBasic", "VectorEngine138"} |->
                IF g = "ComputeBasic" THEN {Basic1, Basic2} ELSE {Compute}]

\* The timing section before the marker; a kernel without traffic in memory; one
\* that takes most of the time; an empty file.
Timing == [kind |-> "sample", kernel |-> "k1", simd |-> TRUE, time |-> 7, L3 |-> 7, gpu_memory |-> 7]
MCGiven == {<<Timing>> \o Basic2 \o <<Bytes("k1", TRUE, 400000, 9, 9)>>,
            Basic1 \o <<Bytes("k3", TRUE, 1, 1, 0)>>, Compute, <<>>}
================================================================================
