------------------------------ MODULE MCTraceBuffer ----------------------------
(* TraceBuffer for TLC: two threads.  The first one's buffer is bounded; the *)
(* second one's is bounded, or grows, or has size 0 and writes each record   *)
(* at once.                                                                  *)
EXTENDS TraceBufferInv

CONSTANTS t1, t2

MCThreads == {t1, t2}

Twos == [t \in MCThreads |-> 2]
Yes == [t \in MCThreads |-> TRUE]
No == [t \in MCThreads |-> FALSE]

OnlyFirst == [t \in MCThreads |-> t = t1]
OnlySecond == [t \in MCThreads |-> t = t2]
TwoAndOne == [t \in MCThreads |-> IF t = t2 THEN 1 ELSE 2]
================================================================================
