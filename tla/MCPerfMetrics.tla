----------------------------- MODULE MCPerfMetrics -----------------------------
(* PerfMetrics for TLC: performance metrics of one device, with instances  *)
(* of two kernels and blank rows in all places, and of two and three       *)
(* devices; stall metrics of one, two and three devices.                   *)
EXTENDS PerfMetrics

MCKernels == {"k1", "k2"}

\* Instances of one or two samples, each followed by one blank row or two, the
\* last one perhaps by none.
Instance(k, id, samples, blanks) ==
  [n \in 1..samples |-> Sample(k, id, FALSE)] \o [n \in 1..blanks |-> BlankRow]
MCInstances ==
  {Instance(a, 1, 2, x) \o Instance(b, 2, 1, y) \o Instance(c, 3, m, z) :
     a, b, c \in MCKernels, m \in 1..2, x, y \in 1..2, z \in 0..2}
PerfSection(d, rows) == <<Banner(d), HeaderLine(FALSE)>> \o rows
StallSection(d, rows) == <<Banner(d), HeaderLine(TRUE)>> \o rows
Stalls(k, events) == [n \in DOMAIN events |-> Sample(k, 0, events[n])]

OneDevice == {PerfSection(0, rows) : rows \in MCInstances}
Devices123 ==
  {PerfSection(0, Instance("k1", 1, 1, 1)) \o PerfSection(1, Instance(a, 2, m, 1)) \o
   PerfSection(2, Instance("k2", 3, 2, z)) : a \in MCKernels, m \in 1..2, z \in 0..1}
Devices12 ==
  {PerfSection(0, Instance("k1", 1, 1, 1)) \o PerfSection(1, Instance(a, 2, m, z)) :
     a \in MCKernels, m \in 1..2, z \in 0..1}
MCStalls ==
  {Stalls("k1", e) \o Stalls("k2", f) :
     e \in UNION {[1..n -> BOOLEAN] : n \in 0..3}, f \in {<<TRUE>>, <<FALSE, TRUE>>, <<>>}}
StallOne == {StallSection(0, rows) : rows \in MCStalls \ {<<>>}}
StallTwo ==
  {StallSection(0, Stalls("k1", <<e>>)) \o StallSection(1, Stalls(a, <<TRUE>>)) :
     a \in MCKernels, e \in BOOLEAN}
StallThree ==
  {StallSection(0, Stalls(a, <<TRUE, FALSE>>)) \o StallSection(1, Stalls(b, <<TRUE>>)) \o
   StallSection(2, Stalls("k1", <<e>>) \o Stalls("k2", <<TRUE>>)) :
     a, b \in MCKernels, e \in BOOLEAN}
MCFiles == {<<>>} \cup OneDevice \cup Devices12 \cup Devices123 \cup StallOne \cup
           StallTwo \cup StallThree

Default ==
  [sets |-> 1, ylabels |-> 1, known |-> TRUE, https |-> FALSE, http |-> FALSE,
   certificate |-> "none", output |-> TRUE, device |-> 0, kernel |-> "", instance |-> 0,
   dump |-> "none"]
MCOptions ==
  {[Default EXCEPT !.sets = s, !.ylabels = y, !.output = o, !.device = d] :
     s, y \in 0..1, o \in BOOLEAN, d \in {0, 3}} \cup
  {[Default EXCEPT !.sets = s, !.ylabels = s, !.kernel = k, !.instance = i, !.device = d,
                   !.known = s # 2 \/ i # 2] :
     s \in 1..2, k \in {"", "k1", "k2"}, i \in 0..2, d \in {0, 2}} \cup
  {[Default EXCEPT !.kernel = k, !.dump = s] : k \in {"", "k2"}, s \in {"missing", "folder"}} \cup
  {[Default EXCEPT !.https = p, !.http = ~p \/ s = 0, !.certificate = c, !.sets = s, !.ylabels = s,
                   !.known = s # 2, !.dump = f] :
     p \in BOOLEAN, c \in {"none", "incomplete", "files"}, s \in 0..2, f \in {"none", "missing"}}

MCRequests ==
  [local : {TRUE}, form : {"full"}, kernel : MCKernels, instance : 1..3] \cup
  {[local |-> l, form |-> f, kernel |-> "k1", instance |-> 1] :
     l \in BOOLEAN, f \in {"favicon", "short", "bad"}}
================================================================================
