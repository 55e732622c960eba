------------------------------- MODULE StallCharts -----------------------------
(***************************************************************************)
(* scripts/metrics/analyzeperfmetrics.py, AnalyzeStallMetrics: the charts  *)
(* of the stall events of each instruction, for a kernel or for all.  A    *)
(* kernel's samples follow one another; those without events are dropped,  *)
(* the others are split over pages.  With a shader dump a stall report     *)
(* follows, which is modelled in Stalls.                                   *)
(***************************************************************************)
EXTENDS MetricCharts

CONSTANT ins_per_page   \* samples on a page

ASSUME PageAssumption == ins_per_page \in Nat \ {0}

Stalled(first, stop) == InOrder({n \in first..(stop - 1) : frame[n].events})

\* Variant for the mutation runs: the last page is left out unless it is full.
NumpagesFloor(n) == n \div ins_per_page
numpages(n) == (n + ins_per_page - 1) \div ins_per_page

Sheets(first, stop, title) ==
  LET rows == Stalled(first, stop)
  IN [p \in 1..numpages(Len(rows)) |->
        [title |-> title,
         rows |-> SubSeq(rows, ins_per_page * (p - 1) + 1, Min({ins_per_page * p, Len(rows)}))]]

\* df[start : stop] of a kernel.  The stall report may end the script.
PlotStalls(stop, title, next) ==
  /\ sheets' = sheets \o Sheets(start, stop, title)
  /\ \/ pc' = next /\ closed' = (next = "ended" /\ sheets' # <<>>)
     \/ options.dump = "folder" /\ Stalled(start, stop) # <<>> /\ pc' = "failed" /\ UNCHANGED closed

AnalyzeStallMetrics ==
  /\ frame' = FrameOf(file, options.device)
  /\ pc' = IF options.dump = "missing" THEN "ended" ELSE IF options.kernel = "" THEN "stalls" ELSE "stall"
  /\ Rewound(1)
  /\ UNCHANGED <<file, options, devices, counts, todo, pages, sheets, closed>>

\* All kernels: the next one begins where the name changes.
StallsRow ==
  /\ pc = "stalls" /\ index <= Len(frame)
  /\ \/ /\ kernel \in {"", frame[index].kernel}
        /\ UNCHANGED <<pc, sheets, closed, start>>
     \/ /\ kernel \notin {"", frame[index].kernel}
        /\ PlotStalls(index, kernel, "stalls")
        /\ start' = index
  /\ kernel' = frame[index].kernel
  /\ index' = index + 1
  /\ UNCHANGED <<file, options, devices, counts, frame, todo, counting, instance, pages>>

StallsEnd ==
  /\ pc = "stalls" /\ index > Len(frame)
  /\ PlotStalls(Len(frame) + 1, kernel, "ended")
  /\ UNCHANGED <<file, options, devices, counts, frame, todo, loop, pages>>

\* One kernel: its first block; counting is kernelfound = False.
StallRow ==
  /\ pc = "stall" /\ index <= Len(frame)
  /\ frame[index].kernel = options.kernel \/ counting
  /\ LET new == counting /\ frame[index].kernel = options.kernel
     IN start' = (IF new THEN index ELSE start) /\ counting' = (counting /\ ~new)
  /\ index' = index + 1
  /\ UNCHANGED <<shared, devices, counts, frame, todo, kernel, instance, pages, sheets, closed>>

StallEnd ==
  /\ pc = "stall"
  /\ \/ ~counting /\ (IF index > Len(frame) THEN TRUE ELSE frame[index].kernel # options.kernel)
        /\ PlotStalls(index, options.kernel, "ended")
     \/ counting /\ index > Len(frame) /\ pc' = "ended" /\ UNCHANGED <<sheets, closed>>
  /\ UNCHANGED <<file, options, devices, counts, frame, todo, loop, pages>>

--------------------------------------------------------------------------------
\* What the sheets show of a kernel, in which order, and what there is to show.
InTurn ==
  \A m, n \in DOMAIN sheets : \A i \in DOMAIN sheets[m].rows, j \in DOMAIN sheets[n].rows :
    m < n \/ (m = n /\ i < j) => sheets[m].rows[i] < sheets[n].rows[j]
Shown(k) == UNION {ToSet(sheets[n].rows) : n \in {m \in DOMAIN sheets : sheets[m].title = k}}
Events(k) == {n \in DOMAIN frame : frame[n].events /\ frame[n].kernel = k}

\* Every sample with stall events, of the kernel asked for or of every kernel, is
\* on a sheet under its kernel's name, and the sheets, of which none is empty or
\* longer than a page, go through the samples in order, so that each is shown
\* once.  A stall report that ends the script leaves the PDF incomplete.
StallsOnSheets ==
  /\ \A n \in DOMAIN sheets : Len(sheets[n].rows) \in 1..ins_per_page
  /\ InTurn
  /\ pc = "ended" /\ frame # <<>> /\ file[HeaderOf(file, options.device)].stall =>
       /\ \A k \in Kernels :
            Shown(k) = IF options.kernel \in {k, ""} /\ options.dump # "missing" THEN Events(k) ELSE {}
       /\ closed = (sheets # <<>>)
================================================================================
