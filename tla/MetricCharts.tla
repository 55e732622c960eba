------------------------------ MODULE MetricCharts -----------------------------
(***************************************************************************)
(* scripts/metrics/analyzeperfmetrics.py on the performance metrics of a   *)
(* device: the instances that List counts, and the charts that             *)
(* AnalyzePerfMetrics plots.  Each of its loops goes through the rows of   *)
(* the frame and finds out by its own marks where an instance begins and   *)
(* ends: all instances of all kernels ("all"), one instance of one kernel  *)
(* or of each of them ("find"), all instances of a kernel ("one").         *)
(*                                                                         *)
(* A chart is the rows it shows and the kernel in its title; the curves are*)
(* left out.  There is one for each set of metrics.                        *)
(***************************************************************************)
EXTENDS MetricsFile

ASSUME KernelAssumption == "" \notin Kernels

VARIABLES
  devices,        \* devices that List has yet to list
  counts,         \* what List prints: instances of each kernel, by device
  frame,          \* df, the rows of the device
  todo,           \* kernels whose instance is still to be plotted
  index,          \* the row
  start,          \* row where the instance of interest starts, 0 if there is none
  kernel,         \* kernel of the instance, "" between two of them
  counting,       \* a new instance may start
  instance,       \* k, instance: instances met, as the loop counts them
  pages,          \* the charts in the PDF
  sheets,         \* and those of stall events
  closed          \* the PDF is complete

loop == <<index, start, kernel, counting, instance>>
charts == <<devices, counts, frame, todo, loop, pages, sheets, closed>>

IsNan(row) == row.kind = "blank"

\* df['Kernel'].unique()
Firsts(rows) ==
  {n \in DOMAIN rows :
     ~IsNan(rows[n]) /\ \A m \in 1..(n - 1) : IsNan(rows[m]) \/ rows[m].kernel # rows[n].kernel}
Unique(rows) == LET firsts == InOrder(Firsts(rows)) IN [i \in DOMAIN firsts |-> rows[firsts[i]].kernel]

\* The locals before a loop.  The first row is what "all" starts from.
Rewound(first) ==
  /\ index' = 1 /\ start' = first
  /\ kernel' = "" /\ counting' = TRUE /\ instance' = 0

\* df[start : stop] is plotted for every set unless it is empty.
Chart(first, stop, title) ==
  IF first < stop
  THEN [n \in 1..options.sets |-> [title |-> title, first |-> first, last |-> stop - 1]]
  ELSE <<>>

--------------------------------------------------------------------------------
ChartsInit ==
  /\ devices = <<>> /\ counts = <<>>
  /\ frame = <<>> /\ todo = <<>>
  /\ index = 1 /\ start = 0 /\ kernel = "" /\ counting = TRUE /\ instance = 0
  /\ pages = <<>> /\ sheets = <<>> /\ closed = FALSE

\* List, for each banner; stall events are not counted by instance.
List(ds) ==
  /\ devices' = ds
  /\ pc' = IF ds = <<>> THEN "start" ELSE "list"
  /\ frame' = IF ds = <<>> THEN <<>> ELSE FrameOf(file, Head(ds))
  /\ counts' = IF ds = <<>> \/ file[HeaderOf(file, Head(ds))].stall THEN counts
               ELSE [d \in DOMAIN counts \cup {Head(ds)} |->
                       IF d = Head(ds) THEN [k \in Kernels |-> 0] ELSE counts[d]]
  /\ Rewound(0)
  /\ UNCHANGED <<file, options, todo, pages, sheets, closed>>

\* A blank row ends an instance.
ListRow ==
  /\ pc = "list" /\ Head(devices) \in DOMAIN counts /\ index <= Len(frame)
  /\ IF IsNan(frame[index])
     THEN /\ kernel' = ""
          /\ counts' = IF kernel = "" THEN counts
                       ELSE [counts EXCEPT ![Head(devices)][kernel] = @ + 1]
     ELSE /\ kernel' = IF kernel = "" THEN frame[index].kernel ELSE kernel
          /\ UNCHANGED counts
  /\ index' = index + 1
  /\ UNCHANGED <<shared, devices, frame, todo, start, counting, instance, pages, sheets, closed>>

ListEnd ==
  /\ pc = "list" /\ (Head(devices) \notin DOMAIN counts \/ index > Len(frame))
  /\ List(Tail(devices))

\* AnalyzePerfMetrics until its loop; a metric that is not a column ends it.
AnalyzePerfMetrics ==
  /\ frame' = FrameOf(file, options.device)
  /\ pc' = IF ~options.known THEN "ended"
           ELSE IF options.instance >= 1 THEN "find"
           ELSE IF options.kernel = "" THEN "all" ELSE "one"
  /\ todo' = IF options.kernel = "" THEN Unique(frame') ELSE <<options.kernel>>
  /\ Rewound(IF options.kernel = "" /\ options.instance < 1 THEN 1 ELSE 0)
  /\ UNCHANGED <<file, options, devices, counts, pages, sheets, closed>>

\* Variant for the mutation runs: the name of the instance is not reset.
AllRowUnreset ==
  /\ pc = "all" /\ index <= Len(frame)
  /\ IF IsNan(frame[index])
     THEN /\ pages' = pages \o Chart(start, index, kernel)
          /\ UNCHANGED <<start, kernel>>
     ELSE /\ kernel' = IF kernel = "" THEN frame[index].kernel ELSE kernel
          /\ start' = IF kernel = "" THEN index ELSE start
          /\ UNCHANGED pages
  /\ index' = index + 1
  /\ UNCHANGED <<shared, devices, counts, frame, todo, counting, instance, sheets, closed>>

\* All instances of all kernels: start keeps its value after a blank row.
AllRow ==
  /\ pc = "all" /\ index <= Len(frame)
  /\ IF IsNan(frame[index])
     THEN /\ pages' = pages \o Chart(start, index, kernel)
          /\ kernel' = ""
          /\ UNCHANGED start
     ELSE /\ kernel' = IF kernel = "" THEN frame[index].kernel ELSE kernel
          /\ start' = IF kernel = "" THEN index ELSE start
          /\ UNCHANGED pages
  /\ index' = index + 1
  /\ UNCHANGED <<shared, devices, counts, frame, todo, counting, instance, sheets, closed>>

\* PlotKernelInstancePerfMetrics, for the next kernel.
FindNext == todo' = Tail(todo) /\ Rewound(0)

\* Variant: an instance is counted at each of its rows.
FindRowEach ==
  /\ pc = "find" /\ todo # <<>> /\ index <= Len(frame)
  /\ \/ /\ IsNan(frame[index]) /\ start # 0
        /\ pages' = pages \o Chart(start, index, Head(todo))
        /\ FindNext
     \/ /\ IsNan(frame[index]) /\ start = 0
        /\ counting' = TRUE /\ index' = index + 1
        /\ UNCHANGED <<todo, start, kernel, instance, pages>>
     \/ /\ ~IsNan(frame[index])
        /\ LET new == frame[index].kernel = Head(todo)
           IN /\ instance' = IF new THEN instance + 1 ELSE instance
              /\ counting' = (counting /\ ~new)
              /\ start' = IF new /\ instance' = options.instance THEN index ELSE start
        /\ index' = index + 1
        /\ UNCHANGED <<todo, kernel, pages>>
  /\ UNCHANGED <<shared, devices, counts, frame, sheets, closed>>

FindRow ==
  /\ pc = "find" /\ todo # <<>> /\ index <= Len(frame)
  /\ \/ /\ IsNan(frame[index]) /\ start # 0
        /\ pages' = pages \o Chart(start, index, Head(todo))
        /\ FindNext
     \/ /\ IsNan(frame[index]) /\ start = 0
        /\ counting' = TRUE /\ index' = index + 1
        /\ UNCHANGED <<todo, start, kernel, instance, pages>>
     \/ /\ ~IsNan(frame[index])
        /\ LET new == counting /\ frame[index].kernel = Head(todo)
           IN /\ instance' = IF new THEN instance + 1 ELSE instance
              /\ counting' = (counting /\ ~new)
              /\ start' = IF new /\ instance' = options.instance THEN index ELSE start
        /\ index' = index + 1
        /\ UNCHANGED <<todo, kernel, pages>>
  /\ UNCHANGED <<shared, devices, counts, frame, sheets, closed>>

\* The instance may be at the end of the data frame, or there is none.
FindEnd ==
  /\ pc = "find" /\ todo # <<>> /\ index > Len(frame)
  /\ pages' = IF start = 0 THEN pages ELSE pages \o Chart(start, Len(frame) + 1, Head(todo))
  /\ FindNext
  /\ UNCHANGED <<shared, devices, counts, frame, sheets, closed>>

\* All instances of a kernel; the loop counts one for each set of metrics.
OneRow ==
  /\ pc = "one" /\ index <= Len(frame)
  /\ \/ /\ IsNan(frame[index]) /\ ~counting
        /\ pages' = pages \o Chart(start, index, options.kernel)
        /\ instance' = instance + options.sets
        /\ counting' = TRUE /\ start' = 0
     \/ /\ IsNan(frame[index]) /\ counting
        /\ UNCHANGED <<start, counting, instance, pages>>
     \/ /\ ~IsNan(frame[index])
        /\ LET new == counting /\ frame[index].kernel = options.kernel
           IN start' = (IF new THEN index ELSE start) /\ counting' = (counting /\ ~new)
        /\ UNCHANGED <<instance, pages>>
  /\ index' = index + 1
  /\ UNCHANGED <<shared, devices, counts, frame, todo, kernel, sheets, closed>>

\* The code for an instance at the end of the data frame reads a name that was
\* never assigned: the script ends with an error.
OneUnterminated ==
  /\ pc = "one" /\ index > Len(frame) /\ start # 0
  /\ pc' = "failed"
  /\ UNCHANGED <<file, options, charts>>

\* The PDF is created with its first page.
Close ==
  /\ \/ pc = "all" /\ index > Len(frame)
     \/ pc = "find" /\ todo = <<>>
     \/ pc = "one" /\ index > Len(frame) /\ start = 0
  /\ closed' = (pages # <<>>)
  /\ pc' = "ended"
  /\ UNCHANGED <<file, options, devices, counts, frame, todo, loop, pages, sheets>>

--------------------------------------------------------------------------------
\* Instances are what blank rows and the ends of the frame bound.
AllNan(rows, i, j) == \A n \in i..j : IsNan(rows[n])
IsRun(rows, i, j) ==
  /\ 1 <= i /\ i <= j /\ j <= Len(rows)
  /\ \A n \in i..j : ~IsNan(rows[n])
  /\ i > 1 => IsNan(rows[i - 1])
  /\ j < Len(rows) => IsNan(rows[j + 1])
RunsOfOneKernel(rows) ==
  \A n \in 1..(Len(rows) - 1) :
    ~IsNan(rows[n]) /\ ~IsNan(rows[n + 1]) => rows[n].kernel = rows[n + 1].kernel

\* A chart shows the samples of one instance, all of them and nothing else,
\* under its kernel's name, in every mode and though the modes look for the
\* limits of an instance in different ways.  The exception is the chart of all
\* instances at a second blank row: the instance before it again, without a name.
PagesOfOneInstance ==
  \A n \in DOMAIN pages :
    LET page == pages[n]
    IN \/ /\ IsRun(frame, page.first, page.last)
          /\ page.title = frame[page.first].kernel
       \/ /\ options.kernel = "" /\ options.instance < 1
          /\ page.title = ""
          /\ \E j \in (page.first - 1)..(page.last - 1) :
               /\ j = page.first - 1 \/ IsRun(frame, page.first, j)
               /\ AllNan(frame, j + 1, page.last)

Titled(k) == Cardinality({n \in DOMAIN pages : pages[n].title = k})
EndsIn(k) == frame # <<>> /\ ~IsNan(Last(frame)) /\ Last(frame).kernel = k

\* What List counts is what AnalyzePerfMetrics charts: all instances of a kernel
\* or of all kernels, and instance i of a kernel that has at least i.  An
\* instance at the end of the frame without a blank row is not counted; it is
\* charted if it is asked for by its number, passed over with all kernels, and
\* ends the script, which leaves the PDF incomplete, with all of its kernel.
ListedAreCharted ==
  pc \in {"ended", "failed"} /\ options.known /\ options.device \in DOMAIN counts /\ frame # <<>> =>
    /\ \A k \in Kernels :
         Titled(k) = options.sets *
           IF options.kernel \notin {k, ""} THEN 0
           ELSE IF options.instance < 1 THEN counts[options.device][k]
           ELSE IF counts[options.device][k] + (IF EndsIn(k) THEN 1 ELSE 0) >= options.instance THEN 1 ELSE 0
    /\ (pc = "failed") = (options.instance < 1 /\ options.kernel # "" /\ EndsIn(options.kernel))
    /\ closed = (pc = "ended" /\ pages # <<>>)
================================================================================
