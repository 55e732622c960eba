------------------------------- MODULE PerfMetrics -----------------------------
(***************************************************************************)
(* scripts/metrics/analyzeperfmetrics.py, main: the options decide whether *)
(* the file is listed, served or plotted.  A user lists it first, or not,  *)
(* and then serves or plots it.  Options are records of                    *)
(*   sets, ylabels    number of -m and -y                                  *)
(*   known            the metrics of -m are columns of the file            *)
(*   https, http, certificate  -p, -q; "none", "incomplete", "missing" or  *)
(*                    "files", what -c and -e name                         *)
(*   output           -o is present                                        *)
(*   device, kernel, instance  -d, -k ("" if it is not present), -i        *)
(*   dump             -s: "none", "missing" or "folder"                    *)
(***************************************************************************)
EXTENDS StallCharts, MetricServer

CONSTANT OptionSet

ASSUME OptionAssumption == \A o \in OptionSet : o.sets \in Nat /\ o.instance \in Int

\* What unitrace writes: each device has one banner and one header line after it;
\* the samples between two blank rows are of one kernel, and the stall samples of
\* a kernel follow one another.
SampleRow == [kind : {"sample"}, kernel : Kernels, id : Nat, events : BOOLEAN]
FrameRow == {BlankRow} \cup SampleRow
OneBlockEach(rows) ==
  \A i, j, n \in DOMAIN rows :
    i < j /\ j < n /\ rows[i].kernel = rows[n].kernel => rows[j].kernel = rows[i].kernel
FileRow == [kind : {"banner"}, device : Nat] \cup [kind : {"header"}, stall : BOOLEAN] \cup FrameRow
Sectioned(rows) ==
  /\ \E n \in DOMAIN rows : IsBanner(rows[n])
  /\ \A n \in DOMAIN rows : IsBanner(rows[n]) =>
       /\ \A m \in DOMAIN rows : rows[m] = rows[n] => m = n
       /\ \E h \in DOMAIN rows : h > n /\ IsHeader(rows[h]) /\ \A m \in (n + 1)..h : ~IsBanner(rows[m])
  /\ \A m, n \in DOMAIN rows :
       IsHeader(rows[m]) /\ IsHeader(rows[n]) /\ m < n => \E b \in m..n : IsBanner(rows[b])
ASSUME FileAssumption ==
  \A rows \in Files :
    /\ rows \in Seq(FileRow) /\ (rows # <<>> => Sectioned(rows))
    /\ \A d \in Devices(rows) :
         IF rows[HeaderOf(rows, d)].stall
         THEN FrameOf(rows, d) \in Seq(SampleRow) /\ OneBlockEach(FrameOf(rows, d))
         ELSE FrameOf(rows, d) \in Seq(FrameRow) /\ RunsOfOneKernel(FrameOf(rows, d))

vars == <<shared, charts, server>>

Init ==
  /\ file \in Files
  /\ options \in OptionSet
  /\ pc = "start"
  /\ ChartsInit
  /\ ServerInit

HasEvents(d) == file[HeaderOf(file, d)].stall
Serves == options.https \/ options.http

\* -l
ListFile ==
  /\ pc = "start" /\ file # <<>> /\ counts = <<>> /\ devices = <<>>
  /\ List([n \in DOMAIN Banners |-> Banners[n].device])
  /\ UNCHANGED server

\* The checks of main, in the order of their returns, all of which end it.
Refused ==
  \/ file = <<>>
  \/ options.sets # options.ylabels
  \/ options.https /\ options.http
  \/ ~Serves /\ ~options.output
  \/ ~Serves /\ options.device \notin Devices(file)
  \/ ~Serves /\ options.device \in Devices(file) /\ ~HasEvents(options.device) /\ options.sets = 0

Refuse ==
  /\ pc = "start" /\ Refused
  /\ pc' = "ended"
  /\ UNCHANGED <<file, options, charts, server>>

Serve ==
  /\ pc = "start" /\ ~Refused /\ Serves
  /\ PerfMetricsHTTPServer
  /\ UNCHANGED charts

Plot ==
  /\ pc = "start" /\ ~Refused /\ ~Serves
  /\ IF HasEvents(options.device) THEN AnalyzeStallMetrics ELSE AnalyzePerfMetrics
  /\ UNCHANGED server

Next ==
  \/ ListFile
  \/ Refuse \/ Serve \/ Plot
  \/ ListRow /\ UNCHANGED server
  \/ ListEnd /\ UNCHANGED server
  \/ AllRow /\ UNCHANGED server
  \/ FindRow /\ UNCHANGED server
  \/ FindEnd /\ UNCHANGED server
  \/ OneRow /\ UNCHANGED server
  \/ OneUnterminated /\ UNCHANGED server
  \/ Close /\ UNCHANGED server
  \/ StallsRow /\ UNCHANGED server
  \/ StallsEnd /\ UNCHANGED server
  \/ StallRow /\ UNCHANGED server
  \/ StallEnd /\ UNCHANGED server
  \/ ScanRow /\ UNCHANGED charts
  \/ StartServer /\ UNCHANGED charts
  \/ \E r \in Requests : DoGet(r) /\ UNCHANGED charts
  \/ TrySection /\ UNCHANGED charts
  \/ Interrupt /\ UNCHANGED charts

Spec == Init /\ [][Next]_vars
================================================================================
