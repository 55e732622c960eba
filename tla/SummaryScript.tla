------------------------------ MODULE SummaryScript ----------------------------
(***************************************************************************)
(* The summary of a job from end to end: its processes log their reports   *)
(* (CclSummary.tla), one file each; scripts/summary/summary.py reads the   *)
(* files line by line, tells the sections of a report apart by what some   *)
(* lines contain, collects time and calls of each function, and aggregates *)
(* them over the processes and by category.                                *)
(*                                                                         *)
(* A line is what the script can tell of it: the label it contains, the    *)
(* row of a table, nothing at all.  The host and device sections come from *)
(* builds of the tool that time APIs and kernels; they have the layout of  *)
(* the reports under test/*/gold.  Averages, which need fractions, and the *)
(* removal of blanks are left out; Categories.tla has the categories.      *)
(***************************************************************************)
EXTENDS CclSummary

CONSTANTS
  Category,       \* the schema: the category of each name that has one
  ProcessBound    \* bound: processes of the job

ASSUME ProcessAssumption == ProcessBound \in Nat \ {0}
ASSUME CategoryAssumption == \A n \in DOMAIN Category : Category[n] \in STRING

VARIABLES
  files,        \* the files of the tarball
  made,         \* history: what was added in the process of each file
  file, rest,   \* the file that is read, and its lines that are left
  section,      \* 0 host, 1 device, 2 comm, or -1
  reading,      \* "skip" to a label, a table's "header", its "records", or "failed"
  metrics,      \* per section and name: time and calls of each record, in order
  output        \* per aggregator and category

scriptVars == <<file, rest, section, reading, metrics, output>>
pipelineVars == <<cclVars, files, made, scriptVars>>

\* Names that are not functions of the program.
Wallclock == -1
L0Backend == -2
HostCall == -3
Kernel == -4

Line(label) == [label |-> label]
Number(label, n) == [label |-> label, time |-> n]
Record(name, time, calls) == [label |-> "row", name |-> name, time |-> time, calls |-> calls]

HostPart ==
  <<Line("api"), Line("blank"), Number("execution", 9), Number("apitotal", 7), Line("blank"),
    Line("backend"), Line("blank"), Line("header"), Record(HostCall, 7, 2), Line("blank")>>
DevicePart ==
  <<Line("device"), Line("blank"), Number("execution", 8), Number("devicetotal", 6), Line("blank"),
    Line("backend"), Line("blank"), Line("header"), Record(Kernel, 6, 3), Line("blank")>>
TimedParts == {<<>>, HostPart \o DevicePart}

CclPart(table) ==
  IF table.rows = <<>> THEN <<>>
  ELSE <<Line("stars"), Line("process"), Line("stars"), Line("header")>>
         \o [i \in DOMAIN table.rows |->
               Record(table.rows[i].name, table.rows[i].total, table.rows[i].calls)]

PipelineInit ==
  /\ CclInit
  /\ files = <<>>
  /\ made = <<>>
  /\ file = 0
  /\ rest = <<>>
  /\ section = -1
  /\ reading = "skip"
  /\ metrics = [s \in 0..2 |-> << >>]
  /\ output = << >>

\* ~UniTracer logs an empty line and the table, then the process is gone; the
\* next one starts with an empty map.
LogReport ==
  /\ reported
  /\ file = 0
  /\ \E timed \in TimedParts :
       files' = Append(files, timed \o <<Line("blank")>> \o CclPart(report))
  /\ made' = Append(made, ended)
  /\ info' = << >>
  /\ ended' = <<>>
  /\ report' = None
  /\ reported' = FALSE
  /\ UNCHANGED scriptVars

--------------------------------------------------------------------------------
(* aprocess.                                                               *)

NextFile ==
  /\ reading = "skip" /\ rest = <<>>
  /\ IF file = 0 THEN ended = <<>> /\ ~reported ELSE TRUE
  /\ file < Len(files)
  /\ file' = file + 1
  /\ rest' = files[file + 1]
  /\ section' = -1
  /\ UNCHANGED <<reading, metrics, output>>

Here(mode, labels) == rest # <<>> /\ reading = mode /\ Head(rest).label \in labels
Consume == rest' = Tail(rest)

\* A negative index counts from the end.
Of(s) == IF s = -1 THEN 2 ELSE s
Added(lists, name, entry) ==
  [n \in DOMAIN lists \cup {name} |->
     IF n # name THEN lists[n]
     ELSE IF name \in DOMAIN lists THEN Append(lists[name], entry) ELSE <<entry>>]
Collect(name, time, calls) ==
  metrics' = [metrics EXCEPT ![Of(section)] = Added(@, name, [time |-> time, calls |-> calls])]

Skip ==
  /\ Here("skip", {"blank", "process", "header", "row"})
  /\ Consume
  /\ UNCHANGED <<file, section, reading, metrics, output>>

Heading ==
  /\ Here("skip", {"api", "device"})
  /\ Consume
  /\ section' = IF Head(rest).label = "api" THEN 0 ELSE 1
  /\ UNCHANGED <<file, reading, metrics, output>>

\* Variant for the mutation runs: the first line of stars is the header's.
StarsAtOnce ==
  /\ Here("skip", {"stars"})
  /\ Consume
  /\ section' = 2
  /\ reading' = "header"
  /\ UNCHANGED <<file, metrics, output>>

\* The banner of a table of oneCCL functions has two lines of stars.
Stars ==
  /\ Here("skip", {"stars"})
  /\ Consume
  /\ section' = 2
  /\ reading' = IF section = 2 THEN "header" ELSE "skip"
  /\ UNCHANGED <<file, metrics, output>>

Total ==
  /\ Here("skip", {"execution", "apitotal", "devicetotal"})
  /\ Consume
  /\ Collect(IF Head(rest).label = "execution" THEN Wallclock ELSE L0Backend, Head(rest).time, 1)
  /\ UNCHANGED <<file, section, reading, output>>

Backend ==
  /\ Here("skip", {"backend"})
  /\ Consume
  /\ reading' = IF section \in {0, 1} THEN "header" ELSE "skip"
  /\ UNCHANGED <<file, section, metrics, output>>

Labels == {"blank", "api", "device", "stars", "process", "execution", "apitotal",
           "devicetotal", "backend", "header", "row"}

\* csv_from: the first line that is not empty names the columns; if they are not
\* those of a table, no record has the column the script asks for.
Header ==
  /\ Here("header", Labels)
  /\ Consume
  /\ reading' = CASE Head(rest).label = "header" -> "records"
                  [] Head(rest).label = "blank" -> "header"
                  [] OTHER -> "failed"
  /\ UNCHANGED <<file, section, metrics, output>>

ReadRecord ==
  /\ Here("records", Labels \ {"blank"})
  /\ Consume
  /\ IF Head(rest).label = "row"
     THEN Collect(Head(rest).name, Head(rest).time, Head(rest).calls) /\ UNCHANGED reading
     ELSE reading' = "failed" /\ UNCHANGED metrics
  /\ UNCHANGED <<file, section, output>>

\* An empty line or the end of the file ends a table; a oneCCL table ends its
\* section, too.
EndTable ==
  /\ \/ Here("records", {"blank"}) /\ Consume
     \/ rest = <<>> /\ reading = "records" /\ UNCHANGED rest
  /\ reading' = "skip"
  /\ section' = IF section = 2 THEN -1 ELSE section
  /\ UNCHANGED <<file, metrics, output>>

--------------------------------------------------------------------------------
(* The aggregators, over the values that a name has in a section.          *)

Ascending(values, order) ==
  \A i, j \in DOMAIN order : i < j => values[order[i]] <= values[order[j]]
Sorted(values) ==
  LET order == CHOOSE order \in SetToSeqs(DOMAIN values) : Ascending(values, order)
  IN [i \in DOMAIN order |-> values[order[i]]]
SumOf(values) == MapThenSumSet(LAMBDA i : values[i], DOMAIN values)

\* min_p_1 and max_m_1: the second value from either end, if there are three.
Second(values, i) ==
  CASE Len(values) = 1 -> values[1]
    [] Len(values) = 2 -> SumOf(values) \div 2
    [] OTHER -> Sorted(values)[i]

Aggregators == {"min", "max", "sum", "min+1", "max-1"}
Aggregate(a, values) ==
  CASE a = "min" -> Sorted(values)[1]
    [] a = "max" -> Last(Sorted(values))
    [] a = "sum" -> SumOf(values)
    [] a = "min+1" -> Second(values, 2)
    [] a = "max-1" -> Second(values, Len(values) - 1)

\* Names without a category of the schema get that of their section.  Host
\* functions are not aggregated.
Subjects == UNION {{<<s, n>> : n \in DOMAIN metrics[s]} : s \in 1..2}
CategoryIn(x) ==
  IF x[2] \in DOMAIN Category THEN Category[x[2]] ELSE <<"host", "device", "comm">>[x[1] + 1]

Value(a, x) ==
  LET entries == metrics[x[1]][x[2]]
  IN [time |-> Aggregate(a, [i \in DOMAIN entries |-> entries[i].time]),
      calls |-> Aggregate(a, [i \in DOMAIN entries |-> entries[i].calls])]

\* Variant for the mutation runs: a category keeps the last value.
PlusOver(v, w) == w

\* A category adds up the values of its names.
Plus(v, w) == [time |-> v.time + w.time, calls |-> v.calls + w.calls]
Nothing == [time |-> 0, calls |-> 0]

\* All files are read: what the script writes, for each aggregator.
WriteOutput ==
  /\ reading = "skip" /\ rest = <<>>
  /\ file > 0 /\ file = Len(files)
  /\ output = << >>
  /\ output' = [a \in Aggregators |-> [c \in {CategoryIn(x) : x \in Subjects} |->
       MapThenFoldSet(Plus, Nothing, LAMBDA x : Value(a, x), LAMBDA X : CHOOSE x \in X : TRUE,
                      {x \in Subjects : CategoryIn(x) = c})]]
  /\ UNCHANGED <<file, rest, section, reading, metrics>>

ReadStep ==
  \/ NextFile \/ Skip \/ Heading \/ Stars \/ Total \/ Backend \/ Header \/ ReadRecord
  \/ EndTable \/ WriteOutput

PipelineNext ==
  \/ /\ CclNext
     /\ file = 0 /\ Len(files) < ProcessBound
     /\ Len(FlattenSeq(made)) + Len(ended') <= AddBound
     /\ UNCHANGED <<files, made, scriptVars>>
  \/ LogReport
  \/ ReadStep /\ UNCHANGED <<cclVars, files, made>>

PipelineSpec == PipelineInit /\ [][PipelineNext]_pipelineVars

--------------------------------------------------------------------------------
CallsMade(n) ==
  UNION {{<<p, i>> : i \in {j \in DOMAIN made[p] : made[p][j].name = n}} : p \in DOMAIN made}
TimeMade(n) == MapThenSumSet(LAMBDA c : made[c[1]][c[2]].time, CallsMade(n))
TimeRead(s, n) ==
  IF n \in DOMAIN metrics[s]
  THEN MapThenSumSet(LAMBDA i : metrics[s][n][i].time, DOMAIN metrics[s][n]) ELSE 0

\* The script reads every report the tool writes, and the oneCCL time that the
\* processes measured is in its comm section once, whatever sections the reports
\* have: the banner written and the one looked for agree, and no table runs into
\* another.
CommMatchesCalls ==
  /\ reading # "failed"
  /\ output # << >> => \A n \in CclNames : TimeRead(2, n) = TimeMade(n)

EntriesRead == UNION {{<<x[1], x[2], i>> : i \in DOMAIN metrics[x[1]][x[2]]} : x \in Subjects}

\* The script's output misses no device or comm entry and counts none twice; its
\* trimmed aggregates lie between the plain ones.
OutputComplete ==
  output # << >> =>
    LET Out(a, c) == output[a][c].time IN
    /\ MapThenSumSet(LAMBDA c : Out("sum", c), DOMAIN output["sum"]) =
         MapThenSumSet(LAMBDA e : metrics[e[1]][e[2]][e[3]].time, EntriesRead)
    /\ \A c \in DOMAIN output["sum"] :
         /\ Out("min", c) <= Out("min+1", c)
         /\ Out("min+1", c) <= Out("max-1", c)
         /\ Out("max-1", c) <= Out("max", c)
================================================================================
