# unitrace: a TLA+ verification project

unitrace (ITT-only) is a host profiler. A launcher preloads a tool library into a program;
the program's ITT calls (tasks, events, markers, metadata, pause and resume) land in that
library, which keeps a Chrome trace (JSON) per process and a oneCCL summary. Python scripts
merge, repair and show traces, summarise reports, chart and serve hardware metrics, explain
stalls and plot rooflines. Paths and line numbers below
are of files under `src/`; `T/` stands for `tools/unitrace/`.

To check: `tlc -config <run>.cfg <module>` with the pairs of section 4, and
`tlapm M.tla` for each module `M` whose name ends in `Proofs` and for `NatLemmas`.

## 1. Inventory

| Component | State | Operations | Interacts with |
|---|---|---|---|
| **Trace buffers, `ChromeLogger`** `T/src/chromelogger.h`, `tools/utils/logger.h` | a `thread_local` `TraceBuffer` per thread (slices of slots, slice number, next index, flushed flag, atomic finalized flag); global `trace_buffers_`, recursive `logger_lock_`, the file | get a slot, publish it, spill, grow, flush at once, thread exit, finalize, write the footer, remove an empty file | called by the ITT collector; torn down by `~UniTracer` |
| **Collection gate** `T/src/unicontrol.h` | `itt_paused_`, the environment variable `PTI_ENABLE_COLLECTION`, `conditional_collection_` | is collection enabled, pause, resume | asked by every ITT entry point |
| **ITT tasks, metadata, markers** `T/src/itt/itt_collector.h` 317-436, 506-557, 839-902 | a `thread_local` stack of tasks, each with a chain of metadata | task begin and end, the two MPI task ends, metadata add, marker | gate, summary, trace buffers |
| **ITT registries and events** 252-297, 438-503 | the domain list, the string-handle list and the vector of event names under the `itt_global` mutex, a count read without it, a `thread_local` map of started events | initialise, find or create, event start and end | the ITT static part of the program |
| **oneCCL summary** 33-87, 142-201 | a map of function name to count, total, min, max, under `lock_func_info` | add a duration, report | fed by task end and event end, reported by `~UniTracer` |
| **Launcher and tool library lifecycle** `T/src/unitrace.cc`, `tracer.cc`, `tracer.h` | the environment, the `tracer` pointer, `itt_collector`, the saved signal handlers | prepare and execute, load, unload, teardown from `Fini` or a signal handler | owns collector and ChromeLogger; environment shared with children |
| **Trace merge and view** `T/scripts/tracemerge/mergetrace.py`, `T/scripts/uniview.py` | the input files, the size and contents of the current one, the output | check options, validate, complete, roll back, merge, serve one request, become the metrics server | the trace files, the metrics server |
| **Summary parsing and aggregation** `T/scripts/summary/summary.py` | the file being read, the section, lists per section and name | skip to a label, read a table, aggregate, write | the reports of the tool; categories |
| **Kernel categories** `T/scripts/summary/categorize.py`, `summary.py` 75-96 | two search trees over name prefixes and suffixes | build, search | the summary script |
| **Stall analysis** `T/scripts/metrics/analyzeperfmetrics.py` 152-531 | a control-flow graph per kernel, the tokens looked for, a growing worklist, the comments waited for, the report | search backwards for what an instruction waits for and for source lines, report, cut into pages | disassembly, stall charts |
| **Metric charts** the rest of `analyzeperfmetrics.py` | rows of the file, marks of the loop in progress, the pages of a PDF; a server's sections | list instances, plot one, some or all, plot stall events, answer requests | metric files, the viewer, the stall report |
| **Roofline** `T/scripts/roofline/` | a directory named by the time, two profiles, sums per kernel, points | profile twice, merge, read, sum up, plot, remove | unitrace itself, metric files |
| **Support** `trace_options.h`, `correlator.h`, `unitimer.h`, `unimemory.h`, `utils/utils.h` | option flags, kernel ids, a clock | flag tests, conversions, bound searches | everywhere |
| **Loader** `loader/` | none | start a program with a library in it | not used by unitrace |
| **Generators, build, tests** `T/scripts/*.py`, CMake, `T/test/` | none | generate headers, run sample programs | build only |

What makes them hard, and what makes them correct:

* **Trace buffers.** `~ChromeLogger` reads and writes the plain fields of other threads'
  buffers under a lock their owners only take to spill. Correct: every recorded call is in
  the file once, in its thread's order, then the footer; no slot outside a slice; no
  dangling buffer in the registry; teardown and calls terminate.
* **Gate.** Two switches, each call making two stores, which can disagree after calls that
  overlap. Correct: the documented precedence, after calls that do not.
* **Tasks and metadata.** The gate is asked at both ends of a task, so a pause in between
  leaves a stack that no longer matches the program; metadata moves from the stack to a
  buffered record by a shallow copy. Correct: records nest, nothing is logged twice, every
  block has one owner; begin and end pair up while no call was ignored.
* **Registries.** Threads race to create the same name, and use what they got without the
  mutex, while the vector of names may be moving. Correct: one node per name, handles usable
  at once, an end that no `push_back` overlaps logs its event's name, one start for one end.
* **Lifecycle.** Signal handlers run the teardown at any instruction, of `Init` too; a child's environment
  is inherited, changed, saved and restored by launchers and libraries of several
  generations. Correct: torn down once, trace closed, children followed or not as asked.
* **Summary and categories.** The script must find in a report what another program wrote;
  keys are cut at the length of the shortest tag. Correct: the sums and the categories are
  what the calls and the schema say.
* **Merge and view.** Files are completed in place, and scripts can be killed and run again.
  Correct: no input loses anything, the merge has every event once, a view shows the trace.
* **Stalls.** A search with a worklist has to end; what it finds must be able to run before
  what waits for it; a source line comes from the next comment met. Correct: explanations
  are sound and complete, lines are the closest ones, the report loses nothing on its pages.
* **Metric charts.** Five loops find the limits of an instance in five ways, and files of
  several devices are read by three different scans. Correct: a chart shows one instance under
  its name, the listed instances are the charted ones, a request gets its instance.
* **Roofline.** Two profiles are matched by kernel; directories are named by the second.
  Correct: the sums are those of the run's own samples, a directory that runs share loses
  none of them, every kernel in both has its point.

## 2. Plan

Done in this order: (1) `TraceBuffer` with its abstract specification `TraceFile`, and its
proofs; (2) the gate; (3) tasks and metadata; (4) the registries; (5) the summary; (6) the
lifecycle, then the launcher's environment; (7) categories; (8) the pipeline from report to
output; (9) merge and repair, then the viewer and its servers; (10) the stall search, then
source lines, report and pages; (11) metric charts, stall charts, the metrics server and
`PerfMetrics`, which composes them; (12) the roofline scripts; (13) theorems about all of
these components but the categories.

Left, in this order:

1. Calls that meet the teardown: `IttTasks` composed with `Lifecycle`, an ITT call after the
   collector is gone. What such a call does is undefined, so there is a defect to describe
   (section 6) rather than a property to state.
2. An abstract specification of the task log (a nested list of closed tasks) that `IttTasks`
   implements, and one of the registry (a set of names) for `IttRegistry`; `LoggedOnceNested`
   and `OneNodePerName` state most of what they would.
3. A merge while a traced process still writes.
4. Mean and median of the summary, with fractions as pairs.

## 3. What is modelled

A module `MCx` gives TLC the constants of module `x`. An operator whose comment begins with
"Variant" is a plausible mistake in the definition that follows it. The specifications do not
use them; substituting one for its definition shows that a property notices the mistake.
Variables named "history" in their comments record what happened for the properties; no
guard of the code's own steps reads them; bounds and the program's choices may.

### TraceFile, TraceBuffer, TraceBufferInv, TraceBufferProofs

`TraceFile` is the promise to the reader of a trace: calls are recorded, each is appended
once and in its thread's order, and the file is closed only when nothing is missing.

`TraceBuffer` is `chromelogger.h`. Threads in `Threads` make calls; `Exiter` runs
`~ChromeLogger`. The variables are the fields of the buffers (`finalized`, `flushed`,
`slice`, `next`, `slots`), the globals (`registered` = `trace_buffers_`, `lock`), the
loop in progress (`target`, `cursor`), the file, and two kinds of program counter
(`pc` of a thread, `main` of the destructor). An event is the pair (thread, number of the
call); the JSON text, the clock and the name are abstracted.

An action is the code between two points where another thread can interfere: taking the
lock, one iteration of a writing loop (`LogNext` serves the loops of `FlushHostBuffer`,
`Finalize` and `~TraceBuffer`, which are the same code), and each store to a plain field.
A function that makes several stores keeps those still to be made in `pending[t]` and may
make them in any order, which is what compiler and hardware may do: the fields are neither
atomic nor protected against the finalizing thread. `GetHostEvent` is `GetFree`,
`GetGrow` to `GrowEnd`, or `GetSpill` to `SpillEnd`; the body of the callback is `FillRecord`;
`BufferHostEvent` is `PublishIndex`, `PublishFlag`, `EndCall`, `Emit`. Thread exit is
`ExitFinalized`, `ExitFlushed`, `ExitBegin`/`ExitEnd`. The destructor is `BeginTeardown`,
`LockAll`, the walk (`VisitFlushed`, `VisitBegin`/`VisitEnd`), `UnlockAll`,
`CheckPosition`, then `LogFooter` and `DeleteLogger`, or `RemoveFile`.

What a store past the end of a slice overwrites is not modelled (`SlotInSlice` says
whether it can happen). Writes after the Logger's deletion go nowhere.

The constant `Quiescent` separates two environments: a program that has stopped calling
before it is torn down (normal exit), and one whose other threads go on (exit while threads
run, or teardown from a signal handler of another thread). `SliceCapacity`, `Bounded` and
`FlushImmediately` are functions of the thread: each buffer reads
`UNITRACE_ChromeEventBufferSize` when it is constructed (180-192), and the program may have
changed it since the last one did.

### UniControl

`unicontrol.h`. `itt_paused` and `env` are the two switches; `env` distinguishes unset, "0",
"1", the empty string and a null `environ` (after `clearenv`). A call is two actions, one per
store (`PauseFlag`, `PauseEnv`; `ResumeFlag`, `ResumeEnv`), so calls of several controllers
interleave; `ProgramWrites` is the program's own `setenv`. `IsCollectionEnabled` is the whole
test, as one read: what a reader of `environ` sees while `setenv` moves it is undefined
behaviour of the C library and left out.

### IttTasks

The task calls of one thread; `task_desc` is `thread_local`, so one thread is enough, with the
gate (`UniControl`) moving under it. `TaskBegin` pushes, `TaskEnd` and `TaskEndMpi` pop if the
gate is open and the domain on top is the one given (a null domain is the domain ""),
`MetadataAdd` is both metadata calls, `Marker` logs a record without duration, `Write` is the
buffer writing its oldest record and freeing its metadata. Metadata is a sequence of items
with the place of each: in the descriptor, in a block of its own, or in a list node; `heap`
holds the live blocks, `dropped` those of tasks that were popped and not logged, which nothing
frees. `open` and `given` are what the program thinks, `missed` whether it is wrong.

`LoggedOnceNested` holds whatever the pauses do; `Paired` says in addition that each record is
that of the task the program ended, with its metadata, as long as no call was ignored.

Names are model values, and shorter than the 510 characters the code copies; the oneCCL time is
added in `CclSummary`, the buffer between log and file is a queue.

### IttRegistry

Domains, string handles and events, by any number of threads. A create call is `Ask`, `Lock`,
then one action per list node (`SearchFound`, `SearchNext`, `SearchNew`), or `Push`, `Pushed`
and `Number` for an event; the last one unlocks and returns. `EventStart` and `EventEnd` do
not take the mutex. A program uses the events it was given, and -1 where it was given none.
`push_back` (`itt_collector.h:445`) lasts from `Push` to `Pushed`, and the end of an event lasts
from its checks (`EventEnd`) to the use of the name it reads (493, 496; `EventLogged`). If the
two overlap anywhere, the read is a data race: the end is `torn` and logs any name or `Garbage`.
(It may also end the process, after which nothing of this module happens.) `HandlesUsable`
therefore promises the event's own name only to ends that no `push_back` overlaps, and the check
of the range, which reads the count alone, to all. The gate is left out here: a call it stops
changes nothing.

### CclSummary, SummaryScript

`CclSummary`: `AddFunctionTime` for functions whose names are those of oneCCL and
`CclSummaryReport`, with the `std::set` it sorts in modelled by what its comparison
identifies. `report` is the table, which `TableMatchesCalls` compares with the calls; its `Rows` are in the
order that `Before` gives them. The
report is one step.

`SummaryScript` extends it to a job: `LogReport` turns the report of a process into a file of
lines and starts the next process; `summary.py` reads the files (`NextFile`, `Skip`,
`Heading`, `Stars`, `Total`, `Backend`, `Header`, `ReadRecord`, `EndTable`) and aggregates
(`WriteOutput`). `metrics` maps, per section, each name to its list of times and calls, as the
script's dictionaries do. A line is what the script can tell of it. The host and device sections are
what builds of the tool with those timings write (`T/test/*/gold`); a report has both or
neither. Mean and median need fractions and are left out, as is the removal of blanks.

### Launch, Lifecycle

`Launch` is the environment of a process and the functions on it: what the launcher makes of
it (`LaunchEnvironment`), what `Init` leaves to children (`AfterInit`), which options are read.
Two flags stand for those `ReadArgs` copies. The search for the library's file is left out.

`Lifecycle` follows a chain of programs, each started by the one before. `LoadNothing`, `Init`
(`InitMismatch`, or `InitHandlers`, `InitCreate`, `InitAssign`) get a program to `main`; `Launch` is the
launcher's exec, `Spawn` a program starting another (or a launcher), `Exit` and `Fini` its end,
`SignalArrives` the handler. An activation of `Teardown` is a frame on its thread's stack and
proceeds by `Check`, `Summary`, `DeleteCollector`, `DeleteChrome`, `FreeTracer`, `Clear` and
one of the returns. A signal is blocked while its handler runs on the same thread. With
`Overlap = FALSE` no teardown begins inside another, so a stack grows past one frame only by
handlers that are past their teardown; `lifecycle_nested` has the overlap.

`InitCreate` opens the trace (`tracer.h:104`) and `InitAssign` is the assignment of its result
(`tracer.cc:258`); the handlers are in place before both. A signal in between runs a `Teardown`
that finds `tracer` null. If its handler then ends the process, the trace stays open: the
process is "killed early", and `TornDownOnce` leaves just that ending out (section 6). The
installation of the six handlers is one step, so a handler that runs between a `signal` and the
assignment of what it returned is not in the model; it would find null and return, as one with
`SIG_DFL` does.

`SIG_DFL` is a null pointer, so the handler returns as if there had been none. `SIG_IGN` is 1,
and calling it is a jump to no code (`HandlerJumps`), which raises `SIGSEGV`. That has a handler
too (`JumpFaults`): if what it had saved is null it returns and the jump faults again, without
end; if it was running already, the system kills the process (`JumpKills`). An exit or a signal
therefore need not lead to an end, and no liveness is claimed. A fork without an exec is left out.

### Categories

`categorize.py` builds two trees from tags (`ReadDirect`, `ReadReverse`, `Build`),
`summary.py` walks them (`Categorize`, then `Descend`, `SearchReverse`, `Return`, one
iteration each). Each tag has a category of its own, so a wrong tag is a wrong category.
Exceptions are answers: `KeyError`, `ValueError`. `BuildSearchTree` is recursive, so this
module is model-checked only.

### MergeTrace

`mergetrace.py` and `uniview.py`, which treat a trace file alike: `OpenFile`, `Validate`,
`AddTags`, `Reload`, `Rollback`, then `WriteEvents` and `Finish` or `LoadTrace`. Files are
sequences of tokens. A view begins with the options (`Refused`), opens a server for the file
(`LoadTrace`, which fails if the port is taken), serves one request, whatever it is for
(`HandleRequest`), and becomes the metrics server (`ServeMetrics`) with the protocol that the
links in the trace ask for (`Linked`). The scripts are run again on what an earlier run left,
may be `Killed` anywhere, and completing or truncating a file may fail; `mishap` records the
two after which a file may keep a footer of no use. The five bytes of the footer are written
as a whole or not at all, and the traced processes have ended.

### Stalls

`AnalyzeStalls` and `WriteOutStallReport`. A kernel is a sequence of blocks of comments and
instructions; an instruction is its scoreboard tokens. `NextType`, `NotInAssembly`, `FindSbids`
and `OtherStall` are the loops over stall types and their rows with the limit
`numtopstalls`. The backward search is one item at a time: `LookAtInstruction` removes the
tokens it sets from the list that is iterated over (`RemoveWhileIterating`), `LookAtComment` is
the source of all that has none, `NextBlock` appends the predecessors to the list of blocks
while the loop goes through it, `ScanUpwards` continues in the order of the file once every
token is found, `GiveUp` is the end of the list. `PutPiece` and `LastPage` cut the report.
The choice of the `.asm` file, the demangler and the wording are left out.

### MetricsFile, MetricCharts, StallCharts, MetricServer, PerfMetrics

The rest of `analyzeperfmetrics.py`. `MetricsFile` has the file, a sequence of banners, header
lines, samples and blank rows, and `Frame`, which is `read_csv` of a device's section.
`MetricCharts` has `List` and the loops of `AnalyzePerfMetrics`, a row at a time, each with
its own marks as in the code: `ListRow`; `AllRow` for all instances of all kernels; `FindRow` and
`FindEnd` for one instance of a kernel or of each; `OneRow` and `OneUnterminated` for all
instances of a kernel. `StallCharts` has the loops of `AnalyzeStallMetrics`, which end a block of
rows where the name changes. `MetricServer` has the scan for sections, the start of the server
and `do_GET`, which tries the sections in turn. `PerfMetrics` is `main`: its checks and which
of the three it runs. A chart is the rows it shows and the kernel in its title; curves,
throughput charts (which are of the same rows) and labels are left out.

### Roofline

Both scripts. Several users run `roofline.py`: `CreateOutputDirectory` takes the time as its
name and uses a directory of that name if there is one; `RunUnitrace` is one of the two
profiling commands, whose outcome is not looked at; `MergeMetricsFiles` globs the files of a
group; `OpenMerged`, or `UseProfiles` for a user who has profiles; `ReadUnitraceReport`,
`Summary`, `PlotHtmlRoofline`; `RemoveOutputDirectory`, whose errors the code ignores: any part
of the directory may stay (`Remains`). `FileToJson` is the reader, with identical lines read
once. Two of the five precisions and two of the byte counts stand for the others; divisions by
zero end the script as in the code. Merging and reading are one step each, and a file has all of
its lines once it is there. Rates, what bounds a kernel, labels and the page around the points
are left out.

Runs that share a directory share its files. `OwnProfile` is about a run whose directory is its
own. `SharedProfile` is about the others while their companions are still profiling: the run has
all of its own samples, and besides them only samples of its companions. It says nothing once another
run merges or removes, which may take files or `flops.txt` away in between.

## 4. Runs

| Run | Module | Instance | Shows |
|---|---|---|---|
| `buffer_quiescent` | `MCTraceBuffer` | quiescent; a bounded buffer of 2 slots and an unbounded one with slices of 2, a thread each; 9 calls | types, file order, nothing lost, slots inside slices, `TraceFile` implemented |
| `buffer_racing` | `MCTraceBuffer` | racing; a bounded buffer of 2 slots, one that writes at once; 4 calls, fair | registry right in every interleaving, teardown ends, calls return, what was published survives |
| `buffer_racing_slot` | `MCTraceBuffer` | racing, 2 slots, 3 calls | **violated**: a slot outside the slice |
| `tasks` | `MCIttTasks` | 2 tasks or markers, 2 items, 2 domains, 2 controllers | records nest and nothing is logged twice, one owner per block, pairing and metadata; the gate's two rules |
| `registry` | `MCIttRegistry` | 2 threads, 2 names, 2 events, 2 starts, `push_back` racing with ends, fair | one node per name, handles usable, starts used once, mutex released |
| `lifecycle` | `MCLifecycle` | 2 threads, 2 signals, one of them `SIGSEGV`, 5 programs | torn down once and trace closed, following, launched means traced |
| `lifecycle_nested` | `MCLifecycle` | one signal inside another teardown | **violated**: the summary of a deleted collector |
| `summary` | `MCSummary` | 3 processes, 3 calls, 3 names, durations 0 and 5; or up to 3 direct tags of 5, 1 reverse tag of 3, names of up to 4 of 2 letters | table, comm section and output agree with the calls; the search answers what the sections say |
| `merge` | `MCMergeTrace` | 2 files of any content, one named twice; any options of the viewer; 3 runs | every event once and in order, inputs kept, views served |
| `stalls` | `MCStalls` | kernels of 3 blocks, 2 tokens, comments; 3 stall types and limits; pages of 4 lines | explanations sound and complete, source lines the closest, report and pages complete, the search ends |
| `metrics` | `MCPerfMetrics` | 3 instances with 0 to 2 blank rows after each, 1 to 3 devices, stall events; 2 samples a page | one instance per chart, listed are charted, stalls on sheets, answers |
| `roofline` | `MCRoofline` | 2 users, 2 times, applications of up to 2 processes, 4 given profiles | own samples, nothing lost in a shared directory, a point per kernel |

**Why the bounds are enough.** *Buffers*: a buffer is touched by its owner and by the
destructor only, and threads meet at the lock alone, so a second recording thread gives
every kind of contention; nine calls on slices of two fill, spill and grow several times;
four in the racing run reach a full slice, a spill and the call after. *Tasks*: two tasks on
one stack in two domains are the least in which an end can take the wrong one; two items reach
descriptor, block and list node; two controllers interleave all pairs of calls. *Registry*:
two threads race for one name and for a list's end; one kind of list is used, since the two
lists are the same code on different heads. *Summary*: three processes are the least that
separate the trimmed aggregates from the plain ones; durations of 0 reach the table that is
not written; the tags contain chains of prefixes, siblings and unrelated ones in both
directions. The two halves of the summary script share no state, so one run takes either.
*Lifecycle*: five programs are launcher, program, child, nested launcher and its program; the
six signals are treated alike, but for the one that a jump to no code raises: that and one other
suffice. *Merge*: a third run acts on what two earlier
ones left. *Stalls*: three blocks give branches, joins, loops with and without the stalled
block and unreachable blocks; comments are above and below what is found; sixteen checked
blocks are more than any search that ends needs (`SearchEnds` would fail otherwise). *Metrics*:
three instances put one before and one after any other; three devices are the least that have
one in an even position that is not the last. *Roofline*: two users and two times give shared
and separate directories; one kernel is in both profiles, one without time, one without
traffic. Deadlock is not checked: every one of these systems stops when its program has ended.

A module's type invariant is not run where a proof has it: the typing parts of `RegistryInv`,
`TasksTyped`, `KeptInv` and `PagesInv`, and `Typed` in `RooflineProofs`.

**Symmetry.** `tasks` permutes domains and controllers, `roofline` users and times, which no
property distinguishes; both check safety only. The runs with liveness use none.

**Fairness.** *Buffers* (`FairSpec`): nothing makes a thread call, exit or makes the program
end, so these are not fair; a thread inside the library is scheduled again, the loop of the
lock holder goes on, and so does a teardown that has begun. The mutex is not assumed fair:
calls are bounded, so contention ends. *Registry*: a thread inside a call goes on; the mutex is
not fair, which is why `MutexReleased` speaks of the holder. *Stalls*: the script runs on. The other
runs check safety only.

## 5. Proofs

Each theorem is for all constants that meet the named assumptions of its module, so for any
number of threads, names, programs, files or users. Every proof has the same shape: an
inductive invariant, one step per action that preserves it, below it one step per conjunct
the action can disturb, and the property as its consequence.

**`TraceBufferProofs`** (any slice capacity above zero and any of the three modes per thread).

* In every mode and interleaving, racing ones included: `TypeCorrect` (`TypeOK`) and
  `RegisteredCorrect` (`RegisteredIffLive`).
* For quiescent programs: `FileOrderCorrect`, `NothingLostCorrect`, `SlotInSliceCorrect`, and
  `Refinement` (`Spec => ImplementsTraceFile`).

The invariants are in `TraceBufferInv`. `LockInv` ties the lock, the two program counters, the
target of the loop and the registry together; it is enough for `RegisteredCorrect`. File order
and completeness are not inductive: one has to know which calls are where. `BufferInv` adds
that the newest `Held(t)` calls are, in order, in the slots, that the first `Gone(t)` of them
have been written by the loop in progress, and that the file holds exactly the first
`Written(t)`. Each property follows from it, and the refinement maps `LogNext` and `Emit` to
`Write`, `BeginCall` to `Record`, the end of the destructor to `Close`, and every other step
to a stutter.

**`IttCollectorProofs`** has the parts of the collector that a program calls. *The gate*:
`PauseCorrect`, `ResumeCorrect`, for any set of controllers, where tasks and gate run together.
What counts is which call wrote the flag: `OneCallCounts` says that while no other call has
overlapped the last one, the flag is what that call wrote, in progress or returned. It is
shown of `ControlSpec`, the gate alone; a step of the composition is one of the gate or leaves
it as it is (lemma `GateControlled`). *The tasks*: `LoggedOnceNestedCorrect`, `SingleOwnerCorrect`,
`PairedCorrect`. Nesting needs to know that the clock is ahead of everything, that the starts on
the stack increase, and that each logged interval is before or inside what is still open
(`Nested`); ownership that an item's number is new when it is attached and in one chain
afterwards (`Owned`); pairing that every item was attached by the call it is told from, and that
the stack is the one an unpaused program would have, each task with the items it was given
(`Accounted`).

*The registries*: `OneNodePerNameCorrect`, `HandlesUsableCorrect`, `StartsUsedOnceCorrect`.
`RegistryInv` has mutual exclusion (`MutexHeld`), that a search has compared every node behind
it (`CallsGoOn`), that the count of events is short of the vector by the one being added
(`EventsCounted`), that starts and logged times are behind the clock, and that a thread about to
use a name is about an event that was created and counted (`Readers`).

**`ReportProofs`** has what begins with the end of a process. *The lifecycle*: `NotFollowedCorrect` and `LaunchedCorrect` from what environments can be
inherited by whom (`PreloadInv`, `TracedInv`), for chains of any length; `TornDownOnceCorrect`
from the stage of the one teardown that can be in progress and from which frames found `tracer`
not yet assigned (`TeardownInv`). The last assumes
`Overlap = FALSE`, that no teardown begins inside another: without it the property is false,
as `lifecycle_nested` shows.

**`NatLemmas`** has what `ReportProofs` and the next four modules need of induction. The library's induction
theorems take an operator as their parameter, which the provers cannot instantiate; here a
predicate is a set and the step of a recursion a function (`LeastNat`, `UpTo`, `Recursion`).
The same for finite sets, from their cardinality: the sum of a function over one exists
(`SumExists`), is positive only if a member's value is (`SumPositive`) and does not depend on
the order in which the members are taken (`SumAnyOrder`, `SumOnOneMore`); and a finite set can
be listed in any total order of its members (`OrderExists`). Sums over the parts of a set add
up to the sum over it (`SumOnParts`), and its members may have other names (`SumOnNames`).
From these come facts about sequences: a finite set can be listed (`Enumerated`), and a flattened
sequence grows by one part at a time (`FlattenOneMore`) and has the members of its parts
(`FlattenMembers`).

*The oneCCL summary and the job's* (the rest of `ReportProofs`), for any functions and durations and any number of calls. `TableCorrect`
(`TableMatchesCalls`): `Tallied` says that the map has, for each function that was called,
exactly the numbers one would compute from the calls so far (`OneMoreCall` is what one call
changes in them), and for no other. Since the order of the table looks at totals, counts and
then names, two functions are never equivalent in it (`BeforeOrders`), so the set drops none
and has an order (`RowsInOrder`).

The other three theorems are about the job, for any number of processes, and have one
inductive invariant, `PipelineInv`. `PipelineTableCorrect` is the same property with processes
that follow each other.

* `CommCorrect` (`CommMatchesCalls`): `IsReport` says what a file looks like that reports given
  calls; every file does (`ReportMade`). `SectionAt` and `ModeAt` are the section and the mode
  of the reader after each line of such a file, and `Moved` is the one place where the lines of
  a report meet the labels the script looks for. `InFile` adds that the comm section has, for
  each function, the time of the files before (`SumBefore`) and of the rows read of this one
  (`RowsTime`). At the end of the last file that is the time of all calls (`MadeInAll`).
* `OutputCorrect` (`OutputComplete`): the output is `Written`, computed from what was read. The
  trimmed aggregates lie between the plain ones by `SortedIs` and `AggregateIs`; the sum of a
  category is that of its names (`CategoryTime`), and since each name has one category and each
  entry one name, the sums are those of a set and of its parts (`OutputFollows`).

**`MergeTraceProofs`**. `InputsKeptCorrect`: `KeptInv` says what the size that was taken has to
do with the file: it is the length before the footer, and that of the original if no earlier
run has left a footer behind; a file that could be read is never completed. `MergedCorrect`
(`MergedOnce`) and `ViewCorrect` (`ViewServed`), for any files and options: `FilesInv` adds what
the scripts can make of an input (`Extended`) and hence that the events that could be read of
it at the start still can; `Reads` defines the events to write for each number of inputs by
recursion, `Listed` and `Closed` how the output has them, and `MergeInv` that it has those of
the inputs before the one at hand. `ViewInv` says that what is loaded is what the file has.

**`PerfMetricsProofs`**, for files of any length and any number of devices, kernels and samples.
The assumption `FileAssumption` is what unitrace writes: banners, each with its header line
unless nothing follows (`Sectioned`), samples between two blank rows that are of one kernel,
and the stall samples of a kernel in one block (`OneBlockEach`).

* `PagesCorrect` (`PagesOfOneInstance`): `InAll` and `InLoop` say of each loop's marks that the
  rows since `start` are the beginning of one instance, and that an instance may start only
  where one does.
* `ListedCorrect` (`ListedAreCharted`): `ListInv` says that the count of a kernel is
  the number of its instances that end before the row looked at (`Rank`); `ChartedInv` says
  the same of the pages, or, where one instance is looked for, how many have begun.
* `SheetsCorrect` (`StallsOnSheets`): the sheets made so far show the events before `start`, in
  their order (`Sheeted`); `PagesNeeded` has the arithmetic of pages.
* `AnswerCorrect` (`AnswerComplete`): `ScanOk` says which sections the scan has found behind the
  line it is at, `SectionsOk` that they are those of `DeviceAt`, and `AnswerInv` that the
  sections tried before the one at hand had no answer.

**`RooflineProofs`**, for any number of users, times and profiles. The assumption
`ProfileAssumption` is what unitrace writes: lines of one group's kinds and, in a file of a
process, no sample before a header and no header before the marker. A profile that a user has
need not be in that order, nor of the right group.

* `OwnProfileCorrect` (`OwnProfile`): `RunInv` says that a directory no run has used does not
  exist (`Fresh`), and that a run alone in its directory finds there the files it wrote and
  what it merged of them (`OwnRun`). A merge has the samples of its files in whatever order
  they come (`MergedSamples`) and the reader finds them all (`ReadProfile`).
* `SharedProfileCorrect` (`SharedProfile`): `SharedRun` says that, while its companions are still
  profiling, a run finds in the directory all files it wrote and otherwise only theirs, and what
  it merged lies between the two (`Between`).
* `PointsCorrect` (`PointForEachKernel`): `ReadRun` has the order of the entries and
  `PlottedRun` the points; `SelectedMembers` says what a selection keeps of a sequence and
  `UsesPrecision` that an entry has operations only if a sample of its kernel has. That the
  precision is the most used one needs that the fold over the entries is the sum over the
  samples (`OperationsAdded`, `OperationsTotal`).

**`StallsProofs`**, for any kernel: any number of blocks, edges (loops and unreachable blocks
included), comments, tokens, stall types and any limit, any page size and width. The assumptions
are `ProgramAssumption`, that stalls are at instructions of the kernel and edges between its
blocks; `TokenAssumption`, that an instruction sets at most one token and waits for each once;
and `LayoutAssumption`, that lines have a length and pages room. `StallInvariant` is the
invariant, in three parts on top of the types (`Typed`).

* `StallsExplainedCorrect` (`StallsExplained`), from `SearchInv`. That each line found can run
  before the stall and sets a token it waits for is `Found`, with `ToCheck`: every block on the
  list leads to the stalled one. The converse is not inductive by itself: that a search which
  has ended, with a token still not found, has seen every instruction ahead. `Checked` says
  that nothing passed so far sets a token still looked for, and that the list has, for each block
  checked to its beginning, all of its predecessors. A list checked to its end is thus closed
  under predecessors and has all blocks ahead, however long the way (`AheadFacts`).
* `SourceIsClosestCorrect` (`SourceIsClosest`): `Sourced` ties the comment named to the comments
  passed since the line was found: none while it is unresolved, and otherwise the first of them
  (`Near` in its own block, `Far` above).
* `ReportCompleteCorrect` (`ReportComplete`): `ReportInv` says that the stalls reported so far are
  those of the types and rows gone through that have a place, in that order; `Named` that the
  report has the causes of the last one. `PagesInv` says what the pages have of the lines put so
  far: each piece once and in order, every page but the last full.

Model-checked only: liveness (`SearchEnds`, `MutexReleased` and the others; the
prover does no fairness); the racing environment of the trace buffers beyond `LockInv`; and
`Categories` (`CategoryAsExpected`), whose tree is a recursive operator.

## 6. Findings, divergences, limits

Two runs contradict a comment in the code:

* `buffer_racing_slot`: `chromelogger.h:420` calls the index the "next free host event in
  in-use slice". `Finalize` writes out a full bounded buffer from another thread and sets the
  flushed flag without resetting the index; an owner that had passed the `finalized_` check
  then gets the slot past the end. (`Quiescent` programs never do: `SlotInSliceCorrect`.)
* `lifecycle_nested`: `tracer.h:70`, "Print CCL summary before deleting the object".
  `tracer` is cleared only after its destructor has returned and `itt_collector` never, so a
  signal inside a teardown begins a second one on deleted objects.

Noticed while modelling, without a run of their own:

* `itt_collector.h:853`, `885`: list nodes of metadata are `malloc`ed and `isIndirectData` is
  not set, although `unievent.h:42` initialises it to false; `chromelogger.h:72` reads it.
* `itt_collector.h:847` drops metadata of type double, for which the table at 67 and after
  has a size. `Paired` excepts doubles for that reason.
* `itt_collector.h:493` and `496` read an event's name without the mutex while a `push_back`
  (445) may move the vector. An event is in the vector by then, as the comment says (488); that
  does not make the read safe. `HandlesUsable` excepts ends that a `push_back` overlaps.
* `tracer.cc:258`: a signal after `UniTracer::Create` has opened the trace and before its result
  is assigned leaves the trace open if the handler ends the process (`TornDownOnce`).
* `tracer.cc:182-216`: a saved `SIG_IGN` is called like a function. The fault is handled by the
  same handler, which returns to it for ever if nothing was saved for `SIGSEGV`.
* `itt_collector.h:165-166`: the comment speaks of an empty list, but functions that took no
  measurable time make no table either.
* `T/README.md:456` gives pause and resume precedence over the environment. Pause has it
  (`PausePrecedes`); after a resume a later write of the environment decides. An empty value
  leaves collection enabled, while the samples `T/test/cl_gemm/main.cc:164` and
  `T/test/ze_gemm/main.cc:191` write one to switch it off.
* `chromelogger.h:516-531`: footer, deletion and removal of the file happen after the lock
  that orders all other writes is released.
* `chromelogger.h:254`: an unbounded buffer that grows while it is finalized can be read half
  updated; what is lost is the call in progress, of which no document promises anything.
* `tracer.cc:261`: children of a program with `UNITRACE_FollowChildProcess=0` are kept from
  preloading the library, but `INTEL_LIBITTNOTIFY64` (`unitrace.cc:17`) still names it, so ITT
  may load it; and a launcher that ran with the library in it saves the wrong `LD_PRELOAD`.
  `NotFollowed` states what is left. A fork without an exec also duplicates buffered events.
* `summary.py:88`: a kernel whose name is a proper prefix of a tag can end the summary with a
  `KeyError`; `CategoryAsExpected` says when. `categorize.py:39`: a schema without both kinds of sections
  ends with a `ValueError`. `categorize.py:47`: a tag repeated in one direction replaces the
  earlier one; `CategoryAsExpected` is about schemas without repetitions.
* `mergetrace.py:76`: a merge of files without events undoes the list's bracket instead of a
  separator; the output is then not JSON. `MergedOnce` asks for JSON where there is an event.
* `analyzeperfmetrics.py:339` removes a token from the list that the loop goes through, so the
  token after it is passed over. That does no harm as long as an instruction sets one token:
  the invariant of `StallsProofs` needs `TokenAssumption` exactly there.
* `analyzeperfmetrics.py:325`: the search does not end when a token that nothing sets is looked
  for in a loop; `SearchEnds` is about the others. 353-369: source lines are taken from the next
  line comment met, which may belong to an unrelated block, whereas `T/README.md:344` promises
  the line of the cause; `SourceIsClosest` says when it is the closest one. 486: a stall of
  another type reads `source_line_stalled`, which nothing has assigned if the assembly has no
  source and no stall on a token came before (`ReportComplete`).
* `analyzeperfmetrics.py:1094` misspells `metric_sets_cleansed`'s element (`metrics_clenased`):
  all instances of a kernel (`-k`, as at `T/README.md:246`) end the script with a `NameError` if
  the last one has no blank row after it, and the PDF is left incomplete. With all kernels that
  instance is passed over, by its number it is charted (`ListedAreCharted`).
* `analyzeperfmetrics.py`: a second blank row charts the instance before it again, without a
  name (`PagesOfOneInstance`); the instances of one kernel are numbered once per set of metrics
  (1035).
* `analyzeperfmetrics.py:1375`: the banner that ends a section does not begin the next one, so
  the server does not look at devices in an even position except the last; 1438: a message ends
  the search in the other sections (`AnswerComplete`).
* `roofline.py:25-32` and `T/README.md:699-711` have the compute profile made with
  `ComputeBasic` and the memory profile with `VectorEngine138`; `roofline.py` itself does the
  opposite and `roofline_libs.py:44-60` needs the opposite: profiles made as documented end it
  with a `KeyError` (`ReadUnitraceReport`).
* `roofline.py:90`: runs in the same second share a directory and read each other's files;
  `OwnProfile` is about runs that do not, `SharedProfile` about what the others may rely on. 158:
  a removal that fails is ignored, though 159 reports it, and a run that fails leaves its directory.
  `roofline_libs.py:430` and 167: kernels without bytes or no kernel at all end it with a
  division by zero.

Hazards that no property covers are in `PROJECT.json` with the reason.

Not modelled: `loader/`, which unitrace does not use; `correlator.h` and the bound searches of
`utils.h`, which this build does not call; the generators, the build and the tests, which keep
no state; the empty ITT stubs; mean and median of the summary; curves, HTML and floating-point
values; the demangler; file names and the wording of records, reports and messages.
