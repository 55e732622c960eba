------------------------------- MODULE MergeTrace ------------------------------
(***************************************************************************)
(* scripts/tracemerge/mergetrace.py merges trace files, scripts/uniview.py *)
(* shows one in a browser.  Both give a file that is not valid JSON the    *)
(* footer that its process did not live to write; if that does not help it *)
(* is truncated to the size it had.  The scripts share these files and are *)
(* run again when they fail or are killed.                                 *)
(*                                                                         *)
(* A file is a sequence of tokens: its header, whole events, the remains   *)
(* of a cut event, the footer.  Appending the footer's five bytes happens  *)
(* or fails as a whole.  The traced processes have ended.                  *)
(***************************************************************************)
EXTENDS Integers, SequencesExt

CONSTANTS
  Inputs,         \* inputFiles, the arguments, in order
  Linked,         \* traces whose links to metrics are "https://"
  RunBound        \* bound: runs of the scripts

ASSUME RunAssumption == RunBound \in Nat

InputFiles == {Inputs[k] : k \in DOMAIN Inputs}
ASSUME InputAssumption == Inputs \in Seq(InputFiles)

Token(kind) == [kind |-> kind]
Event(f, n) == [kind |-> "event", file |-> f, number |-> n]
Header == Token("header")
Footer == Token("footer")
Remains == Token("remains")
OtherJson == Token("other")

\* What an input can be: an empty file; the trace of a process that ended, that
\* was killed between two events, that was killed in an event; other JSON.
Contents(f) ==
  {<<>>, <<OtherJson>>,
   <<Header, Event(f, 1), Event(f, 2), Footer>>,
   <<Header, Event(f, 1)>>,
   <<Header, Event(f, 1), Remains>>}

IsTrace(c) ==
  /\ Len(c) > 2 /\ Head(c) = Header /\ Last(c) = Footer
  /\ \A k \in 2..(Len(c) - 1) : c[k].kind = "event"
Loads(c) == IsTrace(c) \/ c = <<OtherJson>>

\* data['traceEvents'], which other JSON does not have.
EventsIn(c) == IF IsTrace(c) THEN SubSeq(c, 2, Len(c) - 1) ELSE <<>>

VARIABLES
  disk,           \* the input files
  original,       \* history: what they were
  mishap,         \* history: a run was killed, or could not truncate a file
  script, args,   \* "merge" or "view", and its files
  pc, i,          \* where it is, and in which file
  fsize, data,    \* locals of the script; data survives from file to file
  out,            \* the output of a merge, or what the viewer got
  options,        \* of a view: what -m, -f and -s name
  server,         \* the metrics server that a view becomes: none, "http", "https"
  runs

inputs == <<disk, original, mishap>>
view == <<options, server>>
vars == <<inputs, script, args, pc, i, fsize, data, out, view, runs>>

\* Metrics by what is in their first lines, or that nothing is there; the other
\* two exist or not.
Options ==
  [metrics : {"none", "missing", "perf", "stall"}, config : {"none", "missing", "file"},
   shaderdump : {"none", "missing", "folder"}]
NoOptions == [metrics |-> "none", config |-> "none", shaderdump |-> "none"]

Init ==
  /\ original \in {c \in [InputFiles -> UNION {Contents(f) : f \in InputFiles}] :
                     \A f \in InputFiles : c[f] \in Contents(f)}
  /\ disk = original
  /\ mishap = FALSE
  /\ script = "merge" /\ args = <<>>
  /\ pc = "ended" /\ i = 1
  /\ fsize = 0 /\ data = <<>>
  /\ out = <<>>
  /\ options = NoOptions /\ server = "none"
  /\ runs = 0

\* What uniview.py checks before it looks at the trace: performance metrics need
\* a configuration, and both other options need metrics.
Refused(o) ==
  \/ o.metrics = "missing"
  \/ o.metrics = "perf" /\ o.config # "file"
  \/ o.metrics # "none" /\ o.shaderdump = "missing"
  \/ o.metrics = "none" /\ (o.config # "none" \/ o.shaderdump # "none")

Start(name, files, o) ==
  /\ pc \in {"ended", "failed"} /\ runs < RunBound
  /\ script' = name /\ args' = files
  /\ options' = o /\ server' = "none"
  /\ pc' = IF Refused(o) THEN "failed" ELSE "file"
  /\ i' = 1
  /\ data' = <<>>
  /\ out' = IF name = "merge" THEN <<Token("open"), Token("bracket")>> ELSE <<>>
  /\ runs' = runs + 1
  /\ UNCHANGED <<inputs, fsize>>

File == args[i]

\* A file that cannot be used is skipped; uniview.py has no other and gives up.
Skip ==
  /\ i' = i + 1
  /\ pc' = IF script = "merge" THEN "file" ELSE "failed"

OpenFile ==
  /\ pc = "file" /\ i <= Len(args)
  /\ fsize' = Len(disk[File])
  /\ IF fsize' = 0 THEN Skip ELSE pc' = "validate" /\ UNCHANGED i
  /\ UNCHANGED <<inputs, script, args, data, out, view, runs>>

Load(otherwise) ==
  /\ IF Loads(disk[File])
     THEN data' = disk[File] /\ pc' = "write"
     ELSE pc' = otherwise /\ UNCHANGED data
  /\ UNCHANGED <<inputs, script, args, i, fsize, out, view, runs>>

Validate == pc = "validate" /\ Load("tags")
Reload == pc = "reload" /\ Load("rollback")

\* The write reaches the file when it is closed, which is outside the try: an
\* error ends the script.
AddTags ==
  /\ pc = "tags"
  /\ \/ disk' = [disk EXCEPT ![File] = Append(@, Footer)] /\ pc' = "reload"
     \/ pc' = "failed" /\ UNCHANGED disk
  /\ UNCHANGED <<original, mishap, script, args, i, fsize, data, out, view, runs>>

\* Variant for the mutation runs: the events of the last file that could be read
\* are written instead.
RollbackAndWrite ==
  /\ pc = "rollback"
  /\ disk' = [disk EXCEPT ![File] = SubSeq(@, 1, fsize)]
  /\ pc' = "write"
  /\ UNCHANGED <<original, mishap, script, args, i, fsize, data, out, view, runs>>

\* Variant: the size is taken after the footer was added.
RollbackTooLate ==
  /\ pc = "rollback"
  /\ disk' = [disk EXCEPT ![File] = SubSeq(@, 1, Len(@))]
  /\ Skip
  /\ UNCHANGED <<original, mishap, script, args, fsize, data, out, view, runs>>

Rollback ==
  /\ pc = "rollback"
  /\ \/ disk' = [disk EXCEPT ![File] = SubSeq(@, 1, fsize)] /\ UNCHANGED mishap
     \/ mishap' = TRUE /\ UNCHANGED disk
  /\ Skip
  /\ UNCHANGED <<original, script, args, fsize, data, out, view, runs>>

\* merge: each event and a separator.
Separated(events) ==
  [n \in 1..(2 * Len(events)) |-> IF n % 2 = 1 THEN events[(n + 1) \div 2] ELSE Token("comma")]

WriteEvents ==
  /\ pc = "write" /\ script = "merge"
  /\ out' = out \o Separated(EventsIn(data))
  /\ i' = i + 1
  /\ pc' = "file"
  /\ UNCHANGED <<inputs, script, args, fsize, data, view, runs>>

\* The last two characters, a separator or the bracket of the list, are undone.
Finish ==
  /\ pc = "file" /\ i > Len(args)
  /\ out' = Front(out) \o <<Token("unbracket"), Token("close")>>
  /\ pc' = "ended"
  /\ UNCHANGED <<inputs, script, args, i, fsize, data, view, runs>>

\* view: a server for the file is opened, unless another has the port, and a
\* browser that asks it.
LoadTrace ==
  /\ pc = "write" /\ script = "view"
  /\ pc' \in {"serve", "failed"}
  /\ UNCHANGED <<inputs, script, args, i, fsize, data, out, view, runs>>

\* A POST is not answered; any other request is the last, whatever it asks for.
HandleRequest ==
  /\ pc = "serve"
  /\ \/ UNCHANGED <<out, pc>>
     \/ pc' = "metrics" /\ out' \in {disk[File], <<>>}
  /\ UNCHANGED <<inputs, script, args, i, fsize, data, view, runs>>

\* Variant for the mutation runs: always http.
ServeHttp ==
  /\ pc = "metrics"
  /\ server' = IF options.metrics = "none" THEN "none" ELSE "http"
  /\ pc' = "ended"
  /\ UNCHANGED <<inputs, script, args, i, fsize, data, out, options, runs>>

\* apm.main, with -p or -q as the links ask for.
ServeMetrics ==
  /\ pc = "metrics"
  /\ server' = IF options.metrics = "none" THEN "none"
               ELSE IF File \in Linked THEN "https" ELSE "http"
  /\ pc' = "ended"
  /\ UNCHANGED <<inputs, script, args, i, fsize, data, out, options, runs>>

Killed ==
  /\ pc \notin {"ended", "failed"}
  /\ pc' = "failed"
  /\ mishap' = TRUE
  /\ UNCHANGED <<disk, original, script, args, i, fsize, data, out, view, runs>>

Next ==
  \/ Start("merge", Inputs, NoOptions)
  \/ \E f \in InputFiles, o \in Options : Start("view", <<f>>, o)
  \/ OpenFile \/ Validate \/ AddTags \/ Reload \/ Rollback \/ WriteEvents \/ Finish
  \/ LoadTrace \/ HandleRequest \/ ServeMetrics \/ Killed

Spec == Init /\ [][Next]_vars

--------------------------------------------------------------------------------
\* The events of an input that a reader could get from it, and of the first n.
Readable(f) == EventsIn(IF Loads(original[f]) THEN original[f] ELSE Append(original[f], Footer))
WantedOf[n \in 0..Len(Inputs)] == IF n = 0 THEN <<>> ELSE WantedOf[n - 1] \o Readable(Inputs[n])
Wanted == WantedOf[Len(Inputs)]

\* A merge that ends has every event of every input that can be read once, and
\* in order, whatever earlier runs did to the files, were killed in or failed
\* at; they are between the brackets of a list, with separators between them.
\* A list without events is one that lacks the bracket that opens it.
MergedOnce ==
  pc = "ended" /\ runs > 0 /\ script = "merge" =>
    /\ Len(out) = 2 * Len(Wanted) + 3
    /\ \A k \in 1..Len(Wanted) :
         /\ out[2 * k] = Token(IF k = 1 THEN "bracket" ELSE "comma")
         /\ out[2 * k + 1] = Wanted[k]
    /\ out[1] = Token("open")
    /\ out[Len(out) - 1] = Token("unbracket") /\ out[Len(out)] = Token("close")

\* A view that gets as far as its server had a trace with all events that could
\* be read, gives the browser that trace or nothing, and becomes a metrics server
\* just if there are metrics, of the protocol that the links of the trace have.
ViewServed ==
  pc \in {"serve", "metrics", "ended"} /\ script = "view" =>
    /\ Loads(disk[File]) /\ EventsIn(disk[File]) = Readable(File)
    /\ out \in {<<>>, disk[File]}
    /\ options.metrics \in {"none", "perf", "stall"}
    /\ pc = "ended" =>
         server = IF options.metrics = "none" THEN "none"
                  ELSE IF args[1] \in Linked THEN "https" ELSE "http"

\* No script takes anything from an input, none changes a complete one, and,
\* unless it is killed or cannot truncate, it leaves a file that it could not
\* complete as it was.
InputsKept ==
  \A f \in InputFiles :
    /\ IsPrefix(original[f], disk[f])
    /\ Loads(original[f]) => disk[f] = original[f]
    /\ ~mishap /\ pc \notin {"reload", "rollback"} =>
         disk[f] = original[f] \/ IsTrace(disk[f])
================================================================================
