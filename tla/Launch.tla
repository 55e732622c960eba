--------------------------------- MODULE Launch --------------------------------
(***************************************************************************)
(* The environment of a process, through which the launcher (unitrace.cc), *)
(* the tool library (tracer.cc) and the processes that a traced program    *)
(* starts talk to each other.  A variable that is unset and one that is    *)
(* empty are the same to utils::GetEnv, and so they are here.  Of the      *)
(* flags that ReadArgs copies, two stand for the others: one that needs a  *)
(* Chrome trace and one that does not.                                     *)
(***************************************************************************)
EXTENDS Sequences, SequencesExt

Flags == {"ChromeIttLogging", "CclSummaryReport"}

\* The names of the variables without UNITRACE_: VERSION is the version of the
\* launcher relative to that of the library.
Environment == [
  LD_PRELOAD           : Seq({"user", "tool"}),
  LD_PRELOAD_OLD       : Seq({"user", "tool"}),
  VERSION              : {"none", "same", "other"},
  flags                : SUBSET Flags,
  FollowChildProcess   : BOOLEAN,      \* not "0"
  TeardownOnSignal     : BOOLEAN,      \* "1"
  INTEL_LIBITTNOTIFY64 : BOOLEAN]      \* names the library

\* What a user's shell may hold.
UserEnvironments == [
  LD_PRELOAD : {<<>>, <<"user">>}, LD_PRELOAD_OLD : {<<>>}, VERSION : {"none"},
  flags : SUBSET Flags, FollowChildProcess : BOOLEAN, TeardownOnSignal : BOOLEAN,
  INTEL_LIBITTNOTIFY64 : {FALSE}]

Preloads(e) == Contains(e.LD_PRELOAD, "tool")

\* Variant for the mutation runs: the launcher sets no options.
ParseArgsNothing(e) == e

\* ParseArgs asks for an ITT trace whatever the command line says.
ParseArgs(e) ==
  [e EXCEPT !.flags = @ \cup {"ChromeIttLogging"}, !.INTEL_LIBITTNOTIFY64 = TRUE]

\* Variant: LD_PRELOAD is saved after it has been changed.
LaunchSavesLate(e, version) ==
  ParseArgs([e EXCEPT !.VERSION = version,
                      !.LD_PRELOAD_OLD = Append(e.LD_PRELOAD, "tool"),
                      !.LD_PRELOAD = Append(@, "tool")])

\* What main hands to the program it executes; the user's own libraries stay in
\* front.
LaunchEnvironment(e, version) ==
  ParseArgs([e EXCEPT !.VERSION = version,
                      !.LD_PRELOAD_OLD = e.LD_PRELOAD,
                      !.LD_PRELOAD = Append(@, "tool")])

VersionsDiffer(e) == e.VERSION = "other"

\* The flags that are set, one by one; no flags stand for the two timings.
ReadArgs(e) == e.flags
TraceOptions(flags) == IF flags = {} THEN {"HostTiming", "DeviceTiming"} ELSE flags

\* The constructor of UniTracer needs a ChromeLogger.
ChromeLogging(options) == "ChromeIttLogging" \in options

\* The end of Init: children of this process are to be left alone.
AfterInit(e) ==
  IF e.FollowChildProcess THEN e ELSE [e EXCEPT !.LD_PRELOAD = e.LD_PRELOAD_OLD]
================================================================================
