------------------------------- MODULE Lifecycle -------------------------------
(***************************************************************************)
(* unitrace.cc, tracer.cc and tracer.h: a process from the start of its    *)
(* program to its end, with the tool library in it or not.                 *)
(*                                                                         *)
(* The launcher prepares the environment (Launch.tla) and executes the     *)
(* program in its own process.  The library's constructor, Init, puts      *)
(* HandleAbnormalTermination in front of the handlers of six signals, on   *)
(* request, and creates the UniTracer; Fini, at exit, and that handler     *)
(* both call Teardown, which deletes the UniTracer and with it the ITT     *)
(* collector and the ChromeLogger.  A program may start another one: the   *)
(* model follows the child.                                                *)
(*                                                                         *)
(* An activation of Teardown, by Fini or by the handler, is a frame on its *)
(* thread's stack until its caller returns.  A signal arrives on any       *)
(* thread, between any two steps, of Init as well, and also on top of a    *)
(* frame; while its handler runs a thread does not get the same signal     *)
(* again.                                                                  *)
(***************************************************************************)
EXTENDS Integers, Launch

CONSTANTS
  Threads,      \* threads of a program
  Main,         \* the one that returns from main and runs Fini
  Signals,      \* the signals of Init
  Fault,        \* the one that a jump to no code raises: SIGSEGV
  Overlap,      \* a teardown may begin while another one is in progress
  StartBound    \* bound: programs started after the first

ASSUME MainAssumption == Main \in Threads
ASSUME FaultAssumption == Fault \in Signals /\ "fini" \notin Signals
ASSUME OptionAssumption == Overlap \in BOOLEAN
ASSUME BoundAssumption == StartBound \in Nat

VARIABLES
  image,        \* the program: "launcher" or "program"
  origin,       \* how it was started; see Origins
  nested,       \* a launcher ran with the library in it and left it preloaded
  starts,       \* programs started
  env,          \* its environment
  process,      \* "exec", "init", "created", "running", "exiting", then "ended",
                \* "killed", or "killed early": by a handler that had come before
                \* Init assigned tracer
  loaded,       \* how the library got into it: "not", "preloaded" or, by ITT, "asked"
  disposition,  \* what the system does on each signal
  saved,        \* the previous handlers: sigint_handler and the others
  tracer,       \* whether the pointer is set
  object,       \* the objects on the heap
  deletes,      \* how often each was deleted
  frames,       \* activations of Teardown on each thread, the newest last
  reports,      \* reports logged
  staleRead     \* a deleted collector was asked for its summary

program == <<image, origin, nested, starts, env>>
handlers == <<disposition, saved>>
heap == <<object, deletes, reports, staleRead>>
vars == <<program, process, loaded, handlers, tracer, heap, frames>>

Objects == {"tracer", "collector", "chrome"}
Handlers == {"default", "ignore", "function"}
Origins == {"shell",        \* by the user
            "launched",     \* by the launcher
            "followed",     \* by a traced program whose children are followed
            "unfollowed",   \* by one whose children are not
            "untraced"}     \* by a program without the library

Blank(n) == [o \in Objects |-> n]

ProgramStart ==
  /\ image \in {"launcher", "program"}
  /\ origin = "shell"
  /\ nested = FALSE
  /\ starts = 0
  /\ env \in UserEnvironments
  /\ process = "exec"
  /\ loaded = "not"
  /\ disposition \in [Signals -> Handlers]
  /\ saved = [s \in Signals |-> "default"]
  /\ tracer = FALSE
  /\ object = Blank("absent")
  /\ deletes = Blank(0)
  /\ frames = [t \in Threads |-> <<>>]
  /\ reports = 0
  /\ staleRead = FALSE

--------------------------------------------------------------------------------
(* From the start of a program to main.                                    *)

\* The dynamic loader finds no library to preload.
LoadNothing ==
  /\ process = "exec"
  /\ ~Preloads(env)
  /\ process' = "running"
  /\ UNCHANGED <<program, loaded, handlers, tracer, heap, frames>>

\* The library gets into the process: preloaded, or asked for by the static part
\* of ITT in the program, if the dynamic loader finds it by its name alone.
Loading ==
  \/ /\ process = "exec" /\ Preloads(env)
     /\ loaded' = "preloaded"
  \/ /\ process = "running" /\ loaded = "not"
     /\ image = "program" /\ env.INTEL_LIBITTNOTIFY64
     /\ loaded' = "asked"

\* Init: exit(-1), with no tracer to tear down.
InitMismatch ==
  /\ Loading
  /\ VersionsDiffer(env)
  /\ process' = "ended"
  /\ UNCHANGED <<program, handlers, tracer, heap, frames>>

InitHandlers ==
  /\ Loading
  /\ ~VersionsDiffer(env)
  /\ process' = "init"
  /\ IF env.TeardownOnSignal
       THEN /\ disposition' = [s \in Signals |-> "teardown"]
            /\ saved' = disposition
       ELSE UNCHANGED handlers
  /\ UNCHANGED <<program, tracer, heap, frames>>

\* UniTracer::Create, whose collector exists in every mode: the trace is open and
\* tracer is still null.  Handlers may run, on this thread between the steps.
InitCreate ==
  /\ process = "init"
  /\ frames[Main] = <<>>
  /\ object' = [o \in Objects |-> IF o = "chrome" /\ ~ChromeLogging(TraceOptions(ReadArgs(env))) THEN "absent" ELSE "live"]
  /\ process' = "created"
  /\ UNCHANGED <<program, loaded, handlers, tracer, deletes, reports, staleRead, frames>>

\* Its result is assigned; what Init leaves to the children.
InitAssign ==
  /\ process = "created"
  /\ frames[Main] = <<>>
  /\ tracer' = TRUE
  /\ env' = AfterInit(env)
  /\ process' = "running"
  /\ UNCHANGED <<image, origin, nested, starts, loaded, handlers, heap, frames>>

Init == InitMismatch \/ InitHandlers \/ InitCreate \/ InitAssign

--------------------------------------------------------------------------------
(* Programs that start programs.                                           *)

Initializing == process \in {"init", "created"}
Alive == Initializing \/ process \in {"running", "exiting"}

\* early: it found no tracer because Init had not assigned it yet.
Frame(why) == [why |-> why, at |-> "check", early |-> FALSE]

\* Back from Teardown: in the caller, or in the previous handler.
Done(frame) == frame.at \in {"resume", "fault"}
InTeardown(t) == \E i \in DOMAIN frames[t] : ~Done(frames[t][i])
Interruptible == Overlap \/ \A t \in Threads : ~InTeardown(t)

\* The address space of a program that has just been executed: handlers that
\* are functions are gone, those the new program's libraries install are not.
Fresh ==
  /\ process' = "exec"
  /\ loaded' = "not"
  /\ disposition' \in [Signals -> Handlers]
  /\ saved' = [s \in Signals |-> "default"]
  /\ tracer' = FALSE
  /\ object' = Blank("absent")
  /\ deletes' = Blank(0)
  /\ frames' = [t \in Threads |-> <<>>]
  /\ reports' = 0
  /\ staleRead' = FALSE

AtWork(t) == process = "running" /\ frames[t] = <<>> /\ starts < StartBound

\* The launcher's main executes the program in its place: what the library did
\* in the launcher is dropped without a teardown.
Launch ==
  /\ AtWork(Main)
  /\ image = "launcher"
  /\ \E version \in {"same", "other"} : env' = LaunchEnvironment(env, version)
  /\ image' = "program"
  /\ origin' = "launched"
  /\ nested' = (nested \/ Preloads(env))
  /\ starts' = starts + 1
  /\ Fresh

\* A program starts another one, or a launcher; on the way the variable that
\* the children are followed by may be changed.
Spawn ==
  /\ \E t \in Threads : AtWork(t)
  /\ image = "program"
  /\ image' \in {"launcher", "program"}
  /\ \E follow \in BOOLEAN : env' = [env EXCEPT !.FollowChildProcess = follow]
  /\ origin' = IF loaded = "not" THEN "untraced"
               ELSE IF env.FollowChildProcess THEN "followed" ELSE "unfollowed"
  /\ starts' = starts + 1
  /\ UNCHANGED nested
  /\ Fresh

Push(t, why) == frames' = [frames EXCEPT ![t] = Append(@, Frame(why))]

\* The program ends without the library; so does a launcher that could not
\* execute anything.
Exit ==
  /\ process = "running"
  /\ loaded = "not"
  /\ process' = "ended"
  /\ UNCHANGED <<program, loaded, handlers, tracer, heap, frames>>

Fini ==
  /\ process = "running"
  /\ loaded # "not"
  /\ frames[Main] = <<>>
  /\ Interruptible
  /\ process' = "exiting"
  /\ Push(Main, "fini")
  /\ UNCHANGED <<program, loaded, handlers, tracer, heap>>

Blocked(t, sig) == \E i \in DOMAIN frames[t] : frames[t][i].why = sig

\* HandleAbnormalTermination begins.
SignalArrives(t, sig) ==
  /\ Alive
  /\ disposition[sig] = "teardown"
  /\ Interruptible
  /\ ~Blocked(t, sig)
  /\ Push(t, sig)
  /\ UNCHANGED <<program, process, loaded, handlers, tracer, heap>>

--------------------------------------------------------------------------------
(* Teardown, on top of a thread's stack.                                   *)

Top(t) == frames[t][Len(frames[t])]
At(t, where) == Alive /\ frames[t] # <<>> /\ Top(t).at = where
Step(t, where) == frames' = [frames EXCEPT ![t][Len(frames[t])].at = where]

\* Deleting an object a second time leaves it deleted (and the heap damaged).
Delete(o) ==
  /\ object' = [object EXCEPT ![o] = "deleted"]
  /\ deletes' = [deletes EXCEPT ![o] = @ + 1]

\* Variant: the pointer is not tested.
CheckNot(t) ==
  /\ At(t, "check")
  /\ Step(t, "summary")
  /\ UNCHANGED <<program, process, loaded, handlers, tracer, heap>>

Check(t) ==
  /\ At(t, "check")
  /\ frames' = [frames EXCEPT ![t][Len(frames[t])] =
                  [@ EXCEPT !.at = IF tracer THEN "summary" ELSE "resume",
                            !.early = ~tracer /\ Initializing]]
  /\ UNCHANGED <<program, process, loaded, handlers, tracer, heap>>

\* ~UniTracer: the report, and the summary of a collector that is never nulled.
Summary(t) ==
  /\ At(t, "summary")
  /\ reports' = reports + 1
  /\ staleRead' = (staleRead \/ object["collector"] # "live")
  /\ Step(t, "collector")
  /\ UNCHANGED <<program, process, loaded, handlers, tracer, object, deletes>>

DeleteCollector(t) ==
  /\ At(t, "collector")
  /\ Delete("collector")
  /\ Step(t, "chrome")
  /\ UNCHANGED <<program, process, loaded, handlers, tracer, reports, staleRead>>

\* ~ChromeLogger: TraceBuffer.tla.
DeleteChrome(t) ==
  /\ At(t, "chrome")
  /\ IF object["chrome"] # "absent" THEN Delete("chrome") ELSE UNCHANGED <<object, deletes>>
  /\ Step(t, "free")
  /\ UNCHANGED <<program, process, loaded, handlers, tracer, reports, staleRead>>

FreeTracer(t) ==
  /\ At(t, "free")
  /\ Delete("tracer")
  /\ Step(t, "clear")
  /\ UNCHANGED <<program, process, loaded, handlers, tracer, reports, staleRead>>

Clear(t) ==
  /\ At(t, "clear")
  /\ tracer' = FALSE
  /\ Step(t, "resume")
  /\ UNCHANGED <<program, process, loaded, handlers, heap>>

NoFrames == frames' = [u \in Threads |-> <<>>]

FiniReturns(t) ==
  /\ At(t, "resume")
  /\ Top(t).why = "fini"
  /\ process' = "ended"
  /\ NoFrames
  /\ UNCHANGED <<program, loaded, handlers, tracer, heap>>

\* The handler has called what it had saved for its signal.
InHandler(t, handler) == At(t, "resume") /\ Top(t).why # "fini" /\ saved[Top(t).why] = handler

\* SIG_DFL is a null pointer: the handler returns as if the signal had been
\* handled.  A function may return too.  What was interrupted goes on; if it was
\* a jump to no code, it jumps again.
HandlerReturns(t) ==
  /\ InHandler(t, "default") \/ InHandler(t, "function")
  /\ frames' = [frames EXCEPT ![t] = SubSeq(@, 1, Len(@) - 1)]
  /\ UNCHANGED <<program, process, loaded, handlers, tracer, heap>>

Killed(t) ==
  /\ process' = IF Top(t).early THEN "killed early" ELSE "killed"
  /\ NoFrames
  /\ UNCHANGED <<program, loaded, handlers, tracer, heap>>

\* The previous function ends the process.
HandlerKills(t) == InHandler(t, "function") /\ Killed(t)

\* SIG_IGN is the address 1.
HandlerJumps(t) ==
  /\ InHandler(t, "ignore")
  /\ Step(t, "fault")
  /\ UNCHANGED <<program, process, loaded, handlers, tracer, heap>>

\* The jump raises a signal that is handled like the others, and kills the process
\* if it is being handled already.
JumpFaults(t) ==
  /\ At(t, "fault")
  /\ ~Blocked(t, Fault)
  /\ Interruptible
  /\ Push(t, Fault)
  /\ UNCHANGED <<program, process, loaded, handlers, tracer, heap>>

JumpKills(t) == At(t, "fault") /\ Blocked(t, Fault) /\ Killed(t)

TeardownStep(t) ==
  \/ Check(t) \/ Summary(t) \/ DeleteCollector(t) \/ DeleteChrome(t) \/ FreeTracer(t)
  \/ Clear(t) \/ FiniReturns(t) \/ HandlerReturns(t) \/ HandlerKills(t)
  \/ HandlerJumps(t) \/ JumpFaults(t) \/ JumpKills(t)

Next ==
  \/ LoadNothing \/ Init \/ Launch \/ Spawn \/ Exit \/ Fini
  \/ \E t \in Threads : TeardownStep(t) \/ \E sig \in Signals : SignalArrives(t, sig)

Spec == ProgramStart /\ [][Next]_vars

--------------------------------------------------------------------------------
\* However many signals arrive before, after or instead of the exit, the
\* objects are deleted once, and the summary is logged once; a process that ends
\* by itself or in a signal handler has closed its trace, unless that handler's
\* Teardown found tracer null because Init had not assigned it: then the trace may
\* be open already, and nobody closes it.
TornDownOnce ==
  /\ reports <= 1 /\ \A o \in Objects : deletes[o] <= 1
  /\ process \in {"ended", "killed"} => object["chrome"] # "live"

\* "Print CCL summary before deleting the object" (tracer.h:70).
SummaryBeforeDelete == ~staleRead

\* "to prevent the unitrace library from being loaded and this Init() function
\* being called in a child process" (tracer.cc:261): what a traced program
\* starts with UNITRACE_FollowChildProcess=0 does not get the library preloaded,
\* nor does what that starts, up to a launcher on the way.  Two ways are left:
\* ITT may ask for it by its name, and a launcher that was itself started with
\* the library, and leaves it in LD_PRELOAD, saves that as the user's setting.
NotFollowed ==
  origin \in {"unfollowed", "untraced"} /\ ~nested => loaded # "preloaded"

\* What the launcher starts has a Chrome trace, in every environment the
\* launcher may find, or is refused for its version.
LaunchedIsTraced ==
  origin = "launched" /\ process = "running" => loaded = "preloaded" /\ object["chrome"] # "absent"
================================================================================
