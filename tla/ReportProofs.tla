------------------------------ MODULE ReportProofs -----------------------------
(***************************************************************************)
(* From the start of a process to what is made of its report.  For any     *)
(* number of threads, signals and programs that start programs, the        *)
(* library is torn down once (Lifecycle.tla).  The table of a oneCCL       *)
(* summary says what one would compute from the calls, and the script that *)
(* reads the reports of a job's processes takes every measured time from   *)
(* them once, whatever sections they have (SummaryScript.tla).             *)
(***************************************************************************)
EXTENDS Lifecycle, SummaryScript, NatLemmas, FiniteSetTheorems, SequenceTheorems, TLAPS

--------------------------------------------------------------------------------
(* Who gets the library preloaded.                                         *)

\* An environment the library is not to be found in, neither now nor after Init
\* has restored what the launcher saved.
SavedForUser(e) == ~Contains(e.LD_PRELOAD_OLD, "tool")

Started == origin \in {"unfollowed", "untraced"}

\* What a program inherits follows from how its parent was started: without the
\* library it never had the variable, and with it Init has taken it out unless
\* children are followed.
PreloadInv ==
  /\ env \in Environment
  /\ ~nested => SavedForUser(env)
  /\ Initializing => loaded # "not"
  /\ process = "running" /\ loaded = "not" => ~Preloads(env)
  /\ process = "running" /\ loaded # "not" /\ ~env.FollowChildProcess /\ ~nested => ~Preloads(env)
  /\ Started /\ ~nested => ~Preloads(env) /\ loaded # "preloaded"

LEMMA UserTyped ==
  ASSUME NEW e \in UserEnvironments
  PROVE  e \in Environment /\ SavedForUser(e)
<1>1. <<>> \in Seq({"user", "tool"}) /\ <<"user">> \in Seq({"user", "tool"})
  OBVIOUS
<1>2. e \in Environment
  BY <1>1 DEF UserEnvironments, Environment, Flags
<1>3. e.LD_PRELOAD_OLD = <<>>
  BY DEF UserEnvironments
<1> QED
  BY <1>2, <1>3 DEF SavedForUser, Contains

LEMMA LaunchEnvironmentFacts ==
  ASSUME NEW e \in Environment, NEW version \in {"same", "other"}
  PROVE  LET f == LaunchEnvironment(e, version) IN
         /\ f \in Environment
         /\ f.LD_PRELOAD_OLD = e.LD_PRELOAD
         /\ Preloads(f)
         /\ "ChromeIttLogging" \in f.flags
<1> DEFINE f == LaunchEnvironment(e, version)
           l == e.LD_PRELOAD
<1>1. l \in Seq({"user", "tool"})
  BY DEF Environment
<1>2. Append(l, "tool") \in Seq({"user", "tool"}) /\ Len(Append(l, "tool")) = Len(l) + 1
  BY <1>1, AppendProperties
<1>3. Append(l, "tool")[Len(l) + 1] = "tool" /\ Len(l) \in Nat
  BY <1>1, AppendProperties, LenProperties
<1>4. Contains(Append(l, "tool"), "tool")
  BY <1>2, <1>3 DEF Contains
<1>5. /\ f.LD_PRELOAD = Append(l, "tool") /\ f.LD_PRELOAD_OLD = l
      /\ f.flags = e.flags \cup {"ChromeIttLogging"}
      /\ f \in Environment
  BY <1>1, <1>2 DEF LaunchEnvironment, ParseArgs, Environment, Flags
<1> QED
  BY <1>4, <1>5 DEF Preloads

LEMMA AfterInitFacts ==
  ASSUME NEW e \in Environment
  PROVE  /\ AfterInit(e) \in Environment
         /\ AfterInit(e).LD_PRELOAD_OLD = e.LD_PRELOAD_OLD
         /\ AfterInit(e).FollowChildProcess = e.FollowChildProcess
         /\ AfterInit(e).flags = e.flags
         /\ e.FollowChildProcess => AfterInit(e) = e
         /\ ~e.FollowChildProcess => AfterInit(e).LD_PRELOAD = e.LD_PRELOAD_OLD
BY DEF AfterInit, Environment

Endings == {"ended", "killed", "killed early"}

LEMMA PreloadInit == ProgramStart => PreloadInv
  BY UserTyped DEF ProgramStart, PreloadInv, Started, Initializing

LEMMA PreloadNext == PreloadInv /\ [Next]_vars => PreloadInv'
<1> SUFFICES ASSUME PreloadInv, [Next]_vars PROVE PreloadInv'
  OBVIOUS
<1>1. CASE LoadNothing
  BY <1>1 DEF LoadNothing, program, Initializing, PreloadInv, Started, Preloads, SavedForUser
<1>2. CASE InitMismatch
  BY <1>2 DEF InitMismatch, Loading, program, Initializing, PreloadInv, Started, Preloads, SavedForUser
<1>3. CASE InitHandlers
  BY <1>3 DEF InitHandlers, Loading, program, Initializing, PreloadInv, Started, Preloads, SavedForUser
<1>13. CASE InitCreate
  BY <1>13 DEF InitCreate, program, Initializing, PreloadInv, Started, Preloads, SavedForUser
<1>4. CASE InitAssign
  <2>1. env' = AfterInit(env) /\ UNCHANGED <<origin, nested, loaded>>
    BY <1>4 DEF InitAssign
  <2>2. env \in Environment
    BY DEF PreloadInv
  <2>3. env' \in Environment /\ env'.LD_PRELOAD_OLD = env.LD_PRELOAD_OLD
    BY <2>1, <2>2, AfterInitFacts
  <2>4. ~nested' => SavedForUser(env')
    BY <2>1, <2>3 DEF PreloadInv, SavedForUser
  <2>5. env.FollowChildProcess => env' = env
    BY <2>1, <2>2, AfterInitFacts
  <2>6. env'.FollowChildProcess = env.FollowChildProcess
    BY <2>1, <2>2, AfterInitFacts
  <2>7. ~env.FollowChildProcess /\ ~nested => ~Preloads(env')
    BY <2>1, <2>2, AfterInitFacts DEF PreloadInv, SavedForUser, Preloads
  <2>8. env.FollowChildProcess \in BOOLEAN
    BY <2>2 DEF Environment
  <2>9. loaded # "not"
    BY <1>4 DEF InitAssign, Initializing, PreloadInv
  <2> QED
    BY <1>4, <2>1, <2>3, <2>4, <2>5, <2>6, <2>7, <2>8, <2>9 DEF PreloadInv, Started, InitAssign, Initializing
<1>5. CASE Launch
  <2>1. PICK version \in {"same", "other"} : env' = LaunchEnvironment(env, version)
    BY <1>5 DEF Launch
  <2>2. /\ origin' = "launched" /\ nested' = (nested \/ Preloads(env))
        /\ process' = "exec" /\ loaded' = "not"
    BY <1>5 DEF Launch, Fresh
  <2>3. env' \in Environment /\ env'.LD_PRELOAD_OLD = env.LD_PRELOAD
    BY <2>1, LaunchEnvironmentFacts DEF PreloadInv
  <2>4. ~nested' => SavedForUser(env')
    BY <2>2, <2>3 DEF Preloads, SavedForUser
  <2> QED
    BY <2>2, <2>3, <2>4 DEF PreloadInv, Started, Initializing
<1>6. CASE Spawn
  <2>1. PICK follow \in BOOLEAN : env' = [env EXCEPT !.FollowChildProcess = follow]
    BY <1>6 DEF Spawn
  <2>2. /\ process = "running" /\ nested' = nested
        /\ origin' = IF loaded = "not" THEN "untraced"
                     ELSE IF env.FollowChildProcess THEN "followed" ELSE "unfollowed"
        /\ process' = "exec" /\ loaded' = "not"
    BY <1>6 DEF Spawn, Fresh, AtWork
  <2>3. env \in Environment
    BY DEF PreloadInv
  <2>4. /\ env' \in Environment
        /\ env'.LD_PRELOAD = env.LD_PRELOAD /\ env'.LD_PRELOAD_OLD = env.LD_PRELOAD_OLD
    BY <2>1, <2>3 DEF Environment
  <2>5. ~nested' => SavedForUser(env')
    BY <2>2, <2>4 DEF PreloadInv, SavedForUser
  <2>6. Started' /\ ~nested' => ~Preloads(env')
    BY <2>2, <2>4 DEF PreloadInv, Preloads, Started
  <2> QED
    BY <2>2, <2>4, <2>5, <2>6 DEF PreloadInv, Initializing
<1>7. CASE UNCHANGED <<program, loaded>> /\ process' \in Endings \cup {"exiting"}
  BY <1>7 DEF program, Endings, Initializing, PreloadInv, Started, Preloads, SavedForUser
<1>8. CASE UNCHANGED <<program, loaded, process>>
  BY <1>8 DEF program, Initializing, PreloadInv, Started, Preloads, SavedForUser
<1>9. CASE Exit \/ Fini
  BY <1>7, <1>9 DEF Exit, Fini, Endings
<1>10. ASSUME NEW t \in Threads, TeardownStep(t)
       PROVE  PreloadInv'
  BY <1>7, <1>8, <1>10 DEF TeardownStep, Check, Summary, DeleteCollector, DeleteChrome,
     FreeTracer, Clear, FiniReturns, HandlerReturns, HandlerKills, HandlerJumps, JumpFaults,
     JumpKills, Killed, Endings
<1>11. ASSUME NEW t \in Threads, NEW sig \in Signals, SignalArrives(t, sig)
       PROVE  PreloadInv'
  BY <1>8, <1>11 DEF SignalArrives
<1>12. CASE UNCHANGED vars
  BY <1>8, <1>12 DEF vars
<1> QED
  BY <1>1, <1>2, <1>3, <1>4, <1>5, <1>6, <1>9, <1>10, <1>11, <1>12, <1>13 DEF Next, Init

\* What a program starts that does not follow its children, or is not traced, does
\* not get the library preloaded, however many programs are between it and the
\* launcher (tracer.cc, the end of Init; unitrace.cc, main).
THEOREM NotFollowedCorrect == Spec => []NotFollowed
<1>1. PreloadInv => NotFollowed
  BY DEF PreloadInv, NotFollowed, Started
<1> QED
  BY <1>1, PreloadInit, PreloadNext, PTL DEF Spec

--------------------------------------------------------------------------------
(* What the launcher starts.                                               *)

Launched == origin = "launched"

\* The launcher preloads the library and asks for a trace; both last until Init has
\* made the objects, which is when the program's main may begin.
TracedInv ==
  /\ DOMAIN object = Objects
  /\ Launched /\ process = "exec" => Preloads(env) /\ "ChromeIttLogging" \in env.flags
  /\ Launched /\ process = "init" => loaded = "preloaded" /\ "ChromeIttLogging" \in env.flags
  /\ Launched /\ process = "created" => loaded = "preloaded" /\ object["chrome"] # "absent"
  /\ Launched /\ process = "running" => loaded = "preloaded" /\ object["chrome"] # "absent"

\* A step that leaves the programs alone and takes no object away.
SameTrace ==
  /\ UNCHANGED <<program, loaded>>
  /\ process' = process \/ process' \in Endings \cup {"exiting"}
  /\ DOMAIN object' = DOMAIN object
  /\ object'["chrome"] # object["chrome"] => object'["chrome"] = "deleted"

LEMMA SameTraceFacts == TracedInv /\ SameTrace => TracedInv'
BY DEF TracedInv, SameTrace, program, Launched, Preloads, Endings

LEMMA DeleteFacts ==
  ASSUME DOMAIN object = Objects, NEW o \in Objects, Delete(o)
  PROVE  /\ DOMAIN object' = Objects
         /\ object'["chrome"] # object["chrome"] => object'["chrome"] = "deleted"
BY DEF Delete, Objects

LEMMA TracedNext == PreloadInv /\ TracedInv /\ [Next]_vars => TracedInv'
<1> SUFFICES ASSUME PreloadInv, TracedInv, [Next]_vars PROVE TracedInv'
  OBVIOUS
<1>1. CASE LoadNothing
  BY <1>1 DEF LoadNothing, program, heap, TracedInv, Launched
<1>2. CASE InitMismatch
  BY <1>2 DEF InitMismatch, program, heap, TracedInv
<1>3. CASE InitHandlers
  BY <1>3 DEF InitHandlers, Loading, program, heap, TracedInv, Launched
<1>4. CASE InitCreate
  <2>1. /\ object' = [o \in Objects |-> IF o = "chrome" /\ ~ChromeLogging(TraceOptions(ReadArgs(env))) THEN "absent" ELSE "live"]
        /\ process = "init" /\ process' = "created" /\ UNCHANGED <<origin, loaded>>
    BY <1>4 DEF InitCreate, program
  <2>2. Launched => ChromeLogging(TraceOptions(ReadArgs(env)))
    BY <2>1 DEF TracedInv, ChromeLogging, TraceOptions, ReadArgs
  <2>3. DOMAIN object' = Objects /\ (Launched => object'["chrome"] = "live")
    BY <2>1, <2>2 DEF Objects
  <2> QED
    BY <2>1, <2>3 DEF TracedInv, Launched
<1>11. CASE InitAssign
  BY <1>11 DEF InitAssign, heap, TracedInv, Launched
<1>5. CASE Launch
  <2>1. PICK version \in {"same", "other"} : env' = LaunchEnvironment(env, version)
    BY <1>5 DEF Launch
  <2>2. process' = "exec" /\ DOMAIN object' = Objects
    BY <1>5 DEF Launch, Fresh, Blank
  <2>3. Preloads(env') /\ "ChromeIttLogging" \in env'.flags
    BY <2>1, LaunchEnvironmentFacts DEF PreloadInv
  <2> QED
    BY <2>2, <2>3 DEF TracedInv
<1>6. CASE Spawn
  <2>1. origin' # "launched" /\ DOMAIN object' = Objects
    BY <1>6 DEF Spawn, Fresh, Blank
  <2> QED
    BY <2>1 DEF TracedInv, Launched
<1>7. CASE Exit \/ Fini
  <2>1. SameTrace
    BY <1>7 DEF Exit, Fini, SameTrace, heap, Endings
  <2> QED
    BY <2>1, SameTraceFacts
<1>8. ASSUME NEW t \in Threads, TeardownStep(t) PROVE TracedInv'
  <2>1. DOMAIN object = Objects
    BY DEF TracedInv
  <2>2. UNCHANGED <<program, loaded>> /\ (process' = process \/ process' \in Endings)
    BY <1>8 DEF TeardownStep, Check, Summary, DeleteCollector, DeleteChrome, FreeTracer,
                Clear, FiniReturns, HandlerReturns, HandlerKills, HandlerJumps, JumpFaults,
                JumpKills, Killed, Endings
  <2>3. object' = object \/ \E o \in Objects : Delete(o)
    BY <1>8 DEF TeardownStep, Check, Summary, DeleteCollector, DeleteChrome, FreeTracer,
                Clear, FiniReturns, HandlerReturns, HandlerKills, HandlerJumps, JumpFaults,
                JumpKills, Killed, heap, Objects
  <2>4. SameTrace
    BY <2>1, <2>2, <2>3, DeleteFacts DEF SameTrace
  <2> QED
    BY <2>4, SameTraceFacts
<1>9. ASSUME NEW t \in Threads, NEW sig \in Signals, SignalArrives(t, sig) PROVE TracedInv'
  <2>1. SameTrace
    BY <1>9 DEF SignalArrives, SameTrace, heap
  <2> QED
    BY <2>1, SameTraceFacts
<1>10. CASE UNCHANGED vars
  <2>1. SameTrace
    BY <1>10 DEF vars, SameTrace, heap
  <2> QED
    BY <2>1, SameTraceFacts
<1> QED
  BY <1>1, <1>2, <1>3, <1>4, <1>5, <1>6, <1>7, <1>8, <1>9, <1>10, <1>11 DEF Next, Init

\* A program that the launcher starts has the library and its Chrome trace from
\* before its main on, whatever the launcher's own environment was (unitrace.cc,
\* ParseArgs and main; tracer.cc, Init).
THEOREM LaunchedCorrect == Spec => []LaunchedIsTraced
<1>1. ProgramStart => TracedInv
  BY DEF ProgramStart, TracedInv, Launched, Blank
<1>2. TracedInv => LaunchedIsTraced
  BY DEF TracedInv, LaunchedIsTraced, Launched
<1> QED
  BY <1>1, <1>2, PreloadInit, PreloadNext, TracedNext, PTL DEF Spec

--------------------------------------------------------------------------------
(* What a teardown has done.                                               *)

Places == {"check", "summary", "collector", "chrome", "free", "clear", "resume", "fault"}
FrameRecord == [why : {"fini"} \cup Signals, at : Places, early : BOOLEAN]

Quiet == \A t \in Threads : frames[t] = <<>>
Busy(t, i) == i \in DOMAIN frames[t] /\ ~Done(frames[t][i])
NoneBusy == \A t \in Threads : \A i \in DOMAIN frames[t] : Done(frames[t][i])

Untouched == reports = 0 /\ \A o \in Objects : deletes[o] = 0
AtMostOnce == reports \in {0, 1} /\ \A o \in Objects : deletes[o] \in {0, 1}
ClosedDown == AtMostOnce /\ object["chrome"] # "live"
Closed == ~Initializing /\ ~tracer /\ ClosedDown

\* Before a teardown: there is all of it to do, or nothing, or the tracer is not
\* assigned yet.
Idle ==
  \/ tracer /\ Untouched /\ ~Initializing
  \/ ~tracer /\ ClosedDown /\ process # "created"
  \/ ~tracer /\ Untouched /\ process = "created"

\* What has been done when a frame has come to a place.
Stage(at) ==
  /\ at = "check" => Idle
  /\ at # "check" => tracer /\ ~Initializing
  /\ at = "summary" => Untouched
  /\ at = "collector" => reports = 1 /\ \A o \in Objects : deletes[o] = 0
  /\ at = "chrome" => /\ reports = 1
                      /\ deletes["collector"] = 1 /\ deletes["chrome"] = 0 /\ deletes["tracer"] = 0
  /\ at = "free" => /\ reports = 1 /\ object["chrome"] # "live"
                    /\ deletes["collector"] = 1 /\ deletes["chrome"] \in {0, 1} /\ deletes["tracer"] = 0
  /\ at = "clear" => ClosedDown

\* No library, or one that has no objects yet.
Bare == ~tracer /\ Untouched /\ object["chrome"] = "absent"

\* A frame is early if it has found no tracer during Init; the other ones that are
\* back from Teardown have left nothing to do.
FrameKept(f) ==
  /\ Done(f) => f.early \/ Closed
  /\ f.why = "fini" => ~f.early /\ ~Initializing
  /\ ~Done(f) => ~f.early

\* One teardown at a time, on top of its thread, and what it has done by where it
\* is; none leaves anything to the next.
TeardownTyped ==
  /\ tracer \in BOOLEAN /\ DOMAIN object = Objects /\ DOMAIN deletes = Objects
  /\ AtMostOnce
  /\ frames \in [Threads -> Seq(FrameRecord)]
  /\ process = "exec" => loaded = "not"
  /\ loaded = "not" => Quiet /\ disposition \in [Signals -> Handlers]
  /\ loaded = "not" \/ process = "init" => Bare
  /\ process \in {"ended", "killed"} => ClosedDown

FramesInv ==
  /\ \A t \in Threads : \A i \in DOMAIN frames[t] : FrameKept(frames[t][i])
  /\ \A t \in Threads : \A i \in DOMAIN frames[t] :
       ~Done(frames[t][i]) => i = Len(frames[t]) /\ Stage(frames[t][i].at)
  /\ \A t, u \in Threads : \A i, j \in Nat : Busy(t, i) /\ Busy(u, j) => t = u /\ i = j
  /\ NoneBusy /\ process # "killed early" => Idle

TeardownInv == TeardownTyped /\ FramesInv

LEMMA BareIdle == Bare /\ process # "created" => Idle /\ ClosedDown
BY DEF Bare, Idle, ClosedDown, AtMostOnce, Untouched

LEMMA QuietFrames == Quiet /\ Idle => FramesInv
<1> SUFFICES ASSUME Quiet, Idle PROVE FramesInv
  OBVIOUS
<1>1. \A t \in Threads : DOMAIN frames[t] = {}
  BY EmptySeq DEF Quiet
<1> QED
  BY <1>1 DEF FramesInv, Busy, NoneBusy

\* No thread has a frame any more.
LEMMA NoFramesKept ==
  ASSUME NoFrames, Idle' \/ process' = "killed early", AtMostOnce',
         tracer' \in BOOLEAN, DOMAIN object' = Objects, DOMAIN deletes' = Objects,
         process' = "exec" => loaded' = "not", loaded' = "not" => disposition' \in [Signals -> Handlers],
         loaded' = "not" \/ process' = "init" => Bare', process' \in {"ended", "killed"} => ClosedDown'
  PROVE  TeardownInv'
<1>1. <<>> \in Seq(FrameRecord)
  BY EmptySeq
<1>2. frames' \in [Threads -> Seq(FrameRecord)] /\ Quiet'
  BY <1>1 DEF NoFrames, Quiet
<1>3. \A t \in Threads : DOMAIN frames'[t] = {}
  BY ONLY <1>2, EmptySeq DEF Quiet
<1>4. FramesInv'
  BY <1>3 DEF FramesInv, Busy, NoneBusy
<1> QED
  BY <1>2, <1>4 DEF TeardownInv, TeardownTyped

\* A frame is added when no teardown is going on.
LEMMA PushKeeps ==
  ASSUME TeardownInv, NoneBusy, NEW t \in Threads, NEW why \in {"fini"} \cup Signals, Push(t, why),
         loaded # "not", process \notin Endings, process' \in {process, "exiting"},
         process' = "exiting" => ~Initializing, why = "fini" => ~Initializing,
         UNCHANGED <<loaded, disposition, tracer, object, deletes, reports>>
  PROVE  TeardownInv'
<1> DEFINE s == frames[t]
           n == Len(frames[t])
           f == Frame(why)
<1>1. f \in FrameRecord /\ f.at = "check" /\ ~f.early /\ ~Done(f) /\ f.why = why
  BY DEF Frame, FrameRecord, Places, Done
<1>2. frames \in [Threads -> Seq(FrameRecord)] /\ s \in Seq(FrameRecord) /\ n \in Nat
  BY LenProperties DEF TeardownInv, TeardownTyped
<1>3. frames' = [frames EXCEPT ![t] = Append(s, f)]
  BY DEF Push
<1> HIDE DEF s, f
<1>4. /\ frames' \in [Threads -> Seq(FrameRecord)]
      /\ frames'[t] = Append(s, f) /\ \A u \in Threads \ {t} : frames'[u] = frames[u]
  BY <1>1, <1>2, <1>3, AppendProperties
<1>5. /\ Len(frames'[t]) = n + 1 /\ DOMAIN frames'[t] = 1..(n + 1) /\ frames'[t][n + 1] = f
      /\ \A i \in 1..n : frames'[t][i] = frames[t][i] /\ i \in DOMAIN frames[t]
  BY <1>1, <1>2, <1>4, AppendProperties, LenProperties DEF s
<1>6. Idle
  BY DEF TeardownInv, FramesInv, Endings
<1>7. process' # process => process' = "exiting" /\ process # "created"
  BY DEF Initializing
<1>8. Idle'
  BY <1>6, <1>7 DEF Idle, Untouched, ClosedDown, AtMostOnce, Initializing
<1>9. \A g : FrameKept(g) => FrameKept(g)'
  BY <1>7 DEF FrameKept, Done, Closed, ClosedDown, AtMostOnce, Initializing
<1>10. FrameKept(f)'
  BY <1>1, <1>7 DEF FrameKept, Done, Initializing
<1>11. \A u \in Threads : \A i \in DOMAIN frames'[u] :
         \/ u = t /\ i = n + 1 /\ frames'[u][i] = f
         \/ /\ i \in DOMAIN frames[u] /\ frames'[u][i] = frames[u][i]
            /\ Done(frames[u][i])
  <2> SUFFICES ASSUME NEW u \in Threads, NEW i \in DOMAIN frames'[u]
               PROVE  \/ u = t /\ i = n + 1 /\ frames'[u][i] = f
                      \/ /\ i \in DOMAIN frames[u] /\ frames'[u][i] = frames[u][i]
                         /\ Done(frames[u][i])
    OBVIOUS
  <2>1. CASE u = t
    BY <2>1, <1>2, <1>5 DEF NoneBusy
  <2>2. CASE u # t
    BY <2>2, <1>4 DEF NoneBusy
  <2> QED
    BY <2>1, <2>2
<1>12. \A u \in Threads : \A i \in DOMAIN frames'[u] : FrameKept(frames[u][i])'
  BY <1>9, <1>10, <1>11 DEF TeardownInv, FramesInv
<1>13. \A u \in Threads : \A i \in DOMAIN frames'[u] :
         ~Done(frames'[u][i]) => u = t /\ i = n + 1 /\ frames'[u][i] = f
  BY <1>11
<1>14. Stage("check")'
  BY <1>8 DEF Stage
<1>15. ~NoneBusy'
  <2>1. n + 1 \in DOMAIN frames'[t] /\ ~Done(frames'[t][n + 1])
    BY ONLY <1>1, <1>2, <1>5
  <2> QED
    BY ONLY <2>1, t \in Threads DEF NoneBusy, Done
<1>16. FramesInv'
  BY <1>1, <1>5, <1>12, <1>13, <1>14, <1>15 DEF FramesInv, Busy, Done
<1>17. loaded' # "not" /\ process' # "exec" /\ (Bare => Bare') /\ process' \notin Endings /\ AtMostOnce'
  BY DEF TeardownInv, TeardownTyped, Bare, Untouched, AtMostOnce, Endings
<1> QED
  BY <1>4, <1>7, <1>16, <1>17 DEF TeardownInv, TeardownTyped, Endings, Initializing

\* The frame that is in Teardown is the only one, and what it has done is known.
LEMMA AtFacts ==
  ASSUME TeardownInv, NEW t \in Threads, NEW where, At(t, where)
  PROVE  /\ Len(frames[t]) \in DOMAIN frames[t] /\ Top(t) \in FrameRecord /\ FrameKept(Top(t))
         /\ where \notin {"resume", "fault"} => Stage(where)
         /\ loaded # "not" /\ process \notin Endings /\ process # "exec"
<1>1. frames[t] # <<>> /\ Top(t).at = where /\ Alive /\ frames[t] \in Seq(FrameRecord)
  BY DEF At, TeardownInv, TeardownTyped
<1>2. Len(frames[t]) \in DOMAIN frames[t] /\ Top(t) \in FrameRecord
  BY <1>1, ElementOfSeq DEF Top
<1>3. FrameKept(Top(t)) /\ (~Done(Top(t)) => Stage(Top(t).at))
  BY <1>2 DEF TeardownInv, FramesInv, Top
<1>4. loaded # "not"
  BY <1>1 DEF TeardownInv, TeardownTyped, Quiet
<1> QED
  BY <1>1, <1>2, <1>3, <1>4 DEF Done, Alive, Initializing, Endings

\* The top frame of a thread becomes another one.
LEMMA TopChanges ==
  ASSUME frames \in [Threads -> Seq(FrameRecord)], NEW t \in Threads, frames[t] # <<>>,
         NEW f \in FrameRecord, frames' = [frames EXCEPT ![t][Len(frames[t])] = f]
  PROVE  /\ frames' \in [Threads -> Seq(FrameRecord)]
         /\ \A u \in Threads : DOMAIN frames'[u] = DOMAIN frames[u] /\ Len(frames'[u]) = Len(frames[u])
         /\ frames'[t][Len(frames[t])] = f
         /\ \A u \in Threads : \A i \in DOMAIN frames[u] :
              (u = t /\ i = Len(frames[t])) \/ frames'[u][i] = frames[u][i]
<1> DEFINE s == frames[t]
           n == Len(frames[t])
           r == [s EXCEPT ![n] = f]
<1>1. s \in Seq(FrameRecord) /\ n \in Nat /\ n \in 1..n
  BY LenProperties, EmptySeq
<1>2. s \in [1..n -> FrameRecord]
  BY <1>1, LenProperties
<1> HIDE DEF s
<1>3. r \in [1..n -> FrameRecord] /\ r[n] = f /\ \A i \in 1..n : i = n \/ r[i] = s[i]
  BY <1>1, <1>2
<1>4. r \in Seq(FrameRecord) /\ Len(r) = n /\ DOMAIN r = 1..n /\ DOMAIN s = 1..n
  BY <1>1, <1>2, <1>3, SeqDef, LenProperties
<1>5. frames' = [frames EXCEPT ![t] = r]
  BY DEF s
<1> HIDE DEF r
<1> QED
  BY <1>3, <1>4, <1>5 DEF s

\* A step of the teardown that is going on; one without objects finds nothing to do.
LEMMA TeardownGoesOn ==
  ASSUME TeardownInv, NEW t \in Threads, NEW f \in FrameRecord,
         frames[t] # <<>>, ~Done(Top(t)), frames' = [frames EXCEPT ![t][Len(frames[t])] = f],
         f.why = Top(t).why, loaded # "not", process \notin Endings, process # "exec",
         tracer' \in BOOLEAN, DOMAIN object' = Objects, DOMAIN deletes' = Objects, AtMostOnce',
         UNCHANGED <<process, loaded, disposition>>,
         FrameKept(f)', ~Done(f) => Stage(f.at)', Done(f) => Idle', Bare => Bare',
         tracer \/ UNCHANGED <<tracer, object, deletes, reports>>
  PROVE  TeardownInv'
<1> DEFINE n == Len(frames[t])
<1>1. /\ frames' \in [Threads -> Seq(FrameRecord)]
      /\ \A u \in Threads : DOMAIN frames'[u] = DOMAIN frames[u] /\ Len(frames'[u]) = Len(frames[u])
      /\ frames'[t][n] = f
      /\ \A u \in Threads : \A i \in DOMAIN frames[u] : (u = t /\ i = n) \/ frames'[u][i] = frames[u][i]
  BY TopChanges DEF TeardownInv, TeardownTyped
<1>2. n \in DOMAIN frames[t] /\ n \in Nat /\ \A u \in Threads : DOMAIN frames[u] \subseteq Nat
  <2>1. \A u \in Threads : frames[u] \in Seq(FrameRecord)
    BY DEF TeardownInv, TeardownTyped
  <2> QED
    BY <2>1, EmptySeq, LenProperties
<1> HIDE DEF n
<1>3. \A u \in Threads : \A i \in DOMAIN frames[u] : Done(frames[u][i]) \/ (u = t /\ i = n)
  <2>1. Busy(t, n)
    BY <1>2 DEF Busy, Top, n
  <2> QED
    BY <1>2, <2>1 DEF TeardownInv, FramesInv, Busy
<1>4. ASSUME NEW u \in Threads, NEW i \in DOMAIN frames[u], ~(u = t /\ i = n)
      PROVE  frames'[u][i] = frames[u][i] /\ Done(frames[u][i]) /\ FrameKept(frames[u][i])'
  <2>1. frames'[u][i] = frames[u][i] /\ Done(frames[u][i]) /\ FrameKept(frames[u][i])
    BY <1>1, <1>3, <1>4 DEF TeardownInv, FramesInv
  <2>2. UNCHANGED <<tracer, object, deletes, reports, process>> => Closed = Closed'
    BY DEF Closed, ClosedDown, AtMostOnce, Initializing
  <2>3. PICK g : g = frames[u][i]
    OBVIOUS
  <2>4. Done(g) /\ FrameKept(g) /\ frames'[u][i] = g
    BY <2>1, <2>3
  <2>5. FrameKept(g)'
    <3>1. CASE tracer
      BY <2>4, <3>1 DEF FrameKept, Closed, Initializing
    <3>2. CASE ~tracer
      BY <2>2, <2>4, <3>2 DEF FrameKept, Initializing
    <3> QED
      BY <3>1, <3>2
  <2> QED
    BY <2>1, <2>4, <2>5 DEF FrameKept
<1>5. \A u \in Threads : \A i \in DOMAIN frames'[u] : FrameKept(frames[u][i])'
  <2> SUFFICES ASSUME NEW u \in Threads, NEW i \in DOMAIN frames'[u] PROVE FrameKept(frames[u][i])'
    OBVIOUS
  <2>1. i \in DOMAIN frames[u]
    BY <1>1
  <2>2. CASE u = t /\ i = n
    <3>1. frames'[u][i] = f
      BY <1>1, <2>2
    <3> QED
      BY <3>1 DEF FrameKept
  <2>3. CASE ~(u = t /\ i = n)
    BY <1>4, <2>1, <2>3
  <2> QED
    BY <2>2, <2>3
<1>6. \A u \in Threads : \A i \in DOMAIN frames'[u] : ~Done(frames'[u][i]) => u = t /\ i = n
  BY <1>1, <1>4
<1>7. /\ \A u \in Threads : \A i \in DOMAIN frames'[u] :
           ~Done(frames'[u][i]) => i = Len(frames'[u]) /\ Stage(frames[u][i].at)'
      /\ NoneBusy' => Idle'
  <2>1. n = Len(frames'[t])
    BY <1>1 DEF n
  <2>2. Done(f) \/ ~NoneBusy'
    BY <1>1, <1>2 DEF NoneBusy, Done
  <2> QED
    BY <1>1, <1>6, <2>1, <2>2
<1>8. FramesInv'
  BY <1>5, <1>6, <1>7 DEF FramesInv, Busy, Done
<1>9. process' # "exec" /\ loaded' # "not" /\ (process' = "init" => Bare') /\ process' \notin Endings
  BY DEF TeardownInv, TeardownTyped
<1> QED
  BY <1>1, <1>8, <1>9 DEF TeardownInv, TeardownTyped, Endings

\* What a thread does with frames that are back from Teardown concerns no other.
LEMMA DoneChanges ==
  ASSUME TeardownInv, NEW t \in Threads, frames[t] # <<>>, Done(Top(t)), loaded # "not",
         process' = process, UNCHANGED <<loaded, disposition, tracer, object, deletes, reports>>,
         frames' \in [Threads -> Seq(FrameRecord)],
         \A u \in Threads : u # t => frames'[u] = frames[u],
         DOMAIN frames'[t] \subseteq DOMAIN frames[t],
         \A i \in DOMAIN frames'[t] :
           /\ frames'[t][i].why = frames[t][i].why /\ frames'[t][i].early = frames[t][i].early
           /\ Done(frames[t][i]) => Done(frames'[t][i])
  PROVE  TeardownInv'
<1>1. \A i \in DOMAIN frames[t] : Done(frames[t][i])
  BY DEF TeardownInv, FramesInv, Top
<1>2. (Idle <=> Idle') /\ (AtMostOnce <=> AtMostOnce') /\ (ClosedDown <=> ClosedDown') /\ (Bare <=> Bare') /\ (Closed <=> Closed')
      /\ (Untouched <=> Untouched') /\ (Initializing <=> Initializing')
  BY DEF Idle, ClosedDown, AtMostOnce, Bare, Untouched, Closed, Initializing
<1>3. \A u \in Threads : \A i \in DOMAIN frames'[u] : FrameKept(frames[u][i])'
  <2> SUFFICES ASSUME NEW u \in Threads, NEW i \in DOMAIN frames'[u] PROVE FrameKept(frames[u][i])'
    OBVIOUS
  <2>1. i \in DOMAIN frames[u] /\ FrameKept(frames[u][i])
    BY DEF TeardownInv, FramesInv
  <2>2. CASE u = t
    BY <1>1, <1>2, <2>1, <2>2 DEF FrameKept, Done
  <2>3. CASE u # t
    BY <1>2, <2>1, <2>3 DEF FrameKept, Done
  <2> QED
    BY <2>2, <2>3
<1>4. \A u \in Threads : \A i \in DOMAIN frames'[u] :
        ~Done(frames'[u][i]) => u # t /\ i \in DOMAIN frames[u] /\ frames'[u] = frames[u]
  BY <1>1
<1>5. \A u \in Threads : \A i \in DOMAIN frames'[u] :
        ~Done(frames'[u][i]) => i = Len(frames'[u]) /\ Stage(frames[u][i].at)'
  <2> SUFFICES ASSUME NEW u \in Threads, NEW i \in DOMAIN frames'[u], ~Done(frames'[u][i])
               PROVE  i = Len(frames'[u]) /\ Stage(frames[u][i].at)'
    OBVIOUS
  <2>1. frames'[u] = frames[u] /\ i = Len(frames[u]) /\ Stage(frames[u][i].at)
    BY <1>4 DEF TeardownInv, FramesInv
  <2>2. PICK at : at = frames[u][i].at
    OBVIOUS
  <2>3. Stage(at)'
    BY <1>2, <2>1, <2>2 DEF Stage
  <2> QED
    BY <2>1, <2>2, <2>3
<1>6. \A u, v \in Threads : \A i, j \in Nat : Busy(u, i)' /\ Busy(v, j)' => u = v /\ i = j
  <2>1. \A u \in Threads : \A i : Busy(u, i)' => Busy(u, i)
    BY <1>4 DEF Busy, Done
  <2> QED
    BY <2>1 DEF TeardownInv, FramesInv
<1>7. NoneBusy' => NoneBusy
  <2> SUFFICES ASSUME NoneBusy', NEW u \in Threads, NEW i \in DOMAIN frames[u] PROVE Done(frames[u][i])
    BY DEF NoneBusy
  <2>1. CASE u = t
    BY <1>1, <2>1
  <2>2. CASE u # t
    BY <2>2 DEF NoneBusy, Done
  <2> QED
    BY <2>1, <2>2
<1>8. FramesInv'
  BY <1>2, <1>3, <1>5, <1>6, <1>7 DEF TeardownInv, FramesInv
<1> QED
  BY <1>2, <1>8 DEF TeardownInv, TeardownTyped

\* A process that a handler ends: if the handler is not early, the trace is closed.
LEMMA KilledKeeps ==
  ASSUME TeardownInv, NEW t \in Threads, NEW where \in {"resume", "fault"}, At(t, where), Killed(t)
  PROVE  TeardownInv'
<1>1. /\ FrameKept(Top(t)) /\ Done(Top(t)) /\ loaded # "not" /\ NoFrames
      /\ process' = IF Top(t).early THEN "killed early" ELSE "killed"
      /\ UNCHANGED <<loaded, disposition, tracer, object, deletes, reports>>
  BY AtFacts DEF Killed, At, Done, handlers, heap
<1>2. DOMAIN object = Objects /\ DOMAIN deletes = Objects /\ tracer \in BOOLEAN
  BY DEF TeardownInv, TeardownTyped
<1>3. AtMostOnce'
  BY <1>1 DEF TeardownInv, TeardownTyped, AtMostOnce
<1>4. process' = "killed early" \/ (process' = "killed" /\ Idle' /\ ClosedDown')
  <2>1. CASE Top(t).early
    BY <1>1, <2>1
  <2>2. CASE ~Top(t).early
    <3>1. Closed
      BY <1>1, <2>2 DEF FrameKept
    <3> QED
      BY <1>1, <2>2, <3>1 DEF Closed, ClosedDown, AtMostOnce, Idle
  <2> QED
    BY <2>1, <2>2
<1> QED
  BY ONLY <1>1, <1>2, <1>3, <1>4, NoFramesKept

LEMMA TeardownStepKeeps ==
  ASSUME Overlap = FALSE, TeardownInv, NEW t \in Threads, TeardownStep(t)
  PROVE  TeardownInv'
<1>1. DOMAIN object = Objects /\ DOMAIN deletes = Objects /\ tracer \in BOOLEAN /\ AtMostOnce
      /\ frames \in [Threads -> Seq(FrameRecord)]
  BY DEF TeardownInv, TeardownTyped
<1>2. ASSUME NEW where \in Places \ {"resume", "fault"}, At(t, where)
      PROVE  /\ frames[t] # <<>> /\ ~Done(Top(t)) /\ ~Top(t).early /\ Top(t) \in FrameRecord
             /\ loaded # "not" /\ process \notin Endings /\ process # "exec"
             /\ Stage(where) /\ Top(t).at = where
             /\ Top(t).why = "fini" => ~Initializing
  BY <1>2, AtFacts DEF At, Done, FrameKept
<1>3. ASSUME NEW where \in Places \ {"check", "resume", "fault"}, NEW to \in Places \ {"check", "fault"},
             At(t, where), Step(t, to), UNCHANGED <<process, loaded, disposition>>,
             tracer' \in BOOLEAN, DOMAIN object' = Objects, DOMAIN deletes' = Objects, AtMostOnce',
             to # "resume" => tracer' /\ Stage(to)',
             to = "resume" => Closed'
      PROVE  TeardownInv'
  <2> DEFINE f == [Top(t) EXCEPT !.at = to]
  <2>1. /\ frames[t] # <<>> /\ ~Done(Top(t)) /\ ~Top(t).early /\ Top(t) \in FrameRecord
        /\ loaded # "not" /\ process \notin Endings /\ process # "exec"
        /\ tracer /\ ~Initializing
    BY <1>2, <1>3 DEF Stage
  <2>2. PICK g : g = f
    OBVIOUS
  <2>3. g \in FrameRecord /\ g.at = to /\ g.why = Top(t).why /\ ~g.early
    BY <2>1, <2>2 DEF FrameRecord
  <2>4. frames' = [frames EXCEPT ![t][Len(frames[t])] = g]
    BY <1>3, <2>2 DEF Step, Top
  <2>5. Done(g) <=> to = "resume"
    BY <2>3 DEF Done
  <2>6. Done(g) => Idle'
    BY <1>3, <2>5 DEF Closed, Idle, Initializing
  <2>7. FrameKept(g)'
    BY <1>3, <2>1, <2>3, <2>5 DEF FrameKept, Done, Initializing
  <2>8. ~Bare
    BY <2>1 DEF Bare
  <2>9. ~Done(g) => Stage(g.at)'
    BY <1>3, <2>3, <2>5 DEF Stage
  <2> QED
    BY <1>3, <2>1, <2>3, <2>4, <2>6, <2>7, <2>8, <2>9, TeardownGoesOn
<1>4. CASE Check(t)
  <2>1. /\ At(t, "check")
        /\ frames' = [frames EXCEPT ![t][Len(frames[t])] =
                       [Top(t) EXCEPT !.at = IF tracer THEN "summary" ELSE "resume",
                                      !.early = ~tracer /\ Initializing]]
        /\ UNCHANGED <<process, loaded, disposition, tracer, object, deletes, reports>>
    BY <1>4 DEF Check, handlers, heap, Top
  <2>2. /\ frames[t] # <<>> /\ ~Done(Top(t)) /\ ~Top(t).early /\ Top(t) \in FrameRecord
        /\ loaded # "not" /\ process \notin Endings /\ process # "exec"
        /\ Idle /\ (Top(t).why = "fini" => ~Initializing)
    BY <1>2, <2>1 DEF Places, Stage
  <2>3. PICK f : f = [Top(t) EXCEPT !.at = IF tracer THEN "summary" ELSE "resume",
                                    !.early = ~tracer /\ Initializing]
    OBVIOUS
  <2>4. /\ f \in FrameRecord /\ f.why = Top(t).why
        /\ f.at = (IF tracer THEN "summary" ELSE "resume") /\ f.early = (~tracer /\ Initializing)
    <3>1. (~tracer /\ Initializing) \in BOOLEAN /\ (IF tracer THEN "summary" ELSE "resume") \in Places
      BY DEF Places
    <3> QED
      BY <2>2, <2>3, <3>1 DEF FrameRecord
  <2>5. /\ (Idle <=> Idle') /\ (Closed <=> Closed') /\ (Initializing <=> Initializing') /\ (Bare <=> Bare')
        /\ (Untouched <=> Untouched') /\ AtMostOnce'
    BY <1>1, <2>1 DEF Idle, Closed, ClosedDown, AtMostOnce, Untouched, Initializing, Bare
  <2>6. ~tracer => f.early \/ Closed
    BY <2>2, <2>4 DEF Idle, Closed, Initializing
  <2>7. Done(f) <=> ~tracer
    BY <2>4 DEF Done
  <2>8. FrameKept(f)'
    BY <2>2, <2>4, <2>5, <2>6, <2>7 DEF FrameKept, Done
  <2>9. ~Done(f) => Stage(f.at)'
    BY <1>1, <2>1, <2>2, <2>4, <2>5, <2>7 DEF Stage, Idle
  <2>10. frames' = [frames EXCEPT ![t][Len(frames[t])] = f]
    BY <2>1, <2>3
  <2> QED
    BY <1>1, <2>1, <2>2, <2>4, <2>5, <2>8, <2>9, <2>10, TeardownGoesOn
<1>5. CASE Summary(t)
  <2>1. At(t, "summary") /\ Step(t, "collector") /\ reports' = reports + 1
        /\ UNCHANGED <<process, loaded, disposition, tracer, object, deletes>>
    BY <1>5 DEF Summary, handlers
  <2>2. tracer /\ ~Initializing /\ Untouched
    BY <1>2, <2>1 DEF Stage, Places
  <2>3. Stage("collector")' /\ AtMostOnce'
    BY <2>1, <2>2 DEF Stage, Untouched, AtMostOnce, Initializing
  <2> QED
    BY <1>1, <1>3, <2>1, <2>2, <2>3 DEF Places
<1>6. CASE DeleteCollector(t)
  <2>1. At(t, "collector") /\ Step(t, "chrome") /\ Delete("collector")
        /\ UNCHANGED <<process, loaded, disposition, tracer, reports>>
    BY <1>6 DEF DeleteCollector, handlers
  <2>2. tracer /\ ~Initializing /\ reports = 1 /\ \A o \in Objects : deletes[o] = 0
    BY <1>2, <2>1 DEF Stage, Places
  <2>3. DOMAIN object' = Objects /\ DOMAIN deletes' = Objects
    BY <1>1, <2>1 DEF Delete
  <2>4. deletes'["collector"] = 1 /\ deletes'["chrome"] = 0 /\ deletes'["tracer"] = 0
    BY <1>1, <2>1, <2>2 DEF Delete, Objects
  <2>5. Stage("chrome")' /\ AtMostOnce'
    BY <2>1, <2>2, <2>4 DEF Stage, AtMostOnce, Objects, Initializing
  <2> QED
    BY <1>1, <1>3, <2>1, <2>2, <2>3, <2>5 DEF Places
<1>7. CASE DeleteChrome(t)
  <2>1. /\ At(t, "chrome") /\ Step(t, "free")
        /\ IF object["chrome"] # "absent" THEN Delete("chrome") ELSE UNCHANGED <<object, deletes>>
        /\ UNCHANGED <<process, loaded, disposition, tracer, reports>>
    BY <1>7 DEF DeleteChrome, handlers
  <2>2. /\ tracer /\ ~Initializing /\ reports = 1
        /\ deletes["collector"] = 1 /\ deletes["chrome"] = 0 /\ deletes["tracer"] = 0
    BY <1>2, <2>1 DEF Stage, Places
  <2>3. DOMAIN object' = Objects /\ DOMAIN deletes' = Objects
    BY <1>1, <2>1 DEF Delete
  <2>4. /\ object'["chrome"] # "live"
        /\ deletes'["collector"] = 1 /\ deletes'["chrome"] \in {0, 1} /\ deletes'["tracer"] = 0
    BY <1>1, <2>1, <2>2 DEF Delete, Objects
  <2>5. Stage("free")' /\ AtMostOnce'
    BY <2>1, <2>2, <2>4 DEF Stage, AtMostOnce, Objects, Initializing
  <2> QED
    BY <1>1, <1>3, <2>1, <2>2, <2>3, <2>5 DEF Places
<1>8. CASE FreeTracer(t)
  <2>1. At(t, "free") /\ Step(t, "clear") /\ Delete("tracer")
        /\ UNCHANGED <<process, loaded, disposition, tracer, reports>>
    BY <1>8 DEF FreeTracer, handlers
  <2>2. /\ tracer /\ ~Initializing /\ reports = 1 /\ object["chrome"] # "live"
        /\ deletes["collector"] = 1 /\ deletes["chrome"] \in {0, 1} /\ deletes["tracer"] = 0
    BY <1>2, <2>1 DEF Stage, Places
  <2>3. DOMAIN object' = Objects /\ DOMAIN deletes' = Objects
    BY <1>1, <2>1 DEF Delete
  <2>4. object'["chrome"] # "live" /\ \A o \in Objects : deletes'[o] \in {0, 1}
    BY <1>1, <2>1, <2>2 DEF Delete, Objects
  <2>5. Stage("clear")' /\ AtMostOnce'
    BY <2>1, <2>2, <2>4 DEF Stage, ClosedDown, AtMostOnce, Initializing
  <2> QED
    BY <1>1, <1>3, <2>1, <2>2, <2>3, <2>5 DEF Places
<1>9. CASE Clear(t)
  <2>1. At(t, "clear") /\ Step(t, "resume") /\ tracer' = FALSE
        /\ UNCHANGED <<process, loaded, disposition, object, deletes, reports>>
    BY <1>9 DEF Clear, handlers, heap
  <2>2. ~Initializing /\ ClosedDown
    BY <1>2, <2>1 DEF Stage, Places
  <2>3. Closed' /\ AtMostOnce'
    BY <2>1, <2>2 DEF Closed, ClosedDown, AtMostOnce, Initializing
  <2> QED
    BY <1>1, <1>3, <2>1, <2>3 DEF Places
<1>10. CASE FiniReturns(t)
  <2>1. /\ At(t, "resume") /\ Top(t).why = "fini" /\ process' = "ended" /\ NoFrames
        /\ UNCHANGED <<loaded, disposition, tracer, object, deletes, reports>>
    BY <1>10 DEF FiniReturns, handlers, heap
  <2>2. Closed /\ loaded # "not"
    BY <2>1, AtFacts DEF FrameKept, Done, At
  <2>3. Idle' /\ ClosedDown' /\ AtMostOnce'
    BY <2>1, <2>2 DEF Closed, ClosedDown, AtMostOnce, Idle
  <2> QED
    BY <1>1, <2>1, <2>2, <2>3, NoFramesKept
<1>11. CASE HandlerReturns(t)
  <2>1. /\ At(t, "resume") /\ frames' = [frames EXCEPT ![t] = SubSeq(@, 1, Len(@) - 1)]
        /\ UNCHANGED <<process, loaded, disposition, tracer, object, deletes, reports>>
    BY <1>11 DEF HandlerReturns, InHandler, handlers, heap
  <2> DEFINE s == frames[t]
             n == Len(frames[t])
  <2>2. s \in Seq(FrameRecord) /\ n \in Nat /\ n \in 1..n /\ DOMAIN s = 1..n
    BY <1>1, <2>1, AtFacts, LenProperties
  <2>3. /\ SubSeq(s, 1, n - 1) \in Seq(FrameRecord) /\ DOMAIN SubSeq(s, 1, n - 1) = 1..(n - 1)
        /\ \A i \in 1..(n - 1) : SubSeq(s, 1, n - 1)[i] = s[i]
    BY ONLY <2>2, SubSeqProperties, LenProperties
  <2>4. frames' \in [Threads -> Seq(FrameRecord)] /\ frames'[t] = SubSeq(s, 1, n - 1)
        /\ \A u \in Threads : u # t => frames'[u] = frames[u]
    BY ONLY <1>1, <2>1, <2>3, t \in Threads
  <2>5. frames[t] # <<>> /\ Done(Top(t)) /\ loaded # "not"
    BY <2>1, AtFacts DEF At, Done
  <2>6. DOMAIN frames'[t] \subseteq DOMAIN frames[t] /\ \A i \in DOMAIN frames'[t] : frames'[t][i] = frames[t][i]
    BY <2>2, <2>3, <2>4
  <2> QED
    BY <2>1, <2>4, <2>5, <2>6, DoneChanges
<1>12. CASE HandlerJumps(t)
  <2>1. /\ At(t, "resume") /\ Step(t, "fault")
        /\ UNCHANGED <<process, loaded, disposition, tracer, object, deletes, reports>>
    BY <1>12 DEF HandlerJumps, InHandler, handlers, heap
  <2>2. PICK f : f = [Top(t) EXCEPT !.at = "fault"]
    OBVIOUS
  <2>3. frames[t] # <<>> /\ Done(Top(t)) /\ loaded # "not" /\ Top(t) \in FrameRecord
    BY <2>1, AtFacts DEF At, Done
  <2>4. f \in FrameRecord /\ f.why = Top(t).why /\ f.early = Top(t).early /\ Done(f)
    BY <2>2, <2>3 DEF FrameRecord, Places, Done
  <2>5. frames' = [frames EXCEPT ![t][Len(frames[t])] = f]
    BY <2>1, <2>2 DEF Step, Top
  <2>6. /\ frames' \in [Threads -> Seq(FrameRecord)]
        /\ \A u \in Threads : DOMAIN frames'[u] = DOMAIN frames[u] /\ Len(frames'[u]) = Len(frames[u])
        /\ frames'[t][Len(frames[t])] = f
        /\ \A u \in Threads : \A i \in DOMAIN frames[u] :
             (u = t /\ i = Len(frames[t])) \/ frames'[u][i] = frames[u][i]
    BY <1>1, <2>3, <2>4, <2>5, TopChanges
  <2>7. \A u \in Threads : u # t => frames'[u] = frames[u]
    BY <1>1, <2>5
  <2>8. \A i \in DOMAIN frames'[t] :
           /\ frames'[t][i].why = frames[t][i].why /\ frames'[t][i].early = frames[t][i].early
           /\ Done(frames[t][i]) => Done(frames'[t][i])
    BY <2>4, <2>6 DEF Top
  <2> QED
    BY <2>1, <2>3, <2>6, <2>7, <2>8, DoneChanges
<1>13. CASE JumpFaults(t)
  <2>1. /\ At(t, "fault") /\ Interruptible /\ Push(t, Fault)
        /\ UNCHANGED <<process, loaded, disposition, tracer, object, deletes, reports>>
    BY <1>13 DEF JumpFaults, handlers, heap
  <2>2. NoneBusy
    BY <1>13, <2>1 DEF Interruptible, InTeardown, NoneBusy
  <2>3. (process \notin Endings /\ process # "exiting") \/ ~Initializing
    BY <2>1, AtFacts DEF Initializing
  <2> QED
    BY <2>1, <2>2, <2>3, AtFacts, FaultAssumption, PushKeeps DEF Initializing
<1>14. CASE HandlerKills(t) \/ JumpKills(t)
  BY <1>14, KilledKeeps DEF HandlerKills, JumpKills, InHandler
<1> QED
  BY <1>4, <1>5, <1>6, <1>7, <1>8, <1>9, <1>10, <1>11, <1>12, <1>13, <1>14 DEF TeardownStep

\* A new address space.
LEMMA FreshFacts == Fresh => TeardownInv'
<1> SUFFICES ASSUME Fresh PROVE TeardownInv'
  OBVIOUS
<1>1. <<>> \in Seq(FrameRecord)
  BY EmptySeq
<1>2. frames' \in [Threads -> Seq(FrameRecord)] /\ Quiet'
  BY <1>1 DEF Fresh, Quiet
<1>3. Bare' /\ AtMostOnce'
  BY DEF Fresh, Bare, Untouched, AtMostOnce, Blank, Objects
<1>4. Idle'
  BY <1>3 DEF Fresh, Idle, Bare, ClosedDown
<1>5. DOMAIN object' = Objects /\ DOMAIN deletes' = Objects /\ tracer' \in BOOLEAN
  BY DEF Fresh, Blank
<1>6. \A t \in Threads : DOMAIN frames'[t] = {}
  BY <1>2, EmptySeq DEF Quiet
<1>7. FramesInv'
  BY <1>4, <1>6 DEF FramesInv, Busy, NoneBusy
<1> QED
  BY <1>2, <1>3, <1>5, <1>7 DEF TeardownInv, TeardownTyped, Fresh

LEMMA TeardownInit == ProgramStart => TeardownInv
<1> SUFFICES ASSUME ProgramStart PROVE TeardownInv
  OBVIOUS
<1>1. <<>> \in Seq(FrameRecord)
  BY EmptySeq
<1>2. frames \in [Threads -> Seq(FrameRecord)] /\ Quiet
  BY <1>1 DEF ProgramStart, Quiet
<1>3. Bare /\ AtMostOnce
  BY DEF ProgramStart, Bare, Untouched, AtMostOnce, Blank, Objects
<1>4. DOMAIN object = Objects /\ DOMAIN deletes = Objects /\ tracer \in BOOLEAN
  BY DEF ProgramStart, Blank
<1>5. Idle
  BY <1>3, BareIdle DEF ProgramStart
<1>6. FramesInv
  BY <1>2, <1>5, QuietFrames
<1> QED
  BY <1>2, <1>3, <1>4, <1>6 DEF TeardownInv, TeardownTyped, ProgramStart

\* A step of Init, or of a program without the library.
LEMMA SameFrames ==
  ASSUME TeardownInv, UNCHANGED frames, Idle', TeardownTyped',
         \A t \in Threads : \A i \in DOMAIN frames[t] :
           FrameKept(frames[t][i])' /\ (~Done(frames[t][i]) => frames[t][i].at = "check")
  PROVE  TeardownInv'
<1>1. \A t \in Threads : \A i \in DOMAIN frames'[t] : FrameKept(frames[t][i])'
  BY DEF FrameKept, Done
<1>2. \A t \in Threads : \A i \in DOMAIN frames'[t] :
        ~Done(frames'[t][i]) => i = Len(frames'[t]) /\ Stage(frames[t][i].at)'
  BY DEF TeardownInv, FramesInv, Stage
<1>3. \A t, u \in Threads : \A i, j \in Nat : Busy(t, i)' /\ Busy(u, j)' => t = u /\ i = j
  BY DEF TeardownInv, FramesInv, Busy
<1> QED
  BY <1>1, <1>2, <1>3 DEF TeardownInv, FramesInv

LEMMA TeardownNext ==
  ASSUME Overlap = FALSE, PreloadInv, TeardownInv, [Next]_vars
  PROVE  TeardownInv'
<1>1. ASSUME UNCHANGED <<tracer, heap, frames>>
      PROVE  /\ (ClosedDown <=> ClosedDown') /\ (Bare <=> Bare') /\ (Quiet <=> Quiet')
             /\ (AtMostOnce <=> AtMostOnce') /\ (Untouched <=> Untouched')
  BY <1>1 DEF heap, ClosedDown, AtMostOnce, Bare, Untouched, Quiet
<1>2. CASE LoadNothing \/ Exit \/ InitMismatch \/ InitHandlers
  <2>1. /\ loaded = "not" /\ UNCHANGED <<tracer, heap, frames>>
        /\ process' \in {"running", "ended", "init"} /\ process # "killed early"
        /\ loaded' = "not" => disposition' = disposition
        /\ process' = "init" => loaded' # "not"
    BY <1>2 DEF LoadNothing, Exit, InitMismatch, InitHandlers, Loading, handlers, TeardownInv, TeardownTyped
  <2>2. Quiet' /\ Bare' /\ AtMostOnce' /\ process' # "created"
    BY <1>1, <2>1 DEF TeardownInv, TeardownTyped
  <2>3. Idle' /\ ClosedDown'
    BY <2>2 DEF Idle, Bare, ClosedDown
  <2>4. \A t \in Threads : DOMAIN frames'[t] = {}
    BY <2>2, EmptySeq DEF Quiet
  <2>5. FramesInv'
    BY <2>3, <2>4 DEF FramesInv, Busy, NoneBusy
  <2> QED
    BY <2>1, <2>2, <2>3, <2>5 DEF TeardownInv, TeardownTyped, heap
<1>3. CASE InitCreate
  <2>1. /\ process = "init" /\ process' = "created" /\ DOMAIN object' = Objects
        /\ UNCHANGED <<loaded, tracer, deletes, reports, frames, disposition>>
    BY <1>3 DEF InitCreate, handlers
  <2>2. Bare /\ loaded # "not" /\ Initializing
    BY <2>1 DEF TeardownInv, TeardownTyped, PreloadInv, Initializing
  <2>3. Idle' /\ AtMostOnce'
    BY <2>1, <2>2 DEF Bare, Idle, Untouched, AtMostOnce
  <2>4. TeardownTyped'
    BY <2>1, <2>2, <2>3 DEF TeardownInv, TeardownTyped, Quiet
  <2>5. ASSUME NEW t \in Threads, NEW i \in DOMAIN frames[t]
        PROVE  FrameKept(frames[t][i])' /\ (~Done(frames[t][i]) => frames[t][i].at = "check")
    <3>1. FrameKept(frames[t][i]) /\ (~Done(frames[t][i]) => Stage(frames[t][i].at))
      BY DEF TeardownInv, FramesInv
    <3> QED
      BY <2>1, <2>2, <3>1 DEF FrameKept, Stage, Closed, Initializing, Done
  <2> QED
    BY <2>1, <2>3, <2>4, <2>5, SameFrames
<1>4. CASE InitAssign
  <2>1. /\ process = "created" /\ process' = "running" /\ tracer' = TRUE
        /\ UNCHANGED <<loaded, object, deletes, reports, frames, disposition>>
    BY <1>4 DEF InitAssign, handlers, heap
  <2>2. loaded # "not" /\ Initializing
    BY <2>1 DEF PreloadInv, Initializing
  <2>3. \A t \in Threads : \A i \in DOMAIN frames[t] :
          /\ FrameKept(frames[t][i])
          /\ ~Done(frames[t][i]) => frames[t][i].at = "check" /\ Idle
    BY <2>2 DEF TeardownInv, FramesInv, Stage
  <2>4. Idle
    BY <2>1, <2>3 DEF TeardownInv, FramesInv, NoneBusy
  <2>5. Idle' /\ AtMostOnce'
    BY <2>1, <2>4 DEF Idle, Untouched, AtMostOnce, Initializing
  <2>6. TeardownTyped'
    BY <2>1, <2>2, <2>5 DEF TeardownInv, TeardownTyped
  <2>7. ASSUME NEW t \in Threads, NEW i \in DOMAIN frames[t] PROVE FrameKept(frames[t][i])'
    <3>1. FrameKept(frames[t][i]) /\ ~Initializing' /\ ~Closed
      BY <2>1, <2>2, <2>3 DEF Closed, Initializing
    <3> QED
      BY <2>1, <3>1 DEF FrameKept
  <2> QED
    BY <2>1, <2>3, <2>5, <2>6, <2>7, SameFrames
<1>5. CASE Launch \/ Spawn
  BY <1>5, FreshFacts DEF Launch, Spawn
<1>6. Interruptible => NoneBusy
  BY DEF Interruptible, InTeardown, NoneBusy
<1>7. CASE Fini
  BY <1>6, <1>7, MainAssumption, PushKeeps DEF Fini, handlers, heap, Endings, Initializing
<1>8. ASSUME NEW t \in Threads, NEW sig \in Signals, SignalArrives(t, sig) PROVE TeardownInv'
  <2>1. loaded # "not"
    BY <1>8 DEF SignalArrives, TeardownInv, TeardownTyped, Handlers
  <2>2. /\ Push(t, sig) /\ NoneBusy /\ process' = process /\ process \notin Endings
        /\ process = "exiting" => ~Initializing
        /\ UNCHANGED <<loaded, disposition, tracer, object, deletes, reports>>
    BY <1>6, <1>8 DEF SignalArrives, Alive, Initializing, Endings, handlers, heap
  <2> QED
    BY <2>1, <2>2, FaultAssumption, PushKeeps
<1>9. ASSUME NEW t \in Threads, TeardownStep(t) PROVE TeardownInv'
  BY <1>9, TeardownStepKeeps
<1>10. CASE UNCHANGED vars
  <2>1. UNCHANGED <<process, loaded, disposition, tracer, object, deletes, reports, frames>>
    BY <1>10 DEF vars, handlers, heap
  <2>2. /\ (Idle <=> Idle') /\ (ClosedDown <=> ClosedDown') /\ (Bare <=> Bare') /\ (Closed <=> Closed')
        /\ (AtMostOnce <=> AtMostOnce') /\ (Quiet <=> Quiet')
    BY <2>1 DEF Idle, ClosedDown, AtMostOnce, Bare, Untouched, Closed, Initializing, Quiet
  <2>3. TeardownTyped'
    BY <2>1, <2>2 DEF TeardownInv, TeardownTyped
  <2>4. \A f : FrameKept(f) => FrameKept(f)'
    BY <2>1, <2>2 DEF FrameKept, Done, Initializing
  <2>5. \A at : Stage(at) => Stage(at)'
    BY <2>1, <2>2 DEF Stage, Initializing, Untouched
  <2>6. FramesInv'
    BY <2>1, <2>2, <2>4, <2>5 DEF TeardownInv, FramesInv, NoneBusy, Busy
  <2> QED
    BY <2>3, <2>6 DEF TeardownInv
<1> QED
  BY <1>2, <1>3, <1>4, <1>5, <1>7, <1>8, <1>9, <1>10 DEF Next, Init

\* If a signal arrives only while no Teardown is going on, then however many do,
\* during Init, before, after or instead of the exit, everything is deleted and
\* summed up once, and a process that ends leaves its trace open only if it is ended
\* by a handler that came before Init had assigned tracer (tracer.cc, Init, Teardown,
\* Fini and HandleAbnormalTermination; tracer.h, Create and ~UniTracer).
THEOREM TornDownOnceCorrect ==
  ASSUME Overlap = FALSE
  PROVE  Spec => []TornDownOnce
<1>1. TeardownInv => TornDownOnce
  BY DEF TeardownInv, TeardownTyped, TornDownOnce, ClosedDown, AtMostOnce
<1>2. TeardownInv /\ PreloadInv /\ [Next]_vars => TeardownInv'
  BY TeardownNext
<1> QED
  BY <1>1, <1>2, TeardownInit, PreloadInit, PreloadNext, PTL DEF Spec

--------------------------------------------------------------------------------
(* The table.                                                              *)

CallRecord == [name : Names, time : Durations]
CallsIn(e, n) == {i \in DOMAIN e : e[i].name = n}
TimesIn(e, n) == {e[i].time : i \in CallsIn(e, n)}
AllTimes(e) == [i \in DOMAIN e |-> e[i].time]

\* What one would compute from the calls.
TallyOf(e, n) ==
  [total |-> SumOn(AllTimes(e), CallsIn(e, n)), min |-> Min(TimesIn(e, n)),
   max |-> Max(TimesIn(e, n)), count |-> Cardinality(CallsIn(e, n))]

LEMMA TotalTime ==
  ASSUME NEW e, NEW S \in SUBSET (DOMAIN e)
  PROVE  MapThenSumSet(LAMBDA i : e[i].time, S) = SumOn(AllTimes(e), S)
<1> DEFINE Goes(g) == g = [s \in SUBSET S |-> IF s = {} THEN 0
                             ELSE e[CHOOSE x \in s : TRUE].time + g[s \ {CHOOSE x \in s : TRUE}]]
<1>1. MapThenSumSet(LAMBDA i : e[i].time, S) = (CHOOSE g : Goes(g))[S]
  BY DEF MapThenSumSet, MapThenFoldSet
<1>2. ASSUME NEW g PROVE Goes(g) <=> Sums(g, AllTimes(e), S)
  <2>1. ASSUME NEW s \in SUBSET S, s # {}
        PROVE  e[CHOOSE x \in s : TRUE].time + g[s \ {CHOOSE x \in s : TRUE}] = AllTimes(e)[Some(s)] + g[Rest(s)]
    <3>1. Some(s) \in DOMAIN e
      BY <2>1 DEF Some
    <3> QED
      BY <3>1 DEF Some, Rest, AllTimes
  <2> QED
    BY <2>1 DEF Sums
<1> HIDE DEF Goes
<1>3. (CHOOSE g : Goes(g)) = (CHOOSE g : Sums(g, AllTimes(e), S))
  BY <1>2
<1> QED
  BY <1>1, <1>3 DEF SumOn

\* Least and greatest of a finite set of numbers, and what one more does to them.
LEMMA Extremes ==
  ASSUME NEW T \in SUBSET Int, IsFiniteSet(T), T # {}, NEW t \in Int
  PROVE  /\ Min(T) \in T /\ Max(T) \in T
         /\ Min(T \cup {t}) = Least(Min(T), t) /\ Max(T \cup {t}) = Greatest(Max(T), t)
<1> DEFINE Up == {p \in Int \X Int : p[1] <= p[2]}
           Down == {p \in Int \X Int : p[1] >= p[2]}
<1>0. \A x, y \in Int : (<<x, y>> \in Up <=> x <= y) /\ (<<x, y>> \in Down <=> x >= y)
  OBVIOUS
<1> HIDE DEF Up, Down
<1>1. Orders(Up, T) /\ Orders(Down, T)
  BY <1>0 DEF Orders
<1>2. HasLast(T, Up)
  BY <1>1, LastInOrder
<1>3. HasLast(T, Down)
  BY <1>1, LastInOrder
<1>4. \E m \in T : \A x \in T : x <= m
  <2>1. PICK m \in T : \A x \in T \ {m} : <<x, m>> \in Up
    BY <1>2 DEF HasLast
  <2>2. ASSUME NEW x \in T PROVE x <= m
    <3>1. x \in Int /\ m \in Int /\ (x = m \/ x \in T \ {m})
      OBVIOUS
    <3>2. x = m \/ <<x, m>> \in Up
      BY <2>1, <3>1
    <3> QED
      BY <1>0, <3>1, <3>2
  <2> QED
    BY <2>2
<1>5. \E m \in T : \A x \in T : x >= m
  <2>1. PICK m \in T : \A x \in T \ {m} : <<x, m>> \in Down
    BY <1>3 DEF HasLast
  <2>2. ASSUME NEW x \in T PROVE x >= m
    <3>1. x \in Int /\ m \in Int /\ (x = m \/ x \in T \ {m})
      OBVIOUS
    <3>2. x = m \/ <<x, m>> \in Down
      BY <2>1, <3>1
    <3> QED
      BY <1>0, <3>1, <3>2
  <2> QED
    BY <2>2
<1>6. Max(T) \in T /\ \A x \in T : x <= Max(T)
  BY <1>4 DEF Max
<1>7. Min(T) \in T /\ \A x \in T : Min(T) <= x
  BY <1>5 DEF Min
<1>8. Max(T \cup {t}) = Greatest(Max(T), t)
  <2> DEFINE b == Max(T)
             m == Greatest(b, t)
  <2>0. b \in Int /\ b \in T /\ \A x \in T \cup {t} : x \in Int
    BY <1>6
  <2>1. m \in T \cup {t} /\ \A x \in T \cup {t} : x <= m
    <3>1. \A x \in T : x <= b
      BY <1>6
    <3> HIDE DEF b
    <3> QED
      BY <2>0, <3>1 DEF Greatest
  <2>2. \A y \in T \cup {t} : (\A x \in T \cup {t} : x <= y) => y = m
    <3> HIDE DEF m
    <3> QED
      BY <2>0, <2>1
  <2> HIDE DEF m
  <2>3. Max(T \cup {t}) = m
    BY <2>1, <2>2 DEF Max
  <2> QED
    BY <2>3 DEF m
<1>9. Min(T \cup {t}) = Least(Min(T), t)
  <2> DEFINE b == Min(T)
             m == Least(b, t)
  <2>0. b \in Int /\ b \in T /\ \A x \in T \cup {t} : x \in Int
    BY <1>7
  <2>1. m \in T \cup {t} /\ \A x \in T \cup {t} : m <= x
    <3>1. \A x \in T : b <= x
      BY <1>7
    <3> HIDE DEF b
    <3> QED
      BY <2>0, <3>1 DEF Least
  <2>2. \A y \in T \cup {t} : (\A x \in T \cup {t} : y <= x) => y = m
    <3> HIDE DEF m
    <3> QED
      BY <2>0, <2>1
  <2> HIDE DEF m
  <2>3. Min(T \cup {t}) = m
    BY <2>1, <2>2 DEF Min
  <2> QED
    BY <2>3 DEF m
<1> QED
  BY <1>6, <1>7, <1>8, <1>9

LEMMA CallsFinite ==
  ASSUME NEW e \in Seq(CallRecord), NEW n
  PROVE  /\ Len(e) \in Nat /\ DOMAIN e = 1..Len(e) /\ \A i \in 1..Len(e) : e[i] \in CallRecord
         /\ IsFiniteSet(CallsIn(e, n)) /\ IsFiniteSet(TimesIn(e, n)) /\ TimesIn(e, n) \subseteq Nat
         /\ CallsIn(e, n) = {} <=> TimesIn(e, n) = {}
         /\ Cardinality(CallsIn(e, n)) \in Nat
<1>1. Len(e) \in Nat /\ DOMAIN e = 1..Len(e) /\ \A i \in 1..Len(e) : e[i] \in CallRecord
  BY LenProperties, ElementOfSeq
<1>2. IsFiniteSet(CallsIn(e, n))
  <2>1. CallsIn(e, n) \in SUBSET (1..Len(e)) /\ IsFiniteSet(1..Len(e))
    BY <1>1, FS_Interval DEF CallsIn
  <2> QED
    BY <2>1, FS_Subset
<1>3. IsFiniteSet(TimesIn(e, n))
  <2> DEFINE f == [i \in CallsIn(e, n) |-> e[i].time]
  <2>1. f \in Surjection(CallsIn(e, n), TimesIn(e, n))
    BY DEF Surjection, TimesIn
  <2> HIDE DEF f
  <2> QED
    BY <1>2, <2>1, FS_Surjection
<1>4. TimesIn(e, n) \subseteq Nat
  BY <1>1, DurationAssumption DEF TimesIn, CallsIn, CallRecord
<1> QED
  BY <1>1, <1>2, <1>3, <1>4, FS_CardinalityType DEF TimesIn

\* One more call is tallied.
LEMMA OneMoreCall ==
  ASSUME NEW e \in Seq(CallRecord), NEW r \in CallRecord, NEW n
  PROVE  /\ r.name # n => CallsIn(Append(e, r), n) = CallsIn(e, n) /\ TallyOf(Append(e, r), n) = TallyOf(e, n)
         /\ r.name = n =>
              /\ CallsIn(Append(e, r), n) # {}
              /\ TallyOf(Append(e, r), n) =
                   IF CallsIn(e, n) = {} THEN First(r.time) ELSE Updated(TallyOf(e, n), r.time)
<1> DEFINE a == Append(e, r)
           k == Len(e) + 1
           S == CallsIn(e, n)
           T == TimesIn(e, n)
<1>1. /\ a \in Seq(CallRecord) /\ Len(a) = k /\ DOMAIN a = 1..k /\ a[k] = r /\ Len(e) \in Nat
      /\ DOMAIN e = 1..Len(e) /\ \A i \in 1..Len(e) : a[i] = e[i] /\ e[i] \in CallRecord
  BY CallsFinite, AppendProperties, LenProperties
<1> HIDE DEF a
<1>2. /\ k \notin DOMAIN e /\ DOMAIN a = DOMAIN e \cup {k} /\ \A i \in DOMAIN e : a[i] = e[i]
      /\ k \in DOMAIN a /\ r.time \in Nat /\ \A i \in DOMAIN a : a[i].time \in Nat
  <2>1. k \notin DOMAIN e /\ DOMAIN a = DOMAIN e \cup {k} /\ (\A i \in DOMAIN e : a[i] = e[i]) /\ k \in DOMAIN a
    BY <1>1
  <2>2. \A q \in CallRecord : q.time \in Nat
    BY DurationAssumption DEF CallRecord
  <2>3. \A i \in DOMAIN a : a[i] \in CallRecord
    BY <1>1, <2>1
  <2> QED
    BY <2>1, <2>2, <2>3
<1> HIDE DEF k
<1>3. IsFiniteSet(S) /\ IsFiniteSet(T) /\ T \subseteq Nat /\ S \subseteq DOMAIN e /\ (S = {} <=> T = {})
  BY CallsFinite DEF CallsIn
<1>4. \A i \in S : AllTimes(e)[i] \in Nat /\ AllTimes(e)[i] = AllTimes(a)[i]
  BY <1>2, <1>3 DEF AllTimes
<1>5. SumOn(AllTimes(a), S) = SumOn(AllTimes(e), S)
  <2> HIDE DEF S
  <2> QED
    BY <1>3, <1>4, SumOnAgrees
<1>6. ASSUME r.name # n PROVE CallsIn(a, n) = S /\ TallyOf(a, n) = TallyOf(e, n)
  <2>1. CallsIn(a, n) = S
    BY <1>1, <1>2, <1>6 DEF CallsIn
  <2>2. TimesIn(a, n) = T
    BY <1>2, <1>3, <2>1 DEF TimesIn
  <2> QED
    BY <1>5, <2>1, <2>2 DEF TallyOf
<1>7. ASSUME r.name = n
      PROVE  /\ CallsIn(a, n) # {}
             /\ TallyOf(a, n) = IF S = {} THEN First(r.time) ELSE Updated(TallyOf(e, n), r.time)
  <2>1. CallsIn(a, n) = S \cup {k} /\ k \notin S
    BY <1>1, <1>2, <1>7 DEF CallsIn
  <2>2. TimesIn(a, n) = T \cup {r.time}
    BY <1>1, <1>2, <1>3, <2>1 DEF TimesIn
  <2>3. SumOn(AllTimes(a), S \cup {k}) = r.time + SumOn(AllTimes(e), S)
    <3>1. AllTimes(a)[k] = r.time /\ \A i \in S \cup {k} : AllTimes(a)[i] \in Nat
      BY <1>1, <1>2, <1>3 DEF AllTimes
    <3>2. IsFiniteSet(S) /\ k \notin S
      BY <1>3, <2>1
    <3> HIDE DEF S
    <3>3. SumOn(AllTimes(a), S \cup {k}) = AllTimes(a)[k] + SumOn(AllTimes(a), S)
      BY ONLY <3>1, <3>2, SumOnOneMore
    <3> QED
      BY <1>5, <3>1, <3>3
  <2>4. Cardinality(S \cup {k}) = Cardinality(S) + 1
    <3> HIDE DEF S
    <3> QED
      BY <1>3, <2>1, FS_AddElement
  <2>5. CASE S = {}
    <3>1. SumOn(AllTimes(e), S) = 0 /\ Cardinality(S) = 0
      BY <2>5, SumOnEmpty, FS_EmptySet
    <3>2. T \cup {r.time} = {r.time}
      BY <1>3, <2>5
    <3>3. Min({r.time}) = r.time /\ Max({r.time}) = r.time
      BY <1>2 DEF Min, Max
    <3>4. /\ SumOn(AllTimes(a), CallsIn(a, n)) = r.time /\ Cardinality(CallsIn(a, n)) = 1
          /\ Min(TimesIn(a, n)) = r.time /\ Max(TimesIn(a, n)) = r.time
      <4>1. r.time + 0 = r.time /\ 0 + 1 = 1
        BY <1>2
      <4> HIDE DEF S, T
      <4> QED
        BY <2>1, <2>2, <2>3, <2>4, <3>1, <3>2, <3>3, <4>1
    <3>5. TallyOf(a, n) = First(r.time)
      BY <3>4 DEF TallyOf, First
    <3> QED
      BY <2>1, <2>5, <3>5
  <2>6. CASE S # {}
    <3>1. Min(T \cup {r.time}) = Least(Min(T), r.time) /\ Max(T \cup {r.time}) = Greatest(Max(T), r.time)
      <4>1. T \in SUBSET Int /\ IsFiniteSet(T) /\ T # {} /\ r.time \in Int
        BY <1>2, <1>3, <2>6
      <4> HIDE DEF T
      <4> QED
        BY <4>1, Extremes
    <3>2. SumOn(AllTimes(e), S) \in Nat
      <4> HIDE DEF S
      <4> QED
        BY <1>3, <1>4, SumOnIs
    <3>3. r.time + SumOn(AllTimes(e), S) = SumOn(AllTimes(e), S) + r.time
      BY <1>2, <3>2
    <3>4. TallyOf(a, n) = Updated(TallyOf(e, n), r.time)
      <4>1. TallyOf(e, n) = [total |-> SumOn(AllTimes(e), S), min |-> Min(T), max |-> Max(T), count |-> Cardinality(S)]
        BY DEF TallyOf
      <4>2. TallyOf(a, n) = [total |-> SumOn(AllTimes(e), S) + r.time, min |-> Least(Min(T), r.time),
                             max |-> Greatest(Max(T), r.time), count |-> Cardinality(S) + 1]
        BY <2>1, <2>2, <2>3, <2>4, <3>1, <3>3 DEF TallyOf
      <4> HIDE DEF S, T
      <4> QED
        BY <4>1, <4>2 DEF Updated
    <3> QED
      BY <2>1, <2>6, <3>4
  <2> QED
    BY <2>5, <2>6
<1> QED
  BY <1>6, <1>7 DEF a

--------------------------------------------------------------------------------
\* The map has the tally of each oneCCL function that was called.
Tallied ==
  /\ ended \in Seq(CallRecord)
  /\ DOMAIN info = {n \in CclNames : CallsIn(ended, n) # {}}
  /\ \A n \in DOMAIN info : info[n] = TallyOf(ended, n)

CclInv ==
  /\ Tallied
  /\ reported => report = IF DOMAIN info = {} \/ TotalDuration = 0 THEN None
                          ELSE [rows |-> Rows, total |-> TotalDuration]

LEMMA CclStart ==
  ASSUME info' = << >>, ended' = <<>>, reported' = FALSE
  PROVE  CclInv'
<1>1. ended' \in Seq(CallRecord) /\ \A n : CallsIn(ended', n) = {}
  BY DEF CallsIn
<1>2. DOMAIN info' = {}
  OBVIOUS
<1> QED
  BY <1>1, <1>2 DEF CclInv, Tallied

LEMMA CclInvInit == CclInit => CclInv
<1> SUFFICES ASSUME CclInit PROVE CclInv
  OBVIOUS
<1>1. ended \in Seq(CallRecord) /\ (\A n : CallsIn(ended, n) = {}) /\ DOMAIN info = {} /\ ~reported
  BY DEF CclInit, CallsIn
<1> QED
  BY <1>1 DEF CclInv, Tallied

LEMMA CclInvNext == CclInv /\ [CclNext]_cclVars => CclInv'
<1> SUFFICES ASSUME CclInv, [CclNext]_cclVars PROVE CclInv'
  OBVIOUS
<1>1. ASSUME NEW name \in Names, NEW time \in Durations, AddFunctionTime(name, time) PROVE CclInv'
  <2> DEFINE r == [name |-> name, time |-> time]
  <2>1. /\ r \in CallRecord /\ r.name = name /\ r.time = time
        /\ ended' = Append(ended, r) /\ reported' = reported /\ ~reported
        /\ ended \in Seq(CallRecord)
        /\ info' = IF name \notin CclNames THEN info
                   ELSE [n \in DOMAIN info \cup {name} |->
                           IF n # name THEN info[n]
                           ELSE IF name \in DOMAIN info THEN Updated(info[name], time) ELSE First(time)]
    BY <1>1 DEF AddFunctionTime, CallRecord, CclInv, Tallied
  <2> HIDE DEF r
  <2>2. ended' \in Seq(CallRecord)
    BY <2>1, AppendProperties
  <2>3. ASSUME NEW n
        PROVE  /\ name # n => CallsIn(ended', n) = CallsIn(ended, n) /\ TallyOf(ended', n) = TallyOf(ended, n)
               /\ name = n =>
                    /\ CallsIn(ended', n) # {}
                    /\ TallyOf(ended', n) =
                         IF CallsIn(ended, n) = {} THEN First(time) ELSE Updated(TallyOf(ended, n), time)
    BY <2>1, OneMoreCall
  <2>4. DOMAIN info = {n \in CclNames : CallsIn(ended, n) # {}} /\ \A n \in DOMAIN info : info[n] = TallyOf(ended, n)
    BY DEF CclInv, Tallied
  <2>5. DOMAIN info' = {n \in CclNames : CallsIn(ended', n) # {}}
    BY <2>1, <2>3, <2>4
  <2>6. ASSUME NEW n \in DOMAIN info' PROVE info'[n] = TallyOf(ended', n)
    <3>1. CASE n # name
      <4>1. n \in DOMAIN info /\ info'[n] = info[n]
        BY <2>1, <2>6, <3>1
      <4> QED
        BY <2>3, <2>4, <3>1, <4>1
    <3>2. CASE n = name
      <4>1. n \in CclNames
        BY <2>5
      <4>2. info'[n] = IF n \in DOMAIN info THEN Updated(info[n], time) ELSE First(time)
        BY <2>1, <3>2, <4>1
      <4> QED
        BY <2>3, <2>4, <3>2, <4>1, <4>2
    <3> QED
      BY <3>1, <3>2
  <2> QED
    BY <2>1, <2>2, <2>5, <2>6 DEF CclInv, Tallied
<1>2. CASE CclSummaryReport
  <2>1. Rows' = Rows /\ TotalDuration' = TotalDuration
    BY <1>2 DEF CclSummaryReport, Rows, InOrder, TotalDuration, Kept, Row
  <2> QED
    BY <1>2, <2>1 DEF CclSummaryReport, CclInv, Tallied
<1>3. CASE UNCHANGED cclVars
  <2>1. Rows' = Rows /\ TotalDuration' = TotalDuration
    BY <1>3 DEF cclVars, Rows, InOrder, TotalDuration, Kept, Row
  <2> QED
    BY <1>3, <2>1 DEF cclVars, CclInv, Tallied
<1> QED
  BY <1>1, <1>2, <1>3 DEF CclNext

\* Of two functions one is first, so the sorted set drops none.
LEMMA BeforeOrders ==
  ASSUME CclInv
  PROVE  /\ Kept = DOMAIN info /\ IsFiniteSet(Kept)
         /\ \A n \in Kept : n \in Int /\ info[n].total \in Nat /\ info[n].count \in Nat
         /\ \A m, n \in Kept : Before(m, info[m], n, info[n]) => info[m].total >= info[n].total
         /\ Orders({p \in Kept \X Kept : Before(p[1], info[p[1]], p[2], info[p[2]])}, Kept)
<1>1. ASSUME NEW n \in DOMAIN info PROVE n \in Int /\ info[n].total \in Nat /\ info[n].count \in Nat
  <2>1. n \in Int
    BY NamesAssumption DEF CclInv, Tallied
  <2>2. info[n] = TallyOf(ended, n) /\ ended \in Seq(CallRecord)
    BY DEF CclInv, Tallied
  <2>3. Cardinality(CallsIn(ended, n)) \in Nat /\ IsFiniteSet(CallsIn(ended, n))
    BY <2>2, CallsFinite
  <2>4. \A i \in CallsIn(ended, n) : AllTimes(ended)[i] \in Nat
    BY <2>2, CallsFinite, DurationAssumption DEF AllTimes, CallsIn, CallRecord
  <2>5. SumOn(AllTimes(ended), CallsIn(ended, n)) \in Nat
    BY <2>3, <2>4, SumOnIs
  <2> QED
    BY <2>1, <2>2, <2>3, <2>5 DEF TallyOf
<1>2. ASSUME NEW m \in DOMAIN info, NEW n \in DOMAIN info
      PROVE  Before(m, info[m], n, info[n]) <=>
               \/ info[m].total > info[n].total
               \/ info[m].total = info[n].total /\ info[m].count > info[n].count
               \/ info[m].total = info[n].total /\ info[m].count = info[n].count /\ m > n
  BY <1>1 DEF Before, Differs, Greater
<1>3. Kept = DOMAIN info
  <2>1. \A m, n \in DOMAIN info : m < n => Before(m, info[m], n, info[n]) \/ Before(n, info[n], m, info[m])
    BY <1>1, <1>2
  <2> QED
    BY <2>1 DEF Kept
<1> DEFINE D == DOMAIN info
           R == {p \in D \X D : Before(p[1], info[p[1]], p[2], info[p[2]])}
<1>4. ASSUME NEW m \in D, NEW n \in D PROVE <<m, n>> \in R <=> Before(m, info[m], n, info[n])
  OBVIOUS
<1> HIDE DEF R
<1>5. Orders(R, D)
  BY <1>1, <1>2, <1>4 DEF Orders
<1>6. IsFiniteSet(D)
  <2>1. ended \in Seq(CallRecord) /\ \A n \in D : CallsIn(ended, n) # {}
    BY DEF CclInv, Tallied
  <2>2. DOMAIN ended = 1..Len(ended) /\ Len(ended) \in Nat
    BY <2>1, CallsFinite
  <2> DEFINE called == {ended[i].name : i \in 1..Len(ended)}
             f == [i \in 1..Len(ended) |-> ended[i].name]
  <2>6. f \in Surjection(1..Len(ended), called)
    BY DEF Surjection
  <2>3. IsFiniteSet(1..Len(ended))
    BY <2>2, FS_Interval
  <2>4. IsFiniteSet(called)
    <3> HIDE DEF f, called
    <3> QED
      BY <2>3, <2>6, FS_Surjection
  <2>5. D \subseteq called
    BY <2>1, <2>2 DEF CallsIn
  <2> QED
    BY <2>4, <2>5, FS_Subset
<1> QED
  BY <1>1, <1>2, <1>3, <1>5, <1>6 DEF R

LEMMA RowsInOrder ==
  ASSUME CclInv
  PROVE  /\ {Rows[i].name : i \in DOMAIN Rows} = DOMAIN info
         /\ \A i, j \in DOMAIN Rows : i < j => Rows[i].total >= Rows[j].total
         /\ DOMAIN Rows = 1..Cardinality(DOMAIN info)
         /\ \A i \in DOMAIN Rows : Rows[i] = Row(Rows[i].name)
         /\ \A i, j \in DOMAIN Rows : i # j => Rows[i].name # Rows[j].name
<1> DEFINE R == {p \in Kept \X Kept : Before(p[1], info[p[1]], p[2], info[p[2]])}
           K == Kept
           c == CHOOSE order \in SetToSeqs(Kept) : InOrder(order)
<1>1. /\ K = DOMAIN info /\ IsFiniteSet(K) /\ Orders(R, K)
      /\ \A n \in K : n \in Int /\ info[n].total \in Nat /\ info[n].count \in Nat
      /\ \A m, n \in K : Before(m, info[m], n, info[n]) => info[m].total >= info[n].total
  BY BeforeOrders
<1>2. ASSUME NEW m \in K, NEW n \in K PROVE <<m, n>> \in R <=> Before(m, info[m], n, info[n])
  OBVIOUS
<1>3. SetToSeqs(Kept) = {f \in [1..Cardinality(K) -> K] : \A i, j \in 1..Cardinality(K) : i # j => f[i] # f[j]}
  BY DEF SetToSeqs
<1>4. Rows = [i \in DOMAIN c |-> Row(c[i])]
  BY DEF Rows
<1> HIDE DEF R, K, c
<1>5. PICK o : Ordered(o, R, K)
  BY <1>1, OrderExists
<1>6. o \in SetToSeqs(Kept) /\ InOrder(o)
  BY <1>2, <1>3, <1>5 DEF Ordered, InOrder
<1>7. c \in SetToSeqs(Kept) /\ InOrder(c)
  BY <1>6 DEF c
<1>8. c \in [1..Cardinality(K) -> K] /\ \A i, j \in 1..Cardinality(K) : i # j => c[i] # c[j]
  BY <1>3, <1>7
<1>9. \A n \in K : \E i \in 1..Cardinality(K) : c[i] = n
  <2>1. c \in Injection(1..Cardinality(K), K)
    BY <1>8 DEF Injection, IsInjective
  <2>2. Cardinality(1..Cardinality(K)) = Cardinality(K) /\ Cardinality(K) \in Nat
    BY <1>1, FS_Interval, FS_CardinalityType
  <2>3. c \in Surjection(1..Cardinality(K), K)
    BY <1>1, <2>1, <2>2, FS_Injection
  <2> QED
    BY <2>3 DEF Surjection
<1>10. DOMAIN Rows = 1..Cardinality(K) /\ \A i \in 1..Cardinality(K) : Rows[i] = Row(c[i])
  BY <1>4, <1>8
<1>11. \A n : Row(n).name = n /\ Row(n).total = info[n].total
  BY DEF Row
<1>12. {Rows[i].name : i \in DOMAIN Rows} = K
  BY <1>8, <1>9, <1>10, <1>11
<1>13. ASSUME NEW i \in DOMAIN Rows, NEW j \in DOMAIN Rows, i < j PROVE Rows[i].total >= Rows[j].total
  <2>1. Before(c[i], info[c[i]], c[j], info[c[j]])
    BY <1>7, <1>8, <1>10, <1>13 DEF InOrder
  <2> QED
    BY <1>1, <1>8, <1>10, <1>11, <2>1
<1>14. \A i, j \in DOMAIN Rows : i # j => Rows[i].name # Rows[j].name
  BY <1>8, <1>10, <1>11
<1> QED
  BY <1>1, <1>10, <1>11, <1>12, <1>13, <1>14

LEMMA TableFollows == CclInv => TableMatchesCalls
<1> SUFFICES ASSUME CclInv PROVE TableMatchesCalls
  OBVIOUS
<1>1. ASSUME NEW n \in CclNames
      PROVE  IF Calls(n) = {} THEN n \notin DOMAIN info
             ELSE info[n] = [total |-> MapThenSumSet(LAMBDA i : ended[i].time, Calls(n)),
                             min |-> Min(Times(n)), max |-> Max(Times(n)), count |-> Cardinality(Calls(n))]
  <2>1. Calls(n) = CallsIn(ended, n) /\ Times(n) = TimesIn(ended, n)
    BY DEF Calls, CallsIn, Times, TimesIn
  <2>2. MapThenSumSet(LAMBDA i : ended[i].time, Calls(n)) = SumOn(AllTimes(ended), Calls(n))
    <3>1. Calls(n) \in SUBSET (DOMAIN ended)
      BY DEF Calls
    <3> QED
      BY <3>1, TotalTime
  <2> QED
    BY <2>1, <2>2 DEF CclInv, Tallied, TallyOf
<1>2. ASSUME reported, report # None
      PROVE  /\ {report.rows[i].name : i \in DOMAIN report.rows} = DOMAIN info
             /\ \A i, j \in DOMAIN report.rows : i < j => report.rows[i].total >= report.rows[j].total
             /\ report.total = SumFunctionOnSet([n \in DOMAIN info |-> info[n].total], DOMAIN info)
  <2>1. report.rows = Rows /\ report.total = TotalDuration
    BY <1>2 DEF CclInv
  <2>2. TotalDuration = SumFunctionOnSet([n \in DOMAIN info |-> info[n].total], DOMAIN info)
    BY BeforeOrders DEF TotalDuration
  <2> QED
    BY <2>1, <2>2, RowsInOrder
<1> QED
  BY <1>1, <1>2 DEF TableMatchesCalls

\* Whatever calls end, in any number and order, the table has for each oneCCL
\* function what one would compute from all its calls, and drops none
\* (itt_collector.h, AddFunctionTime and CclSummaryReport; utils.h, Comparator).
THEOREM TableCorrect == CclSpec => []TableMatchesCalls
<1> QED
  BY CclInvInit, CclInvNext, TableFollows, PTL DEF CclSpec

--------------------------------------------------------------------------------
(* The aggregators.                                                        *)

LEMMA SumOfIs ==
  ASSUME NEW values
  PROVE  SumOf(values) = SumOn(values, DOMAIN values)
<1> DEFINE S == DOMAIN values
           Goes(g) == g = [s \in SUBSET S |-> IF s = {} THEN 0
                             ELSE values[CHOOSE x \in s : TRUE] + g[s \ {CHOOSE x \in s : TRUE}]]
<1>1. SumOf(values) = (CHOOSE g : Goes(g))[S]
  BY DEF SumOf, MapThenSumSet, MapThenFoldSet
<1>2. ASSUME NEW g PROVE Goes(g) <=> Sums(g, values, S)
  BY DEF Sums, Some, Rest
<1> HIDE DEF Goes
<1>3. (CHOOSE g : Goes(g)) = (CHOOSE g : Sums(g, values, S))
  BY <1>2
<1> QED
  BY <1>1, <1>3 DEF SumOn

\* Sorting leaves the same values, in ascending order.
LEMMA SortedIs ==
  ASSUME NEW N \in Nat \ {0}, NEW values \in [1..N -> Nat]
  PROVE  /\ Sorted(values) \in [1..N -> Nat]
         /\ \A i, j \in 1..N : i <= j => Sorted(values)[i] <= Sorted(values)[j]
         /\ \A i \in 1..N : Sorted(values)[1] <= values[i] /\ values[i] <= Sorted(values)[N]
<1> DEFINE K == 1..N
           R == {p \in K \X K : values[p[1]] <= values[p[2]]}
           c == CHOOSE order \in SetToSeqs(DOMAIN values) : Ascending(values, order)
<1>1. DOMAIN values = K /\ IsFiniteSet(K) /\ Cardinality(K) = N /\ \A i \in K : values[i] \in Nat
  <2>1. IsFiniteSet(1..N) /\ Cardinality(1..N) = IF 1 > N THEN 0 ELSE N - 1 + 1
    BY FS_Interval
  <2>2. Cardinality(1..N) = N
    BY <2>1
  <2> QED
    BY <2>1, <2>2
<1>2. ASSUME NEW m \in K, NEW n \in K PROVE <<m, n>> \in R <=> values[m] <= values[n]
  OBVIOUS
<1>3. SetToSeqs(DOMAIN values) = {f \in [1..N -> K] : \A i, j \in 1..N : i # j => f[i] # f[j]}
  BY <1>1 DEF SetToSeqs
<1>4. Sorted(values) = [i \in DOMAIN c |-> values[c[i]]]
  BY DEF Sorted
<1> HIDE DEF R, c
<1>5. Orders(R, K)
  <2> HIDE DEF K
  <2>1. ASSUME NEW x \in K, NEW y \in K PROVE <<x, y>> \in R \/ <<y, x>> \in R
    <3>1. values[x] \in Nat /\ values[y] \in Nat
      BY <1>1
    <3>2. values[x] <= values[y] \/ values[y] <= values[x]
      BY ONLY <3>1
    <3> QED
      BY <1>2, <3>2
  <2>2. ASSUME NEW x \in K, NEW y \in K, NEW z \in K, <<x, y>> \in R, <<y, z>> \in R PROVE <<x, z>> \in R
    <3>1. values[x] \in Nat /\ values[y] \in Nat /\ values[z] \in Nat
      BY <1>1
    <3>2. values[x] <= values[y] /\ values[y] <= values[z]
      BY <1>2, <2>2
    <3>3. values[x] <= values[z]
      BY ONLY <3>1, <3>2
    <3> QED
      BY <1>2, <3>3
  <2> QED
    BY <2>1, <2>2 DEF Orders
<1>6. PICK o : Ordered(o, R, K)
  BY <1>1, <1>5, OrderExists
<1>7. o \in SetToSeqs(DOMAIN values) /\ Ascending(values, o)
  BY <1>1, <1>2, <1>3, <1>6 DEF Ordered, Ascending
<1>8. c \in SetToSeqs(DOMAIN values) /\ Ascending(values, c)
  BY <1>7 DEF c
<1>9. c \in [1..N -> K] /\ (\A i, j \in 1..N : i # j => c[i] # c[j]) /\ DOMAIN c = 1..N
  BY <1>3, <1>8
<1>10. \A n \in K : \E i \in 1..N : c[i] = n
  <2>1. c \in Injection(1..N, K)
    BY <1>9 DEF Injection, IsInjective
  <2>2. c \in Surjection(1..N, K)
    BY <1>1, <2>1, FS_Injection
  <2> QED
    BY <2>2 DEF Surjection
<1>11. Sorted(values) \in [1..N -> Nat] /\ \A i \in 1..N : Sorted(values)[i] = values[c[i]]
  <2>1. ASSUME NEW i \in 1..N PROVE values[c[i]] \in Nat
    <3>1. c[i] \in K
      BY <1>9
    <3> QED
      BY <1>1, <3>1
  <2>2. Sorted(values) = [i \in 1..N |-> values[c[i]]]
    BY <1>4, <1>9
  <2> QED
    BY <2>1, <2>2
<1>12. ASSUME NEW i \in 1..N, NEW j \in 1..N, i <= j PROVE Sorted(values)[i] <= Sorted(values)[j]
  <2>1. CASE i = j
    <3>1. Sorted(values)[i] \in Nat
      BY <1>11
    <3> QED
      BY <2>1, <3>1
  <2>2. CASE i < j
    <3>1. values[c[i]] <= values[c[j]]
      BY <1>8, <1>9, <2>2 DEF Ascending
    <3> QED
      BY <1>11, <3>1
  <2> QED
    BY <1>12, <2>1, <2>2
<1>13. ASSUME NEW i \in 1..N PROVE Sorted(values)[1] <= values[i] /\ values[i] <= Sorted(values)[N]
  <2>1. PICK k \in 1..N : c[k] = i
    BY <1>10
  <2>2. values[i] = Sorted(values)[k] /\ 1 \in 1..N /\ N \in 1..N /\ 1 <= k /\ k <= N
    BY <1>11, <2>1
  <2> QED
    BY <1>12, <2>2
<1> QED
  BY <1>11, <1>12, <1>13

\* The trimmed aggregates lie between the plain ones.
LEMMA AggregateIs ==
  ASSUME NEW N \in Nat \ {0}, NEW values \in [1..N -> Nat]
  PROVE  /\ Aggregate("min", values) \in Nat /\ Aggregate("max", values) \in Nat
         /\ Aggregate("min+1", values) \in Nat /\ Aggregate("max-1", values) \in Nat
         /\ Aggregate("min", values) <= Aggregate("min+1", values)
         /\ Aggregate("min+1", values) <= Aggregate("max-1", values)
         /\ Aggregate("max-1", values) <= Aggregate("max", values)
         /\ Aggregate("sum", values) = SumOn(values, DOMAIN values) /\ Aggregate("sum", values) \in Nat
<1> DEFINE v == Sorted(values)
<1>1. /\ v \in [1..N -> Nat] /\ \A i, j \in 1..N : i <= j => v[i] <= v[j]
      /\ \A i \in 1..N : v[1] <= values[i] /\ values[i] <= v[N]
  BY SortedIs
<1>2. Len(values) = N /\ Len(v) = N
  <2>1. values \in Seq(Nat) /\ v \in Seq(Nat)
    BY <1>1, SeqDef
  <2> QED
    BY <1>1, <2>1, LenProperties
<1>3. /\ Aggregate("min", values) = v[1] /\ Aggregate("max", values) = v[N]
      /\ Aggregate("sum", values) = SumOf(values)
      /\ Aggregate("min+1", values) = Second(values, 2) /\ Aggregate("max-1", values) = Second(values, N - 1)
  BY <1>2 DEF Aggregate, Last
<1>4. IsFiniteSet(1..N) /\ DOMAIN values = 1..N /\ \A i \in 1..N : values[i] \in Nat
  <2>1. 1 \in Int /\ N \in Int
    OBVIOUS
  <2>2. IsFiniteSet(1..N)
    BY ONLY <2>1, FS_Interval
  <2> QED
    BY <2>2
<1>5. SumOf(values) = SumOn(values, 1..N) /\ SumOf(values) \in Nat
  BY <1>4, SumOfIs, SumOnIs
<1> HIDE DEF v
<1>6. CASE N = 1
  <2>1. Second(values, 2) = values[1] /\ Second(values, N - 1) = values[1]
    BY <1>2, <1>6 DEF Second
  <2> QED
    BY <1>1, <1>3, <1>4, <1>5, <1>6, <2>1
<1>7. CASE N = 2
  <2>1. Second(values, 2) = SumOf(values) \div 2 /\ Second(values, N - 1) = SumOf(values) \div 2
    BY <1>2, <1>7 DEF Second
  <2>2. SumOf(values) = values[2] + values[1]
    <3>0. 1..2 = {1} \cup {2} /\ {1} = {} \cup {1} /\ 2 \notin {1} /\ 1 \notin {}
      OBVIOUS
    <3>1. IsFiniteSet({1}) /\ IsFiniteSet({})
      BY FS_Singleton, FS_EmptySet
    <3>2. values[1] \in Nat /\ values[2] \in Nat
      BY <1>4, <1>7
    <3>3. SumOn(values, {1} \cup {2}) = values[2] + SumOn(values, {1})
      BY <3>0, <3>1, <3>2, SumOnOneMore
    <3>4. SumOn(values, {} \cup {1}) = values[1] + SumOn(values, {})
      BY <3>0, <3>1, <3>2, SumOnOneMore
    <3>5. SumOn(values, {1}) = values[1]
      BY <3>0, <3>1, <3>2, <3>4, SumOnEmpty
    <3> QED
      BY <1>5, <1>7, <3>0, <3>3, <3>5
  <2>3. /\ v[1] \in Nat /\ v[2] \in Nat /\ values[1] \in Nat /\ values[2] \in Nat
        /\ v[1] <= values[1] /\ v[1] <= values[2] /\ values[1] <= v[2] /\ values[2] <= v[2]
    BY <1>1, <1>4, <1>7
  <2>4. \A x, y, p, q \in Nat : x <= p /\ x <= q /\ p <= y /\ q <= y =>
          x <= (q + p) \div 2 /\ (q + p) \div 2 <= y /\ (q + p) \div 2 \in Nat
    OBVIOUS
  <2>5. v[1] <= SumOf(values) \div 2 /\ SumOf(values) \div 2 <= v[2] /\ SumOf(values) \div 2 \in Nat
    BY <2>2, <2>3, <2>4
  <2>6. SumOf(values) \div 2 <= SumOf(values) \div 2
    BY <2>5
  <2> QED
    BY <1>3, <1>4, <1>5, <1>7, <2>1, <2>3, <2>5, <2>6
<1>8. CASE N > 2
  <2>1. Second(values, 2) = v[2] /\ Second(values, N - 1) = v[N - 1]
    BY <1>2, <1>8 DEF Second, v
  <2>2. 2 \in 1..N /\ N - 1 \in 1..N /\ N \in 1..N /\ 1 \in 1..N /\ 1 <= 2 /\ 2 <= N - 1 /\ N - 1 <= N
    BY <1>8
  <2> QED
    BY <1>1, <1>3, <1>4, <1>5, <2>1, <2>2
<1> QED
  BY <1>6, <1>7, <1>8

--------------------------------------------------------------------------------
(* The output.                                                             *)

Entry == [time : Nat, calls : Nat]

\* What the script has read: lists that are not empty, of finitely many names.
Listed(lists) ==
  IsFiniteSet(DOMAIN lists) /\ \A n \in DOMAIN lists : lists[n] \in Seq(Entry) /\ Len(lists[n]) > 0
MetricsTyped == DOMAIN metrics = 0..2 /\ \A s \in 0..2 : Listed(metrics[s])

TimesRead(x) == [i \in DOMAIN metrics[x[1]][x[2]] |-> metrics[x[1]][x[2]][i].time]
CallsRead(x) == [i \in DOMAIN metrics[x[1]][x[2]] |-> metrics[x[1]][x[2]][i].calls]
Cats == {CategoryIn(x) : x \in Subjects}
InCat == [c \in Cats |-> {x \in Subjects : CategoryIn(x) = c}]
ValueTimes(a) == [x \in Subjects |-> Aggregate(a, TimesRead(x))]
ValueCalls(a) == [x \in Subjects |-> Aggregate(a, CallsRead(x))]

CategorySum(a, S) ==
  MapThenFoldSet(Plus, Nothing, LAMBDA x : Value(a, x), LAMBDA X : CHOOSE x \in X : TRUE, S)
Written == [a \in Aggregators |-> [c \in Cats |-> CategorySum(a, {x \in Subjects : CategoryIn(x) = c})]]

LEMMA SubjectsFinite ==
  ASSUME MetricsTyped
  PROVE  /\ IsFiniteSet(Subjects) /\ IsFiniteSet(Cats)
         /\ \A x \in Subjects : /\ x = <<x[1], x[2]>> /\ x[1] \in 1..2 /\ x[2] \in DOMAIN metrics[x[1]]
                                /\ metrics[x[1]][x[2]] \in Seq(Entry) /\ Len(metrics[x[1]][x[2]]) > 0
<1> DEFINE p == [s \in 1..2 |-> {<<s, n>> : n \in DOMAIN metrics[s]}]
<1>1. ASSUME NEW s \in 1..2 PROVE IsFiniteSet(p[s])
  <2> DEFINE D == DOMAIN metrics[s]
             h == [n \in D |-> <<s, n>>]
             I == {<<s, n>> : n \in D}
  <2>1. IsFiniteSet(D)
    BY DEF MetricsTyped, Listed
  <2>2. h \in Surjection(D, I)
    BY DEF Surjection
  <2> HIDE DEF D, h, I
  <2>3. IsFiniteSet(I)
    BY <2>1, <2>2, FS_Surjection
  <2> QED
    BY <2>3 DEF I, D
<1>2. Subjects = p[1] \cup p[2]
  <2>1. 1..2 = {1, 2}
    OBVIOUS
  <2> QED
    BY <2>1 DEF Subjects
<1>3. IsFiniteSet(Subjects)
  <2>1. 1 \in 1..2 /\ 2 \in 1..2
    OBVIOUS
  <2> HIDE DEF p
  <2>2. IsFiniteSet(p[1]) /\ IsFiniteSet(p[2])
    BY <1>1, <2>1
  <2>3. IsFiniteSet(p[1] \cup p[2])
    BY ONLY <2>2, FS_Union
  <2> QED
    BY <1>2, <2>3
<1>4. IsFiniteSet(Cats)
  <2> DEFINE h == [x \in Subjects |-> CategoryIn(x)]
  <2>1. h \in Surjection(Subjects, Cats)
    BY DEF Surjection, Cats
  <2> HIDE DEF h
  <2> QED
    BY <1>3, <2>1, FS_Surjection
<1>5. ASSUME NEW x \in Subjects
      PROVE  /\ x = <<x[1], x[2]>> /\ x[1] \in 1..2 /\ x[2] \in DOMAIN metrics[x[1]]
             /\ metrics[x[1]][x[2]] \in Seq(Entry) /\ Len(metrics[x[1]][x[2]]) > 0
  <2>1. PICK s \in 1..2 : \E n \in DOMAIN metrics[s] : x = <<s, n>>
    BY DEF Subjects
  <2>2. PICK n \in DOMAIN metrics[s] : x = <<s, n>>
    BY <2>1
  <2> QED
    BY <2>2 DEF MetricsTyped, Listed
<1> QED
  BY <1>3, <1>4, <1>5

\* The values of one name.
LEMMA ValueIs ==
  ASSUME MetricsTyped, NEW x \in Subjects
  PROVE  /\ \A a \in Aggregators : ValueTimes(a)[x] \in Nat /\ ValueCalls(a)[x] \in Nat
         /\ ValueTimes("min")[x] <= ValueTimes("min+1")[x]
         /\ ValueTimes("min+1")[x] <= ValueTimes("max-1")[x]
         /\ ValueTimes("max-1")[x] <= ValueTimes("max")[x]
         /\ ValueTimes("sum")[x] = SumOn(TimesRead(x), DOMAIN TimesRead(x))
         /\ \A i \in DOMAIN metrics[x[1]][x[2]] : TimesRead(x)[i] \in Nat
         /\ IsFiniteSet(DOMAIN metrics[x[1]][x[2]])
<1> DEFINE e == metrics[x[1]][x[2]]
           N == Len(e)
<1>1. e \in Seq(Entry) /\ N \in Nat \ {0} /\ DOMAIN e = 1..N /\ \A i \in 1..N : e[i] \in Entry
  <2>1. e \in Seq(Entry) /\ N > 0
    BY SubjectsFinite
  <2> HIDE DEF e
  <2>2. N \in Nat /\ DOMAIN e = 1..N /\ \A i \in 1..N : e[i] \in Entry
    BY <2>1, LenProperties, ElementOfSeq
  <2> QED
    BY <2>1, <2>2
<1>2. TimesRead(x) \in [1..N -> Nat] /\ CallsRead(x) \in [1..N -> Nat]
  BY <1>1 DEF TimesRead, CallsRead, Entry
<1>3. IsFiniteSet(1..N)
  <2>1. 1 \in Int /\ N \in Int
    BY <1>1
  <2> QED
    BY ONLY <2>1, FS_Interval
<1>4. \A a : ValueTimes(a)[x] = Aggregate(a, TimesRead(x)) /\ ValueCalls(a)[x] = Aggregate(a, CallsRead(x))
  BY DEF ValueTimes, ValueCalls
<1> HIDE DEF N
<1>5. \A a \in Aggregators : Aggregate(a, TimesRead(x)) \in Nat /\ Aggregate(a, CallsRead(x)) \in Nat
  BY <1>1, <1>2, AggregateIs DEF Aggregators
<1>6. DOMAIN TimesRead(x) = 1..N
  BY <1>2
<1> QED
  BY <1>1, <1>2, <1>3, <1>4, <1>5, <1>6, AggregateIs

\* The values of a category are added up.
LEMMA CategoryTime ==
  ASSUME MetricsTyped, NEW a \in Aggregators, NEW S \in SUBSET Subjects
  PROVE  CategorySum(a, S).time = SumOn(ValueTimes(a), S)
<1> DEFINE Goes(g) == g = [s \in SUBSET S |-> IF s = {} THEN Nothing
                             ELSE Plus(Value(a, CHOOSE x \in s : TRUE), g[s \ {CHOOSE x \in s : TRUE}])]
           t == [x \in S |-> ValueTimes(a)[x]]
           k == [x \in S |-> ValueCalls(a)[x]]
<1>1. CategorySum(a, S) = (CHOOSE g : Goes(g))[S]
  BY DEF CategorySum, MapThenFoldSet
<1>2. IsFiniteSet(S)
  BY SubjectsFinite, FS_Subset
<1>3. t \in [S -> Nat] /\ k \in [S -> Nat]
  BY ValueIs
<1>4. \A x \in S : Value(a, x) = [time |-> t[x], calls |-> k[x]]
  BY DEF Value, ValueTimes, ValueCalls, TimesRead, CallsRead
<1> HIDE DEF t, k
<1>5. ASSUME NEW g
      PROVE  Goes(g) <=> g = [s \in SUBSET S |-> IF s = {} THEN Nothing
                                ELSE [time |-> t[Some(s)] + g[Rest(s)].time, calls |-> k[Some(s)] + g[Rest(s)].calls]]
  <2>1. ASSUME NEW s \in SUBSET S, s # {}
        PROVE  Plus(Value(a, CHOOSE x \in s : TRUE), g[s \ {CHOOSE x \in s : TRUE}]) =
                 [time |-> t[Some(s)] + g[Rest(s)].time, calls |-> k[Some(s)] + g[Rest(s)].calls]
    <3>1. Some(s) \in S
      BY <2>1 DEF Some
    <3> QED
      BY <1>4, <3>1 DEF Some, Rest, Plus
  <2> QED
    BY <2>1
<1> HIDE DEF Goes
<1>6. \E g : Goes(g)
  <2>1. PICK gt : Sums(gt, t, S)
    BY <1>2, <1>3, SumExists
  <2>2. PICK gk : Sums(gk, k, S)
    BY <1>2, <1>3, SumExists
  <2> DEFINE g == [s \in SUBSET S |-> [time |-> gt[s], calls |-> gk[s]]]
  <2>3. ASSUME NEW s \in SUBSET S
        PROVE  [time |-> gt[s], calls |-> gk[s]] =
                 IF s = {} THEN Nothing
                 ELSE [time |-> t[Some(s)] + g[Rest(s)].time, calls |-> k[Some(s)] + g[Rest(s)].calls]
    <3>1. CASE s = {}
      BY <2>1, <2>2, <3>1 DEF Sums, Nothing
    <3>2. CASE s # {}
      <4>1. Rest(s) \in SUBSET S
        BY DEF Rest
      <4>2. gt[s] = t[Some(s)] + gt[Rest(s)] /\ gk[s] = k[Some(s)] + gk[Rest(s)]
        BY <2>1, <2>2, <3>2 DEF Sums
      <4> QED
        BY <3>2, <4>1, <4>2
    <3> QED
      BY <3>1, <3>2
  <2>4. g = [s \in SUBSET S |-> IF s = {} THEN Nothing
               ELSE [time |-> t[Some(s)] + g[Rest(s)].time, calls |-> k[Some(s)] + g[Rest(s)].calls]]
    BY <2>3
  <2> HIDE DEF g
  <2> QED
    BY <1>5, <2>4
<1> DEFINE c == CHOOSE g : Goes(g)
<1>7. Goes(c)
  BY <1>6
<1> HIDE DEF c
<1>8. c = [s \in SUBSET S |-> IF s = {} THEN Nothing
             ELSE [time |-> t[Some(s)] + c[Rest(s)].time, calls |-> k[Some(s)] + c[Rest(s)].calls]]
  BY <1>5, <1>7
<1> DEFINE h == [s \in SUBSET S |-> c[s].time]
<1>9. Sums(h, t, S)
  <2>1. ASSUME NEW s \in SUBSET S
        PROVE  c[s].time = IF s = {} THEN 0 ELSE t[Some(s)] + h[Rest(s)]
    <3>1. CASE s = {}
      <4>1. c[s] = Nothing
        BY <1>8, <3>1
      <4> QED
        BY <3>1, <4>1 DEF Nothing
    <3>2. CASE s # {}
      <4>1. Rest(s) \in SUBSET S
        BY DEF Rest
      <4>2. c[s] = [time |-> t[Some(s)] + c[Rest(s)].time, calls |-> k[Some(s)] + c[Rest(s)].calls]
        BY <1>8, <3>2
      <4> QED
        BY <3>2, <4>1, <4>2
    <3> QED
      BY <3>1, <3>2
  <2> QED
    BY <2>1 DEF Sums
<1>10. PICK m : Sums(m, t, S) /\ SumOn(t, S) = m[S]
  <2>1. \A x \in S : t[x] \in Nat
    BY <1>3
  <2> QED
    BY <1>2, <2>1, SumOnIs
<1> HIDE DEF h
<1>11. h[S] = m[S]
  <2>1. S \subseteq S /\ S \in SUBSET S
    OBVIOUS
  <2>2. \A s \in SUBSET S : h[s] = m[s]
    BY <1>2, <1>9, <1>10, <2>1, SumsAgree
  <2> QED
    BY <2>1, <2>2
<1>12. SumOn(t, S) = SumOn(ValueTimes(a), S)
  <2>1. \A x \in S : t[x] \in Nat /\ t[x] = ValueTimes(a)[x]
    BY <1>3 DEF t
  <2> QED
    BY <1>2, <2>1, SumOnAgrees
<1>13. CategorySum(a, S).time = h[S]
  BY <1>1 DEF h, c
<1> QED
  BY <1>10, <1>11, <1>12, <1>13

\* A sum over the output's categories, and one over the entries that were read.
LEMMA CategoriesAdded ==
  ASSUME NEW o, NEW S
  PROVE  MapThenSumSet(LAMBDA c : o[c].time, S) = SumOn([c \in S |-> o[c].time], S)
<1> DEFINE f == [c \in S |-> o[c].time]
           Goes(g) == g = [s \in SUBSET S |-> IF s = {} THEN 0
                             ELSE o[CHOOSE x \in s : TRUE].time + g[s \ {CHOOSE x \in s : TRUE}]]
<1>1. MapThenSumSet(LAMBDA c : o[c].time, S) = (CHOOSE g : Goes(g))[S]
  BY DEF MapThenSumSet, MapThenFoldSet
<1>2. ASSUME NEW g PROVE Goes(g) <=> Sums(g, f, S)
  <2>1. ASSUME NEW s \in SUBSET S, s # {} PROVE f[Some(s)] = o[CHOOSE x \in s : TRUE].time
    <3>1. Some(s) \in S
      BY <2>1 DEF Some
    <3> QED
      BY <3>1 DEF Some
  <2> HIDE DEF f
  <2> QED
    BY <2>1 DEF Sums, Rest, Some
<1> HIDE DEF Goes, f
<1>3. (CHOOSE g : Goes(g)) = (CHOOSE g : Sums(g, f, S))
  BY <1>2
<1> QED
  BY <1>1, <1>3 DEF SumOn, f

EntryTimes == [e \in EntriesRead |-> metrics[e[1]][e[2]][e[3]].time]

LEMMA EntriesAdded ==
  MapThenSumSet(LAMBDA e : metrics[e[1]][e[2]][e[3]].time, EntriesRead) = SumOn(EntryTimes, EntriesRead)
<1> DEFINE S == EntriesRead
           Goes(g) == g = [s \in SUBSET S |-> IF s = {} THEN 0
                             ELSE metrics[(CHOOSE x \in s : TRUE)[1]][(CHOOSE x \in s : TRUE)[2]][(CHOOSE x \in s : TRUE)[3]].time
                                    + g[s \ {CHOOSE x \in s : TRUE}]]
<1>1. MapThenSumSet(LAMBDA e : metrics[e[1]][e[2]][e[3]].time, S) = (CHOOSE g : Goes(g))[S]
  BY DEF MapThenSumSet, MapThenFoldSet
<1>2. ASSUME NEW g PROVE Goes(g) <=> Sums(g, EntryTimes, S)
  <2>1. ASSUME NEW s \in SUBSET S, s # {}
        PROVE  EntryTimes[Some(s)] = metrics[(CHOOSE x \in s : TRUE)[1]][(CHOOSE x \in s : TRUE)[2]][(CHOOSE x \in s : TRUE)[3]].time
    <3>1. Some(s) \in S
      BY <2>1 DEF Some
    <3> QED
      BY <3>1 DEF Some, EntryTimes
  <2>2. [s \in SUBSET S |-> IF s = {} THEN 0
           ELSE metrics[(CHOOSE x \in s : TRUE)[1]][(CHOOSE x \in s : TRUE)[2]][(CHOOSE x \in s : TRUE)[3]].time
                  + g[s \ {CHOOSE x \in s : TRUE}]]
        = [s \in SUBSET S |-> IF s = {} THEN 0 ELSE EntryTimes[Some(s)] + g[Rest(s)]]
    BY <2>1 DEF Rest, Some
  <2> QED
    BY <2>2 DEF Sums
<1> HIDE DEF Goes, S
<1>3. (CHOOSE g : Goes(g)) = (CHOOSE g : Sums(g, EntryTimes, S))
  BY <1>2
<1> QED
  BY <1>1, <1>3 DEF SumOn, S

LEMMA OutputFollows ==
  ASSUME MetricsTyped, output # << >> => output = Written
  PROVE  OutputComplete
<1> SUFFICES ASSUME output = Written
             PROVE  /\ MapThenSumSet(LAMBDA c : output["sum"][c].time, DOMAIN output["sum"]) =
                         MapThenSumSet(LAMBDA e : metrics[e[1]][e[2]][e[3]].time, EntriesRead)
                    /\ \A c \in DOMAIN output["sum"] :
                         /\ output["min"][c].time <= output["min+1"][c].time
                         /\ output["min+1"][c].time <= output["max-1"][c].time
                         /\ output["max-1"][c].time <= output["max"][c].time
  BY DEF OutputComplete
<1>1. /\ IsFiniteSet(Subjects) /\ IsFiniteSet(Cats)
      /\ \A x \in Subjects : x = <<x[1], x[2]>>
  BY SubjectsFinite
<1>2. ASSUME NEW a \in Aggregators
      PROVE  /\ DOMAIN output[a] = Cats
             /\ \A c \in Cats : output[a][c].time = SumOn(ValueTimes(a), InCat[c])
  <2>1. output[a] = [c \in Cats |-> CategorySum(a, {x \in Subjects : CategoryIn(x) = c})]
    BY DEF Written
  <2>2. ASSUME NEW c \in Cats PROVE output[a][c].time = SumOn(ValueTimes(a), InCat[c])
    <3>1. output[a][c] = CategorySum(a, InCat[c]) /\ InCat[c] \in SUBSET Subjects
      BY <2>1 DEF InCat
    <3> QED
      BY <3>1, CategoryTime
  <2> QED
    BY <2>1, <2>2
<1>3. {"min", "max", "sum", "min+1", "max-1"} = Aggregators
  BY DEF Aggregators
<1>4. ASSUME NEW c \in DOMAIN output["sum"]
      PROVE  /\ output["min"][c].time <= output["min+1"][c].time
             /\ output["min+1"][c].time <= output["max-1"][c].time
             /\ output["max-1"][c].time <= output["max"][c].time
  <2>1. c \in Cats
    BY <1>2, <1>3
  <2> DEFINE S == InCat[c]
  <2>2. IsFiniteSet(S) /\ S \subseteq Subjects
    <3>1. S \subseteq Subjects
      BY <2>1 DEF InCat
    <3> QED
      BY <1>1, <3>1, FS_Subset
  <2>3. \A a \in Aggregators : output[a][c].time = SumOn(ValueTimes(a), S)
    BY <1>2, <2>1
  <2> HIDE DEF S
  <2>4. ASSUME NEW x \in S
        PROVE  /\ \A a \in Aggregators : ValueTimes(a)[x] \in Nat
               /\ ValueTimes("min")[x] <= ValueTimes("min+1")[x]
               /\ ValueTimes("min+1")[x] <= ValueTimes("max-1")[x]
               /\ ValueTimes("max-1")[x] <= ValueTimes("max")[x]
    BY <2>2, ValueIs
  <2>5. /\ SumOn(ValueTimes("min"), S) <= SumOn(ValueTimes("min+1"), S)
        /\ SumOn(ValueTimes("min+1"), S) <= SumOn(ValueTimes("max-1"), S)
        /\ SumOn(ValueTimes("max-1"), S) <= SumOn(ValueTimes("max"), S)
    BY <1>3, <2>2, <2>4, SumOnGrows
  <2> QED
    BY <1>3, <2>3, <2>5
<1>5. MapThenSumSet(LAMBDA c : output["sum"][c].time, DOMAIN output["sum"]) = SumOn(ValueTimes("sum"), Subjects)
  <2> DEFINE f == [c \in Cats |-> output["sum"][c].time]
             e == [c \in Cats |-> SumOn(ValueTimes("sum"), InCat[c])]
  <2>1. MapThenSumSet(LAMBDA c : output["sum"][c].time, DOMAIN output["sum"]) = SumOn(f, Cats)
    <3>1. MapThenSumSet(LAMBDA c : output["sum"][c].time, DOMAIN output["sum"]) =
            SumOn([c \in DOMAIN output["sum"] |-> output["sum"][c].time], DOMAIN output["sum"])
      BY CategoriesAdded
    <3>2. DOMAIN output["sum"] = Cats
      BY <1>2, <1>3
    <3> QED
      BY <3>1, <3>2
  <2>2. Parted(Subjects, InCat, Cats)
    <3>1. \A c \in Cats : InCat[c] = {x \in Subjects : CategoryIn(x) = c}
      BY DEF InCat
    <3>2. \A x \in Subjects : CategoryIn(x) \in Cats
      BY DEF Cats
    <3>3. \A c \in Cats : IsFiniteSet(InCat[c])
      BY <1>1, <3>1, FS_Subset
    <3> QED
      BY <3>1, <3>2, <3>3 DEF Parted
  <2>3. \A x \in Subjects : ValueTimes("sum")[x] \in Nat
    BY <1>3, ValueIs
  <2>4. SumOn(ValueTimes("sum"), Subjects) = SumOn(e, Cats)
    BY <1>1, <2>2, <2>3, SumOnParts
  <2>5. e = f
    BY <1>2, <1>3
  <2> QED
    BY <2>1, <2>4, <2>5
<1>6. SumOn(EntryTimes, EntriesRead) = SumOn(ValueTimes("sum"), Subjects)
  <2> DEFINE p == [x \in Subjects |-> {<<x[1], x[2], i>> : i \in DOMAIN metrics[x[1]][x[2]]}]
             e == [x \in Subjects |-> SumOn(EntryTimes, p[x])]
  <2>1. ASSUME NEW x \in Subjects
        PROVE  IsFiniteSet(p[x]) /\ p[x] \subseteq EntriesRead /\ SumOn(EntryTimes, p[x]) = ValueTimes("sum")[x]
    <3> DEFINE D == DOMAIN metrics[x[1]][x[2]]
               h == [i \in D |-> <<x[1], x[2], i>>]
    <3>1. /\ IsFiniteSet(D) /\ DOMAIN TimesRead(x) = D /\ \A i \in D : TimesRead(x)[i] \in Nat
          /\ ValueTimes("sum")[x] = SumOn(TimesRead(x), D)
      BY ValueIs DEF TimesRead
    <3>2. p[x] = {h[i] : i \in D} /\ \A i, j \in D : i # j => h[i] # h[j]
      OBVIOUS
    <3>3. p[x] \subseteq EntriesRead
      BY DEF EntriesRead
    <3>4. \A i \in D : EntryTimes[h[i]] = TimesRead(x)[i]
      <4>1. ASSUME NEW i \in D PROVE EntryTimes[<<x[1], x[2], i>>] = metrics[x[1]][x[2]][i].time
        <5>1. <<x[1], x[2], i>> \in EntriesRead
          BY <3>3
        <5> QED
          BY <5>1 DEF EntryTimes
      <4> QED
        BY <4>1 DEF TimesRead
    <3> HIDE DEF p, h, D
    <3>5. IsFiniteSet({h[i] : i \in D}) /\ SumOn(EntryTimes, {h[i] : i \in D}) = SumOn(TimesRead(x), D)
      BY <3>1, <3>2, <3>4, SumOnNames
    <3> QED
      BY <3>1, <3>2, <3>3, <3>5
  <2>2. Parted(EntriesRead, p, Subjects)
    <3>1. EntriesRead = UNION {p[x] : x \in Subjects}
      BY DEF EntriesRead
    <3>2. ASSUME NEW x \in Subjects, NEW y \in Subjects, x # y PROVE p[x] \cap p[y] = {}
      <4>1. x = <<x[1], x[2]>> /\ y = <<y[1], y[2]>>
        BY <1>1
      <4>2. x[1] # y[1] \/ x[2] # y[2]
        BY <3>2, <4>1
      <4> QED
        BY <4>2
    <3> QED
      BY <2>1, <3>1, <3>2 DEF Parted
  <2>3. \A y \in EntriesRead : EntryTimes[y] \in Nat
    <3>1. ASSUME NEW y \in EntriesRead PROVE EntryTimes[y] \in Nat
      <4>1. PICK x \in Subjects : y \in p[x]
        BY DEF EntriesRead
      <4>2. PICK i \in DOMAIN metrics[x[1]][x[2]] : y = <<x[1], x[2], i>>
        BY <4>1
      <4>3. EntryTimes[y] = TimesRead(x)[i]
        BY <4>2 DEF EntryTimes, TimesRead
      <4> QED
        BY <4>3, ValueIs
    <3> QED
      BY <3>1
  <2> HIDE DEF p
  <2>4. SumOn(EntryTimes, EntriesRead) = SumOn(e, Subjects)
    BY <1>1, <2>2, <2>3, SumOnParts
  <2>5. SumOn(e, Subjects) = SumOn(ValueTimes("sum"), Subjects)
    <3>1. \A x \in Subjects : e[x] \in Nat /\ e[x] = ValueTimes("sum")[x]
      BY <1>3, <2>1, ValueIs
    <3> HIDE DEF e
    <3> QED
      BY <1>1, <3>1, SumOnAgrees
  <2> QED
    BY <2>4, <2>5
<1> QED
  BY <1>4, <1>5, <1>6, EntriesAdded

--------------------------------------------------------------------------------
(* The reports.                                                            *)

Called(e, n) == SumOn(AllTimes(e), CallsIn(e, n))

Lines ==
  [label : {"blank", "api", "device", "stars", "process", "backend", "header"}]
    \cup [label : {"execution", "apitotal", "devicetotal"}, time : Nat]
    \cup [label : {"row"}, name : Int, time : Nat, calls : Nat]

TimedLabels ==
  <<"api", "blank", "execution", "apitotal", "blank", "backend", "blank", "header", "row", "blank",
    "device", "blank", "execution", "devicetotal", "blank", "backend", "blank", "header", "row", "blank">>

\* The label of line i of a report whose timed sections have k lines, 0 or 20.
LabelOf(k, i) ==
  IF i <= k THEN TimedLabels[i]
  ELSE IF i = k + 1 THEN "blank"
  ELSE IF i = k + 2 \/ i = k + 4 THEN "stars"
  ELSE IF i = k + 3 THEN "process"
  ELSE IF i = k + 5 THEN "header"
  ELSE "row"

\* f reports k lines of timed sections and a table of n functions, which has the
\* time of each function that took some.
IsReport(f, k, n, e) ==
  /\ k \in {0, 20} /\ n \in Nat
  /\ f \in Seq(Lines)
  /\ Len(f) = IF n = 0 THEN k + 1 ELSE k + 5 + n
  /\ \A i \in 1..Len(f) : f[i].label = LabelOf(k, i)
  /\ \A i \in 1..n : f[k + 5 + i].name \in CclNames /\ f[k + 5 + i].time = Called(e, f[k + 5 + i].name)
  /\ \A i, j \in 1..n : i # j => f[k + 5 + i].name # f[k + 5 + j].name
  /\ \A c \in CclNames : (\A i \in 1..n : f[k + 5 + i].name # c) => Called(e, c) = 0

LEMMA CalledIs ==
  ASSUME NEW e \in Seq(CallRecord), NEW n
  PROVE  Called(e, n) \in Nat /\ IsFiniteSet(CallsIn(e, n)) /\ \A i \in CallsIn(e, n) : AllTimes(e)[i] \in Nat
<1>1. /\ Len(e) \in Nat /\ DOMAIN e = 1..Len(e) /\ \A i \in 1..Len(e) : e[i] \in CallRecord
      /\ IsFiniteSet(CallsIn(e, n))
  BY CallsFinite
<1>2. \A i \in CallsIn(e, n) : AllTimes(e)[i] \in Nat
  BY <1>1, DurationAssumption DEF AllTimes, CallsIn, CallRecord
<1> QED
  BY <1>1, <1>2, SumOnIs DEF Called

\* The timed sections.
LEMMA TimedIs ==
  ASSUME NEW t \in TimedParts
  PROVE  \E k \in {0, 20} : /\ t \in Seq(Lines) /\ Len(t) = k
                            /\ \A i \in 1..k : t[i].label = TimedLabels[i]
<1>1. CASE t = <<>>
  <2>1. t \in Seq(Lines) /\ Len(t) = 0
    BY <1>1
  <2> QED
    BY <2>1
<1>2. CASE t = HostPart \o DevicePart
  <2>1. HostPart \in Seq(Lines) /\ Len(HostPart) = 10
    BY DEF HostPart, Lines, Line, Number, Record, HostCall
  <2>2. DevicePart \in Seq(Lines) /\ Len(DevicePart) = 10
    BY DEF DevicePart, Lines, Line, Number, Record, Kernel
  <2>3. /\ t \in Seq(Lines) /\ Len(t) = 20
        /\ \A i \in 1..20 : t[i] = IF i <= 10 THEN HostPart[i] ELSE DevicePart[i - 10]
    <3>1. /\ t \in Seq(Lines) /\ Len(t) = Len(HostPart) + Len(DevicePart)
          /\ \A i \in 1..(Len(HostPart) + Len(DevicePart)) :
               t[i] = IF i <= Len(HostPart) THEN HostPart[i] ELSE DevicePart[i - Len(HostPart)]
      BY <1>2, <2>1, <2>2, ConcatProperties
    <3>2. 10 + 10 = 20
      OBVIOUS
    <3> QED
      BY <2>1, <2>2, <3>1, <3>2
  <2>4. \A i \in 1..10 : HostPart[i].label = TimedLabels[i]
    <3>1. \A i \in 1..10 : i = 1 \/ i = 2 \/ i = 3 \/ i = 4 \/ i = 5 \/ i = 6 \/ i = 7 \/ i = 8 \/ i = 9 \/ i = 10
      OBVIOUS
    <3> QED
      BY <3>1 DEF HostPart, TimedLabels, Line, Number, Record
  <2>5. \A i \in 11..20 : DevicePart[i - 10].label = TimedLabels[i]
    <3>1. \A i \in 11..20 : i = 11 \/ i = 12 \/ i = 13 \/ i = 14 \/ i = 15 \/ i = 16 \/ i = 17 \/ i = 18 \/ i = 19 \/ i = 20
      OBVIOUS
    <3> QED
      BY <3>1 DEF DevicePart, TimedLabels, Line, Number, Record
  <2>6. ASSUME NEW i \in 1..20 PROVE t[i].label = TimedLabels[i]
    <3>1. CASE i <= 10
      <4>1. t[i] = HostPart[i]
        BY <2>3, <3>1
      <4>2. i \in 1..10
        BY <3>1
      <4> QED
        BY <2>4, <4>1, <4>2
    <3>2. CASE i > 10
      <4>1. ~(i <= 10) /\ i \in 11..20
        BY <3>2
      <4>2. t[i] = DevicePart[i - 10]
        BY ONLY <2>3, <4>1
      <4> QED
        BY <2>5, <4>1, <4>2
    <3> QED
      BY <3>1, <3>2
  <2> QED
    BY <2>3, <2>6
<1> QED
  BY <1>1, <1>2 DEF TimedParts

\* The banner, the header and the rows of the table.
LEMMA TableIs ==
  ASSUME NEW n \in Nat, n > 0, NEW table, DOMAIN table.rows = 1..n,
         \A i \in 1..n : /\ table.rows[i].name \in Int /\ table.rows[i].total \in Nat
                         /\ table.rows[i].calls \in Nat
  PROVE  /\ CclPart(table) \in Seq(Lines) /\ Len(CclPart(table)) = n + 4
         /\ \A i \in 1..(n + 4) : CclPart(table)[i].label = LabelOf(0, i + 1)
         /\ \A i \in 1..n : CclPart(table)[i + 4] = Record(table.rows[i].name, table.rows[i].total, table.rows[i].calls)
<1> DEFINE rows == table.rows
           b == <<Line("stars"), Line("process"), Line("stars"), Line("header")>>
           r == [i \in 1..n |-> Record(rows[i].name, rows[i].total, rows[i].calls)]
<1>1. b \in Seq(Lines) /\ Len(b) = 4
  BY DEF Lines, Line
<1>2. \A i \in 1..n : r[i] = Record(rows[i].name, rows[i].total, rows[i].calls) /\ r[i] \in Lines
  BY DEF Record, Lines
<1>3. r \in Seq(Lines) /\ Len(r) = n
  <2>1. r \in [1..n -> Lines]
    BY <1>2
  <2> HIDE DEF r
  <2>2. r \in Seq(Lines)
    BY <2>1, SeqDef
  <2> QED
    BY <2>1, <2>2, LenProperties
<1>4. CclPart(table) = b \o r
  <2>1. rows # <<>>
    <3>1. 1 \in DOMAIN rows /\ 1 \notin DOMAIN <<>>
      OBVIOUS
    <3> QED
      BY <3>1
  <2> QED
    BY <2>1 DEF CclPart
<1>5. \A i \in 1..4 : b[i].label = LabelOf(0, i + 1)
  <2>1. \A i \in 1..4 : i = 1 \/ i = 2 \/ i = 3 \/ i = 4
    OBVIOUS
  <2> QED
    BY <2>1 DEF Line, LabelOf
<1>6. \A i \in 1..n : r[i].label = LabelOf(0, i + 5)
  BY <1>2 DEF Record, LabelOf
<1> HIDE DEF b, r
<1> DEFINE c == b \o r
<1>7. /\ c \in Seq(Lines) /\ Len(c) = Len(b) + Len(r)
      /\ \A i \in 1..(Len(b) + Len(r)) : c[i] = IF i <= Len(b) THEN b[i] ELSE r[i - Len(b)]
  BY <1>1, <1>3, ConcatProperties
<1> HIDE DEF c
<1>8. Len(c) = n + 4 /\ \A i \in 1..(n + 4) : c[i] = IF i <= 4 THEN b[i] ELSE r[i - 4]
  <2>1. 4 + n = n + 4
    OBVIOUS
  <2> QED
    BY <1>1, <1>3, <1>7, <2>1
<1>9. ASSUME NEW i \in 1..(n + 4) PROVE c[i].label = LabelOf(0, i + 1)
  <2>1. CASE i <= 4
    BY <1>5, <1>8, <2>1
  <2>2. CASE i > 4
    <3>1. i - 4 \in 1..n /\ (i - 4) + 5 = i + 1 /\ c[i] = r[i - 4]
      BY <1>8, <2>2
    <3> DEFINE j == i - 4
    <3> HIDE DEF j
    <3>2. j \in 1..n /\ j + 5 = i + 1 /\ c[i] = r[j]
      BY <3>1 DEF j
    <3>3. r[j].label = LabelOf(0, j + 5)
      BY <1>6, <3>2
    <3> QED
      BY <3>2, <3>3
  <2> QED
    BY <2>1, <2>2
<1>10. ASSUME NEW i \in 1..n PROVE c[i + 4] = r[i]
  <2>1. i + 4 \in 1..(n + 4) /\ ~(i + 4 <= 4) /\ (i + 4) - 4 = i
    OBVIOUS
  <2> DEFINE j == i + 4
  <2> HIDE DEF j
  <2>2. j \in 1..(n + 4) /\ ~(j <= 4) /\ j - 4 = i
    BY <2>1 DEF j
  <2>3. c[j] = r[i]
    BY <1>8, <2>2
  <2> QED
    BY <2>3 DEF j
<1> QED
  BY <1>2, <1>4, <1>7, <1>8, <1>9, <1>10 DEF c

LEMMA ReportMade ==
  ASSUME CclInv, reported, NEW t \in TimedParts
  PROVE  \E k, n : IsReport(t \o <<Line("blank")>> \o CclPart(report), k, n, ended)
<1>1. ended \in Seq(CallRecord)
  BY DEF CclInv, Tallied
<1>2. PICK k \in {0, 20} : t \in Seq(Lines) /\ Len(t) = k /\ \A i \in 1..k : t[i].label = TimedLabels[i]
  BY TimedIs
<1> DEFINE bl == <<Line("blank")>>
           h == t \o bl
<1>3. /\ h \in Seq(Lines) /\ Len(h) = k + 1 /\ \A i \in 1..(k + 1) : h[i].label = LabelOf(k, i)
  <2>1. bl \in Seq(Lines) /\ Len(bl) = 1 /\ bl[1].label = "blank"
    BY DEF Lines, Line
  <2> HIDE DEF bl
  <2>2. /\ h \in Seq(Lines) /\ Len(h) = Len(t) + Len(bl)
        /\ \A i \in 1..(Len(t) + Len(bl)) : h[i] = IF i <= Len(t) THEN t[i] ELSE bl[i - Len(t)]
    BY ZenonT(30), <1>2, <2>1, ConcatProperties
  <2> HIDE DEF h
  <2>3. Len(h) = k + 1 /\ \A i \in 1..(k + 1) : h[i] = IF i <= k THEN t[i] ELSE bl[i - k]
    BY <1>2, <2>1, <2>2
  <2>4. ASSUME NEW i \in 1..(k + 1) PROVE h[i].label = LabelOf(k, i)
    <3>1. CASE i <= k
      BY <1>2, <2>3, <3>1 DEF LabelOf
    <3>2. CASE i = k + 1
      <4>1. h[i] = bl[1]
        BY <1>2, <2>3, <3>2
      <4>2. LabelOf(k, i) = "blank"
        BY <1>2, <3>2 DEF LabelOf
      <4> QED
        BY <2>1, <4>1, <4>2
    <3> QED
      BY <1>2, <3>1, <3>2
  <2> QED
    BY <2>2, <2>3, <2>4
<1> HIDE DEF h
<1>4. /\ DOMAIN info = {c \in CclNames : CallsIn(ended, c) # {}}
      /\ \A c \in DOMAIN info : c \in Int /\ info[c].total = Called(ended, c)
      /\ \A c \in CclNames : c \notin DOMAIN info => Called(ended, c) = 0
  <2>1. ASSUME NEW c \in DOMAIN info PROVE c \in Int /\ info[c].total = Called(ended, c)
    <3>1. c \in CclNames /\ info[c] = TallyOf(ended, c)
      BY DEF CclInv, Tallied
    <3>2. c \in Int
      BY <3>1, NamesAssumption
    <3>3. info[c].total = Called(ended, c)
      BY <3>1 DEF TallyOf, Called
    <3> QED
      BY <3>2, <3>3
  <2>2. ASSUME NEW c \in CclNames, c \notin DOMAIN info PROVE Called(ended, c) = 0
    <3>1. CallsIn(ended, c) = {}
      BY <2>2 DEF CclInv, Tallied
    <3> QED
      BY <3>1, SumOnEmpty DEF Called
  <2> QED
    BY <2>1, <2>2 DEF CclInv, Tallied
<1>5. /\ Kept = DOMAIN info /\ IsFiniteSet(DOMAIN info)
      /\ \A c \in DOMAIN info : info[c].total \in Nat /\ info[c].count \in Nat
  BY BeforeOrders
<1>6. CASE DOMAIN info = {} \/ TotalDuration = 0
  <2>1. ASSUME NEW c \in CclNames PROVE Called(ended, c) = 0
    <3>1. CASE c \notin DOMAIN info
      BY <1>4, <3>1
    <3>2. CASE c \in DOMAIN info
      <4> DEFINE f == [d \in Kept |-> info[d].total]
      <4>1. TotalDuration = SumOn(f, Kept)
        <5> DEFINE Goes(g) == g = [s \in SUBSET Kept |-> IF s = {} THEN 0
                                     ELSE f[CHOOSE x \in s : TRUE] + g[s \ {CHOOSE x \in s : TRUE}]]
        <5>1. TotalDuration = (CHOOSE g : Goes(g))[Kept]
          BY DEF TotalDuration, SumFunctionOnSet, FoldFunctionOnSet, MapThenFoldSet
        <5>2. ASSUME NEW g PROVE Goes(g) <=> Sums(g, f, Kept)
          <6> HIDE DEF f
          <6> QED
            BY DEF Sums, Some, Rest
        <5> HIDE DEF Goes, f
        <5>3. (CHOOSE g : Goes(g)) = (CHOOSE g : Sums(g, f, Kept))
          BY <5>2
        <5> QED
          BY <5>1, <5>3 DEF SumOn
      <4>2. \A d \in Kept : f[d] \in Nat /\ f[d] = info[d].total
        BY <1>5
      <4> HIDE DEF f
      <4>3. f[c] = 0
        BY <1>5, <1>6, <3>2, <4>1, <4>2, SumOnZero
      <4> QED
        BY <1>4, <1>5, <3>2, <4>2, <4>3
    <3> QED
      BY <3>1, <3>2
  <2>2. CclPart(report) = <<>>
    BY <1>6 DEF CclInv, None, CclPart
  <2>3. h \o CclPart(report) = h
    BY <1>3, <2>2, ConcatEmptySeq
  <2>4. IsReport(h, k, 0, ended)
    BY <1>2, <1>3, <2>1 DEF IsReport
  <2> QED
    BY <2>3, <2>4 DEF h
<1>7. CASE ~(DOMAIN info = {} \/ TotalDuration = 0)
  <2> DEFINE n == Cardinality(DOMAIN info)
             p == CclPart(report)
             f == h \o p
  <2>1. n \in Nat /\ n > 0
    BY <1>5, <1>7, FS_CardinalityType, FS_EmptySet
  <2>2. report.rows = Rows
    BY <1>7 DEF CclInv
  <2>3. /\ {Rows[i].name : i \in DOMAIN Rows} = DOMAIN info /\ DOMAIN Rows = 1..n
        /\ \A i \in DOMAIN Rows : Rows[i] = Row(Rows[i].name)
        /\ \A i, j \in DOMAIN Rows : i # j => Rows[i].name # Rows[j].name
    BY RowsInOrder
  <2> HIDE DEF n
  <2>4. ASSUME NEW i \in 1..n
        PROVE  /\ Rows[i].name \in CclNames /\ Rows[i].name \in Int /\ Rows[i].calls \in Nat
               /\ Rows[i].total \in Nat /\ Rows[i].total = Called(ended, Rows[i].name)
    <3> DEFINE c == Rows[i].name
    <3>1. c \in DOMAIN info /\ Rows[i] = Row(c)
      BY <2>3
    <3> HIDE DEF c
    <3>2. Rows[i].total = info[c].total /\ Rows[i].calls = info[c].count
      BY <3>1 DEF Row
    <3> QED
      BY <1>4, <1>5, <3>1, <3>2 DEF c
  <2>5. /\ p \in Seq(Lines) /\ Len(p) = n + 4
        /\ \A i \in 1..(n + 4) : p[i].label = LabelOf(0, i + 1)
        /\ \A i \in 1..n : p[i + 4] = Record(Rows[i].name, Rows[i].total, Rows[i].calls)
    <3>1. /\ n \in Nat /\ n > 0 /\ DOMAIN report.rows = 1..n
          /\ \A i \in 1..n : /\ report.rows[i].name \in Int /\ report.rows[i].total \in Nat
                            /\ report.rows[i].calls \in Nat
      BY <2>1, <2>2, <2>3, <2>4
    <3>2. /\ p \in Seq(Lines) /\ Len(p) = n + 4
          /\ \A i \in 1..(n + 4) : p[i].label = LabelOf(0, i + 1)
          /\ \A i \in 1..n : p[i + 4] = Record(report.rows[i].name, report.rows[i].total, report.rows[i].calls)
      BY ONLY <3>1, TableIs DEF p
    <3> QED
      BY <2>2, <3>2
  <2> HIDE DEF p
  <2>6. /\ f \in Seq(Lines) /\ Len(f) = Len(h) + Len(p)
        /\ \A i \in 1..(Len(h) + Len(p)) : f[i] = IF i <= Len(h) THEN h[i] ELSE p[i - Len(h)]
    BY <1>3, <2>5, ConcatProperties
  <2> HIDE DEF f
  <2>7. Len(f) = k + 5 + n /\ \A i \in 1..(k + 5 + n) : f[i] = IF i <= k + 1 THEN h[i] ELSE p[i - (k + 1)]
    <3>1. (k + 1) + (n + 4) = k + 5 + n
      BY <1>2, <2>1
    <3> QED
      BY <1>3, <2>5, <2>6, <3>1
  <2>8. ASSUME NEW i \in 1..(k + 5 + n) PROVE f[i].label = LabelOf(k, i)
    <3>1. CASE i <= k + 1
      BY <1>2, <1>3, <2>7, <3>1
    <3>2. CASE i > k + 1
      <4> DEFINE j == i - (k + 1)
      <4>1. j \in 1..(n + 4) /\ i = j + k + 1
        BY <1>2, <2>1, <3>2
      <4> HIDE DEF j
      <4>2. f[i] = p[j]
        BY <2>7, <3>2 DEF j
      <4>3. LabelOf(0, j + 1) = LabelOf(k, i)
        BY <1>2, <2>1, <4>1 DEF LabelOf
      <4> QED
        BY <2>5, <4>1, <4>2, <4>3
    <3> QED
      BY <1>2, <2>1, <3>1, <3>2
  <2>9. ASSUME NEW i \in 1..n PROVE f[k + 5 + i] = Record(Rows[i].name, Rows[i].total, Rows[i].calls)
    <3> DEFINE j == k + 5 + i
    <3>1. j \in 1..(k + 5 + n) /\ ~(j <= k + 1) /\ j - (k + 1) = i + 4
      BY <1>2, <2>1
    <3> HIDE DEF j
    <3>2. f[j] = p[j - (k + 1)]
      BY <2>7, <3>1
    <3>3. f[j] = p[i + 4]
      BY <3>1, <3>2
    <3> QED
      BY <2>5, <3>3 DEF j
  <2>10. ASSUME NEW i \in 1..n PROVE f[k + 5 + i].name = Rows[i].name /\ f[k + 5 + i].time = Rows[i].total
    <3> DEFINE r == f[k + 5 + i]
    <3>1. r = Record(Rows[i].name, Rows[i].total, Rows[i].calls)
      BY <2>9
    <3> HIDE DEF r
    <3>2. r.name = Rows[i].name /\ r.time = Rows[i].total
      BY <3>1 DEF Record
    <3> QED
      BY <3>2 DEF r
  <2>11. ASSUME NEW c \in CclNames, \A i \in 1..n : f[k + 5 + i].name # c PROVE Called(ended, c) = 0
    <3>1. c \notin DOMAIN info
      BY <2>3, <2>10, <2>11
    <3> QED
      BY <1>4, <3>1
  <2>12. IsReport(f, k, n, ended)
    <3>1. Len(f) = IF n = 0 THEN k + 1 ELSE k + 5 + n
      BY <2>1, <2>7
    <3>2. \A i, j \in 1..n : i # j => f[k + 5 + i].name # f[k + 5 + j].name
      BY <2>3, <2>10
    <3>3. \A i \in 1..n : f[k + 5 + i].name \in CclNames /\ f[k + 5 + i].time = Called(ended, f[k + 5 + i].name)
      BY <2>4, <2>10
    <3> QED
      BY <1>2, <2>1, <2>6, <2>7, <2>8, <2>11, <3>1, <3>2, <3>3 DEF IsReport
  <2> QED
    BY <2>12 DEF f, h, p
<1> QED
  BY <1>6, <1>7

--------------------------------------------------------------------------------
(* The lists of a section.                                                 *)

ListTime(lists, n) ==
  IF n \in DOMAIN lists THEN SumOn([i \in DOMAIN lists[n] |-> lists[n][i].time], DOMAIN lists[n]) ELSE 0

LEMMA AppendedTime ==
  ASSUME NEW l \in Seq(Entry), NEW e \in Entry
  PROVE  SumOn([i \in DOMAIN Append(l, e) |-> Append(l, e)[i].time], DOMAIN Append(l, e)) =
           SumOn([i \in DOMAIN l |-> l[i].time], DOMAIN l) + e.time
<1> DEFINE a == Append(l, e)
           k == Len(l) + 1
           D == DOMAIN l
           f == [i \in D |-> l[i].time]
           g == [i \in DOMAIN a |-> a[i].time]
<1>1. /\ Len(l) \in Nat /\ D = 1..Len(l) /\ \A i \in D : l[i] \in Entry
  BY LenProperties, ElementOfSeq
<1>2. /\ a \in Seq(Entry) /\ Len(a) = k /\ a[k] = e /\ \A i \in 1..Len(l) : a[i] = l[i]
  BY <1>1, AppendProperties
<1>3. DOMAIN a = 1..k
  BY <1>2, LenProperties
<1> HIDE DEF a
<1>4. DOMAIN a = D \cup {k} /\ k \notin D
  BY <1>1, <1>3
<1>5. IsFiniteSet(D)
  BY <1>1, FS_Interval
<1>6. \A i \in D : f[i] \in Nat /\ f[i] = g[i]
  BY <1>1, <1>2, <1>4 DEF Entry
<1>7. g[k] = e.time /\ e.time \in Nat
  BY <1>2, <1>4 DEF Entry
<1> HIDE DEF D, f, g, k
<1>8. SumOn(g, D \cup {k}) = g[k] + SumOn(g, D)
  BY <1>4, <1>5, <1>6, <1>7, SumOnOneMore
<1>9. SumOn(f, D) = SumOn(g, D) /\ SumOn(f, D) \in Nat
  BY <1>5, <1>6, SumOnAgrees, SumOnIs
<1>10. SumOn(g, DOMAIN a) = SumOn(f, D) + e.time
  BY <1>4, <1>7, <1>8, <1>9
<1> QED
  BY <1>10 DEF a, D, f, g

LEMMA AddedTime ==
  ASSUME NEW lists, Listed(lists), NEW name, NEW e \in Entry
  PROVE  /\ Listed(Added(lists, name, e))
         /\ \A n : ListTime(Added(lists, name, e), n) =
                     ListTime(lists, n) + (IF n = name THEN e.time ELSE 0)
<1> DEFINE b == Added(lists, name, e)
<1>1. /\ DOMAIN b = DOMAIN lists \cup {name}
      /\ \A n \in DOMAIN b : b[n] = IF n # name THEN lists[n]
                                    ELSE IF name \in DOMAIN lists THEN Append(lists[name], e) ELSE <<e>>
  BY DEF Added
<1> HIDE DEF b
<1>2. ASSUME NEW n \in DOMAIN lists
      PROVE  /\ lists[n] \in Seq(Entry) /\ Len(lists[n]) > 0
             /\ Append(lists[n], e) \in Seq(Entry) /\ Len(Append(lists[n], e)) > 0
             /\ ListTime(lists, n) = SumOn([i \in DOMAIN lists[n] |-> lists[n][i].time], DOMAIN lists[n])
             /\ ListTime(lists, n) \in Nat
  <2> DEFINE l == lists[n]
             D == DOMAIN l
             f == [i \in D |-> l[i].time]
  <2>1. l \in Seq(Entry) /\ Len(l) > 0
    BY DEF Listed
  <2> HIDE DEF l
  <2>2. Len(l) \in Nat /\ D = 1..Len(l) /\ \A i \in D : l[i] \in Entry
    BY <2>1, LenProperties, ElementOfSeq
  <2>3. Append(l, e) \in Seq(Entry) /\ Len(Append(l, e)) = Len(l) + 1
    BY <2>1, AppendProperties
  <2>4. IsFiniteSet(D)
    BY <2>2, FS_Interval
  <2>5. \A i \in D : f[i] \in Nat
    BY <2>2 DEF Entry
  <2>6. ListTime(lists, n) = SumOn(f, D)
    BY DEF ListTime, l
  <2> HIDE DEF f, D
  <2>7. SumOn(f, D) \in Nat
    BY <2>4, <2>5, SumOnIs
  <2>8. Len(Append(l, e)) > 0
    BY <2>2, <2>3
  <2> QED
    BY <2>1, <2>3, <2>6, <2>7, <2>8 DEF l, f, D
<1>3. <<e>> \in Seq(Entry) /\ Len(<<e>>) > 0
  OBVIOUS
<1>4. ASSUME NEW n \in DOMAIN b PROVE b[n] \in Seq(Entry) /\ Len(b[n]) > 0
  <2>1. CASE n # name
    BY <1>1, <1>2, <2>1
  <2>2. CASE n = name /\ name \in DOMAIN lists
    BY <1>1, <1>2, <2>2
  <2>3. CASE n = name /\ name \notin DOMAIN lists
    BY <1>1, <1>3, <2>3
  <2> QED
    BY <2>1, <2>2, <2>3
<1>5. IsFiniteSet(DOMAIN b)
  BY <1>1, FS_AddElement DEF Listed
<1>6. ASSUME NEW n PROVE ListTime(b, n) = ListTime(lists, n) + (IF n = name THEN e.time ELSE 0)
  <2>0. e.time \in Nat
    BY DEF Entry
  <2>1. CASE n # name
    <3>1. ListTime(b, n) = ListTime(lists, n)
      BY <1>1, <2>1 DEF ListTime
    <3>2. ListTime(lists, n) \in Nat
      <4>1. CASE n \in DOMAIN lists
        BY <1>2, <4>1
      <4>2. CASE n \notin DOMAIN lists
        BY <4>2 DEF ListTime
      <4> QED
        BY <4>1, <4>2
    <3> QED
      BY <2>1, <3>1, <3>2
  <2>2. CASE n = name /\ name \in DOMAIN lists
    <3> DEFINE l == lists[n]
    <3>1. b[n] = Append(l, e) /\ n \in DOMAIN b
      BY <1>1, <2>2
    <3>2. l \in Seq(Entry)
      BY <1>2, <2>2
    <3>3. ListTime(b, n) = SumOn([i \in DOMAIN Append(l, e) |-> Append(l, e)[i].time], DOMAIN Append(l, e))
      BY <3>1 DEF ListTime
    <3>4. ListTime(lists, n) = SumOn([i \in DOMAIN l |-> l[i].time], DOMAIN l)
      BY <2>2 DEF ListTime
    <3> HIDE DEF l
    <3> QED
      BY <2>2, <3>2, <3>3, <3>4, AppendedTime
  <2>3. CASE n = name /\ name \notin DOMAIN lists
    <3> DEFINE l == <<e>>
               f == [i \in DOMAIN l |-> l[i].time]
    <3>1. b[n] = l /\ n \in DOMAIN b
      BY <1>1, <2>3
    <3>2. ListTime(b, n) = SumOn(f, DOMAIN l)
      BY <3>1 DEF ListTime
    <3>3. ListTime(lists, n) = 0
      BY <2>3 DEF ListTime
    <3>4. DOMAIN l = {} \cup {1} /\ f[1] = e.time /\ 1 \notin {}
      OBVIOUS
    <3>5. IsFiniteSet({})
      BY FS_EmptySet
    <3> HIDE DEF l, f
    <3>6. SumOn(f, {} \cup {1}) = f[1] + SumOn(f, {})
      BY <2>0, <3>4, <3>5, SumOnOneMore
    <3>7. SumOn(f, DOMAIN l) = e.time
      BY <2>0, <3>4, <3>6, SumOnEmpty
    <3> QED
      BY <2>0, <2>3, <3>2, <3>3, <3>7
  <2> QED
    BY <2>1, <2>2, <2>3
<1> QED
  BY <1>4, <1>5, <1>6 DEF Listed, b

Gets(s, name, e) == metrics' = [metrics EXCEPT ![s] = Added(@, name, e)]

LEMMA CollectedTime ==
  ASSUME MetricsTyped, NEW s \in 0..2, NEW name, NEW e \in Entry, Gets(s, name, e)
  PROVE  /\ MetricsTyped'
         /\ \A n : ListTime(metrics'[2], n) = ListTime(metrics[2], n) + (IF s = 2 /\ n = name THEN e.time ELSE 0)
<1>1. DOMAIN metrics = 0..2 /\ \A r \in 0..2 : Listed(metrics[r])
  BY DEF MetricsTyped
<1>2. /\ DOMAIN metrics' = 0..2
      /\ \A r \in 0..2 : metrics'[r] = IF r = s THEN Added(metrics[s], name, e) ELSE metrics[r]
  BY <1>1 DEF Gets
<1>3. \A r \in 0..2 : Listed(metrics'[r])
  BY <1>1, <1>2, AddedTime
<1>4. ASSUME NEW n
      PROVE  ListTime(metrics'[2], n) = ListTime(metrics[2], n) + (IF s = 2 /\ n = name THEN e.time ELSE 0)
  <2>1. CASE s = 2
    BY <1>1, <1>2, <2>1, AddedTime
  <2>2. CASE s # 2
    <3>1. metrics'[2] = metrics[2]
      BY <1>2, <2>2
    <3>2. ListTime(metrics[2], n) \in Nat
      <4> DEFINE l == metrics[2][n]
                 f == [i \in DOMAIN l |-> l[i].time]
      <4>1. CASE n \in DOMAIN metrics[2]
        <5>1. l \in Seq(Entry)
          BY <1>1, <4>1 DEF Listed
        <5>2. ListTime(metrics[2], n) = SumOn(f, DOMAIN l)
          BY <4>1 DEF ListTime
        <5> HIDE DEF l
        <5>3. Len(l) \in Nat /\ DOMAIN l = 1..Len(l) /\ \A i \in DOMAIN l : l[i] \in Entry
          BY <5>1, LenProperties, ElementOfSeq
        <5>4. IsFiniteSet(DOMAIN l)
          BY <5>3, FS_Interval
        <5>5. \A i \in DOMAIN l : f[i] \in Nat
          BY <5>3 DEF Entry
        <5> HIDE DEF f
        <5> QED
          BY <5>2, <5>4, <5>5, SumOnIs
      <4>2. CASE n \notin DOMAIN metrics[2]
        BY <4>2 DEF ListTime
      <4> QED
        BY <4>1, <4>2
    <3> QED
      BY <2>2, <3>1, <3>2
  <2> QED
    BY <2>1, <2>2
<1> QED
  BY <1>2, <1>3, <1>4 DEF MetricsTyped

--------------------------------------------------------------------------------
(* Reading a report.                                                       *)

\* Section and mode after line i.
SectionAt(k, i) ==
  IF i > k + 1 THEN 2 ELSE IF i = 0 \/ k = 0 THEN -1 ELSE IF i <= 10 THEN 0 ELSE 1
ModeAt(k, i) ==
  IF i <= k THEN IF i \in {6, 7, 16, 17} THEN "header" ELSE IF i \in {8, 9, 18, 19} THEN "records" ELSE "skip"
  ELSE IF i <= k + 3 THEN "skip"
  ELSE IF i = k + 4 THEN "header"
  ELSE "records"

\* What a line does to them.
Moves(label, s, m, t, n) ==
  \/ m = "skip" /\ label \in {"blank", "process", "header", "row"} /\ t = s /\ n = m
  \/ m = "skip" /\ label = "api" /\ t = 0 /\ n = m
  \/ m = "skip" /\ label = "device" /\ t = 1 /\ n = m
  \/ m = "skip" /\ label = "stars" /\ t = 2 /\ n = IF s = 2 THEN "header" ELSE "skip"
  \/ m = "skip" /\ label \in {"execution", "apitotal", "devicetotal"} /\ t = s /\ s \in {0, 1} /\ n = m
  \/ m = "skip" /\ label = "backend" /\ t = s /\ n = IF s \in {0, 1} THEN "header" ELSE "skip"
  \/ m = "header" /\ label = "header" /\ t = s /\ n = "records"
  \/ m = "header" /\ label = "blank" /\ t = s /\ n = m
  \/ m = "records" /\ label = "row" /\ t = s /\ s \in 0..2 /\ n = m
  \/ m = "records" /\ label = "blank" /\ s \in {0, 1} /\ t = s /\ n = "skip"

LEMMA Moved ==
  ASSUME NEW k \in {0, 20}, NEW i \in Nat
  PROVE  /\ Moves(LabelOf(k, i + 1), SectionAt(k, i), ModeAt(k, i), SectionAt(k, i + 1), ModeAt(k, i + 1))
         /\ (i + 1 > k + 5 <=> ModeAt(k, i) = "records" /\ SectionAt(k, i) = 2)
<1>1. CASE i >= k
  <2>1. i = k \/ i = k + 1 \/ i = k + 2 \/ i = k + 3 \/ i = k + 4 \/ i > k + 4
    BY <1>1
  <2>2. CASE i = k
    BY <2>2 DEF Moves, LabelOf, SectionAt, ModeAt
  <2>3. CASE i = k + 1
    BY <2>3 DEF Moves, LabelOf, SectionAt, ModeAt
  <2>4. CASE i = k + 2
    BY <2>4 DEF Moves, LabelOf, SectionAt, ModeAt
  <2>5. CASE i = k + 3
    BY <2>5 DEF Moves, LabelOf, SectionAt, ModeAt
  <2>6. CASE i = k + 4
    BY <2>6 DEF Moves, LabelOf, SectionAt, ModeAt
  <2>7. CASE i > k + 4
    BY <2>7 DEF Moves, LabelOf, SectionAt, ModeAt
  <2> QED
    BY <2>1, <2>2, <2>3, <2>4, <2>5, <2>6, <2>7
<1>2. CASE i < k
  <2>1. k = 20 /\ (i = 0 \/ i = 1 \/ i = 2 \/ i = 3 \/ i = 4 \/ i = 5 \/ i = 6 \/ i = 7 \/ i = 8 \/ i = 9
                   \/ i = 10 \/ i = 11 \/ i = 12 \/ i = 13 \/ i = 14 \/ i = 15 \/ i = 16 \/ i = 17 \/ i = 18 \/ i = 19)
    BY <1>2
  <2> QED
    BY <2>1 DEF Moves, LabelOf, SectionAt, ModeAt, TimedLabels
<1> QED
  BY <1>1, <1>2

\* The reader has taken the first i lines of f.
AtLine(f, i) ==
  /\ rest \in Seq(Lines)
  /\ Len(rest) = Len(f) - i
  /\ \A j \in 1..Len(rest) : rest[j] = f[i + j]

SumBefore(q, c) == SumOn([p \in DOMAIN made |-> Called(made[p], c)], 1..q)
RowsTime(f, k, n, i, e, c) ==
  IF \E j \in 1..n : k + 5 + j <= i /\ f[k + 5 + j].name = c THEN Called(e, c) ELSE 0

InFile(k, n, i) ==
  LET f == files[file]
      e == made[file]
  IN /\ IsReport(f, k, n, e)
     /\ i \in 0..Len(f)
     /\ AtLine(f, i)
     /\ \/ section = SectionAt(k, i) /\ reading = ModeAt(k, i)
        \/ n > 0 /\ i = Len(f) /\ reading = "skip"
     /\ \A c \in CclNames : ListTime(metrics[2], c) = SumBefore(file - 1, c) + RowsTime(f, k, n, i, e, c)

ReportsInv ==
  /\ files \in Seq(Seq(Lines)) /\ made \in Seq(Seq(CallRecord)) /\ Len(files) = Len(made)
  /\ \A p \in 1..Len(files) : \E k, n : IsReport(files[p], k, n, made[p])

ReaderInv ==
  /\ file \in 0..Len(files)
  /\ file = 0 => /\ rest = <<>> /\ reading = "skip"
                 /\ \A c : ListTime(metrics[2], c) = 0
  /\ file > 0 => \E k, n, i : InFile(k, n, i)
  /\ output # << >> => /\ output = Written
                       /\ file = Len(files) /\ file > 0 /\ rest = <<>> /\ reading = "skip"

PipelineInv == ReportsInv /\ CclInv /\ MetricsTyped /\ ReaderInv

\* What is next.
LEMMA NextLine ==
  ASSUME ReportsInv, NEW k, NEW n, NEW i, InFile(k, n, i), file \in 1..Len(files), rest # <<>>, Consume,
         files' = files, made' = made, file' = file
  PROVE  /\ i \in Nat /\ k \in {0, 20} /\ n \in Nat /\ i < Len(files[file]) /\ i + 1 \in 0..Len(files[file])
         /\ Len(files[file]) \in Nat
         /\ Head(rest) = files[file][i + 1] /\ Head(rest) \in Lines /\ Head(rest).label = LabelOf(k, i + 1)
         /\ section = SectionAt(k, i) /\ reading = ModeAt(k, i)
         /\ AtLine(files[file], i + 1)'
<1> DEFINE f == files[file]
           r == rest
           d == i + 1
<1>1. /\ f \in Seq(Lines) /\ k \in {0, 20} /\ n \in Nat /\ i \in 0..Len(f)
      /\ r \in Seq(Lines) /\ Len(r) = Len(f) - i /\ \A j \in 1..Len(r) : r[j] = f[i + j]
      /\ \A j \in 1..Len(f) : f[j].label = LabelOf(k, j)
      /\ \/ section = SectionAt(k, i) /\ reading = ModeAt(k, i)
         \/ i = Len(f)
  BY DEF InFile, IsReport, AtLine
<1>0. f' = f /\ rest' = Tail(r)
  BY DEF Consume
<1> HIDE DEF f, r
<1>2. Len(f) \in Nat /\ Len(r) \in Nat
  BY <1>1, LenProperties
<1>3. Len(r) > 0
  <2>1. r # <<>>
    BY DEF r
  <2> QED
    BY <1>1, <2>1, EmptySeq
<1>4. i \in Nat /\ i < Len(f) /\ d \in 0..Len(f) /\ d \in 1..Len(f)
  BY <1>1, <1>2, <1>3
<1>5. /\ Head(r) = r[1] /\ Head(r) \in Lines /\ Tail(r) \in Seq(Lines) /\ Len(Tail(r)) = Len(r) - 1
      /\ \A j \in 1..Len(Tail(r)) : Tail(r)[j] = r[j + 1]
  <2>1. r # <<>>
    BY DEF r
  <2> QED
    BY <1>1, <2>1, HeadTailProperties
<1>6. Head(r) = f[d]
  <2>1. 1 \in 1..Len(r)
    BY <1>2, <1>3
  <2> QED
    BY <1>1, <1>5, <2>1
<1>7. f[d].label = LabelOf(k, d)
  <2> HIDE DEF d
  <2> QED
    BY <1>1, <1>4
<1>8. \A j \in 1..Len(Tail(r)) : Tail(r)[j] = f[d + j]
  <2> SUFFICES ASSUME NEW j \in 1..Len(Tail(r)) PROVE Tail(r)[j] = f[d + j]
    OBVIOUS
  <2> DEFINE c == j + 1
  <2>1. c \in 1..Len(r) /\ i + c = d + j
    BY <1>2, <1>4, <1>5
  <2>2. Tail(r)[j] = r[c]
    BY <1>5
  <2> HIDE DEF c, d
  <2>3. r[c] = f[i + c]
    BY <1>1, <2>1
  <2> QED
    BY <2>1, <2>2, <2>3
<1>9. Len(Tail(r)) = Len(f) - d
  BY <1>1, <1>2, <1>4, <1>5
<1>10. AtLine(files[file], i + 1)'
  BY <1>0, <1>5, <1>8, <1>9 DEF AtLine, f
<1> QED
  BY <1>1, <1>2, <1>4, <1>5, <1>6, <1>7, <1>10 DEF f, r

\* A line is taken.
LEMMA LineTaken ==
  ASSUME ReportsInv, NEW k, NEW n, NEW i, InFile(k, n, i), file \in 1..Len(files), rest # <<>>, Consume,
         files' = files, made' = made, file' = file,
         section' = SectionAt(k, i + 1), reading' = ModeAt(k, i + 1),
         \A c \in CclNames : ListTime(metrics'[2], c) = ListTime(metrics[2], c) +
           (IF i + 1 > k + 5 /\ Head(rest).name = c THEN Head(rest).time ELSE 0)
  PROVE  InFile(k, n, i + 1)'
<1> DEFINE f == files[file]
           e == made[file]
           d == i + 1
<1>1. /\ i \in Nat /\ k \in {0, 20} /\ n \in Nat /\ d \in 0..Len(f) /\ Len(f) \in Nat
      /\ Head(rest) = f[d] /\ AtLine(files[file], i + 1)'
  BY NextLine
<1>2. /\ IsReport(f, k, n, e)
      /\ \A c \in CclNames : ListTime(metrics[2], c) = SumBefore(file - 1, c) + RowsTime(f, k, n, i, e, c)
  BY DEF InFile
<1>3. /\ Len(f) = IF n = 0 THEN k + 1 ELSE k + 5 + n
      /\ \A j \in 1..n : f[k + 5 + j].name \in CclNames /\ f[k + 5 + j].time = Called(e, f[k + 5 + j].name)
      /\ \A j, l \in 1..n : j # l => f[k + 5 + j].name # f[k + 5 + l].name
  BY <1>2 DEF IsReport
<1>0. f' = f /\ e' = e
  OBVIOUS
<1> HIDE DEF f, e
<1>4. ASSUME NEW c \in CclNames
      PROVE  RowsTime(f, k, n, d, e, c) =
               RowsTime(f, k, n, i, e, c) + (IF d > k + 5 /\ f[d].name = c THEN f[d].time ELSE 0)
             /\ RowsTime(f, k, n, i, e, c) \in Nat
             /\ (IF d > k + 5 /\ f[d].name = c THEN f[d].time ELSE 0) \in Nat
  <2>0. Called(e, c) \in Nat
    <3>1. e \in Seq(CallRecord)
      BY ElementOfSeq, LenProperties DEF ReportsInv, e
    <3> QED
      BY <3>1, CalledIs
  <2>1. CASE d <= k + 5
    <3>1. ~\E j \in 1..n : k + 5 + j <= d
      BY <1>1, <2>1
    <3>2. ~\E j \in 1..n : k + 5 + j <= i
      BY <1>1, <2>1
    <3>3. ~(d > k + 5)
      BY <1>1, <2>1
    <3>4. RowsTime(f, k, n, d, e, c) = 0 /\ RowsTime(f, k, n, i, e, c) = 0
      BY <3>1, <3>2 DEF RowsTime
    <3> QED
      BY <3>3, <3>4
  <2>2. CASE d > k + 5
    <3> DEFINE l == d - (k + 5)
    <3>1. l \in 1..n /\ k + 5 + l = d
      BY <1>1, <1>3, <2>2
    <3> HIDE DEF l
    <3>2. \A j \in 1..n : (k + 5 + j <= d <=> k + 5 + j <= i \/ j = l) /\ ~(k + 5 + l <= i)
      BY SMTT(30), <1>1, <3>1 DEF l
    <3>3. f[d].name \in CclNames /\ f[d].time = Called(e, f[d].name)
          /\ \A j \in 1..n : j # l => f[k + 5 + j].name # f[d].name
      BY <1>3, <3>1
    <3>4. CASE f[d].name = c
      <4>1. ~\E j \in 1..n : k + 5 + j <= i /\ f[k + 5 + j].name = c
        BY <3>2, <3>3, <3>4
      <4>2. \E j \in 1..n : k + 5 + j <= d /\ f[k + 5 + j].name = c
        BY <3>1, <3>2, <3>4
      <4>3. RowsTime(f, k, n, d, e, c) = Called(e, c) /\ RowsTime(f, k, n, i, e, c) = 0
        BY <4>1, <4>2 DEF RowsTime
      <4> HIDE DEF d
      <4> QED
        BY <2>0, <2>2, <3>3, <3>4, <4>3
    <3>5. CASE f[d].name # c
      <4>1. (\E j \in 1..n : k + 5 + j <= d /\ f[k + 5 + j].name = c)
              <=> \E j \in 1..n : k + 5 + j <= i /\ f[k + 5 + j].name = c
        BY <3>1, <3>2, <3>5
      <4>2. RowsTime(f, k, n, d, e, c) = RowsTime(f, k, n, i, e, c) /\ RowsTime(f, k, n, i, e, c) \in Nat
        BY <2>0, <4>1 DEF RowsTime
      <4> HIDE DEF d
      <4> QED
        BY <3>5, <4>2
    <3> QED
      BY <3>4, <3>5
  <2> QED
    BY <1>1, <2>1, <2>2
<1>5. ASSUME NEW c \in CclNames
      PROVE  ListTime(metrics'[2], c) = SumBefore(file - 1, c) + RowsTime(f, k, n, d, e, c)
  <2>1. SumBefore(file - 1, c) \in Nat
    <3> DEFINE g == [p \in DOMAIN made |-> Called(made[p], c)]
    <3>1. file - 1 \in Nat /\ 1..(file - 1) \subseteq DOMAIN made /\ \A p \in DOMAIN made : made[p] \in Seq(CallRecord)
      BY LenProperties, ElementOfSeq DEF ReportsInv
    <3>2. \A p \in 1..(file - 1) : g[p] \in Nat
      BY <3>1, CalledIs
    <3>3. IsFiniteSet(1..(file - 1))
      BY <3>1, FS_Interval
    <3> HIDE DEF g
    <3>4. SumOn(g, 1..(file - 1)) \in Nat
      BY <3>2, <3>3, SumOnIs
    <3> QED
      BY <3>4 DEF SumBefore, g
  <2>2. ListTime(metrics'[2], c) = ListTime(metrics[2], c) + (IF d > k + 5 /\ f[d].name = c THEN f[d].time ELSE 0)
    BY <1>1
  <2>3. ListTime(metrics[2], c) = SumBefore(file - 1, c) + RowsTime(f, k, n, i, e, c)
    BY <1>2
  <2> HIDE DEF d
  <2>4. \A x, y, z \in Nat : (x + y) + z = x + (y + z)
    OBVIOUS
  <2> QED
    BY <1>4, <2>1, <2>2, <2>3, <2>4
<1>6. \A c \in CclNames : SumBefore(file - 1, c)' = SumBefore(file - 1, c)
  BY DEF SumBefore
<1> QED
  BY <1>0, <1>1, <1>2, <1>5, <1>6 DEF InFile, f, e

LEMMA LineRead ==
  ASSUME PipelineInv, rest # <<>>, Consume, UNCHANGED <<cclVars, files, made, file, output>>,
         NEW k, NEW n, NEW i, InFile(k, n, i), file \in 1..Len(files),
         section' = SectionAt(k, i + 1), reading' = ModeAt(k, i + 1), MetricsTyped',
         \A c \in CclNames : ListTime(metrics'[2], c) = ListTime(metrics[2], c) +
           (IF i + 1 > k + 5 /\ Head(rest).name = c THEN Head(rest).time ELSE 0)
  PROVE  PipelineInv'
<1>1. ReportsInv /\ ReportsInv'
  BY DEF PipelineInv, ReportsInv
<1>2. CclInv'
  BY CclInvNext DEF PipelineInv
<1>3. InFile(k, n, i + 1)'
  BY <1>1, LineTaken
<1>4. output = << >> /\ output' = << >>
  BY DEF PipelineInv, ReaderInv
<1>5. file' \in 0..Len(files') /\ file' > 0
  <2>1. Len(files) \in Nat
    BY <1>1, LenProperties DEF ReportsInv
  <2> QED
    BY <2>1
<1>6. ReaderInv'
  BY <1>3, <1>4, <1>5 DEF ReaderInv
<1> QED
  BY <1>1, <1>2, <1>6 DEF PipelineInv

\* Where the reader is.
LEMMA Place ==
  ASSUME PipelineInv, rest # <<>>
  PROVE  file \in 1..Len(files) /\ \E k, n, i : InFile(k, n, i)
<1>1. file \in 0..Len(files) /\ (file = 0 => rest = <<>>) /\ (file > 0 => \E k, n, i : InFile(k, n, i))
  BY DEF PipelineInv, ReaderInv
<1>2. Len(files) \in Nat
  BY LenProperties DEF PipelineInv, ReportsInv
<1> QED
  BY <1>1, <1>2

LEMMA ZeroMore ==
  ASSUME MetricsTyped, NEW c
  PROVE  ListTime(metrics[2], c) \in Nat /\ ListTime(metrics[2], c) + 0 = ListTime(metrics[2], c)
<1> DEFINE l == metrics[2][c]
           f == [i \in DOMAIN l |-> l[i].time]
<1>1. CASE c \in DOMAIN metrics[2]
  <2>1. l \in Seq(Entry)
    BY <1>1 DEF MetricsTyped, Listed
  <2>2. ListTime(metrics[2], c) = SumOn(f, DOMAIN l)
    BY <1>1 DEF ListTime
  <2> HIDE DEF l
  <2>3. Len(l) \in Nat /\ DOMAIN l = 1..Len(l) /\ \A i \in DOMAIN l : l[i] \in Entry
    BY <2>1, LenProperties, ElementOfSeq
  <2>4. IsFiniteSet(DOMAIN l)
    BY <2>3, FS_Interval
  <2>5. \A i \in DOMAIN l : f[i] \in Nat
    BY <2>3 DEF Entry
  <2> HIDE DEF f
  <2> QED
    BY <2>2, <2>4, <2>5, SumOnIs
<1>2. CASE c \notin DOMAIN metrics[2]
  BY <1>2 DEF ListTime
<1> QED
  BY <1>1, <1>2

\* Lines that nothing is collected from.
LEMMA OtherLines ==
  ASSUME PipelineInv, UNCHANGED <<cclVars, files, made>>,
         Skip \/ Heading \/ Stars \/ Backend \/ Header \/ (EndTable /\ rest # <<>>)
  PROVE  PipelineInv'
<1>1. rest # <<>> /\ Consume /\ UNCHANGED <<file, metrics, output>>
  BY DEF Skip, Heading, Stars, Backend, Header, EndTable, Here
<1>2. file \in 1..Len(files) /\ \E k, n, i : InFile(k, n, i)
  BY <1>1, Place
<1>3. PICK k, n, i : InFile(k, n, i)
  BY <1>2
<1>4. /\ i \in Nat /\ k \in {0, 20} /\ Head(rest).label = LabelOf(k, i + 1)
      /\ section = SectionAt(k, i) /\ reading = ModeAt(k, i)
  BY <1>1, <1>2, <1>3, NextLine DEF PipelineInv
<1> DEFINE t == SectionAt(k, i + 1)
           m == ModeAt(k, i + 1)
           d == i + 1
<1>5. /\ Moves(Head(rest).label, section, reading, t, m)
      /\ d > k + 5 <=> reading = "records" /\ section = 2
  BY <1>4, Moved
<1> HIDE DEF t, m, d
<1>6. section' = t /\ reading' = m /\ ~(reading = "records" /\ section = 2)
  <2>1. CASE Skip
    BY <1>5, <2>1 DEF Skip, Here, Moves
  <2>2. CASE Heading
    BY <1>5, <2>2 DEF Heading, Here, Moves
  <2>3. CASE Stars
    BY <1>5, <2>3 DEF Stars, Here, Moves
  <2>4. CASE Backend
    BY <1>5, <2>4 DEF Backend, Here, Moves
  <2>5. CASE Header
    BY <1>5, <2>5 DEF Header, Here, Moves
  <2>6. CASE EndTable /\ rest # <<>>
    BY <1>5, <2>6 DEF EndTable, Here, Moves
  <2> QED
    BY <2>1, <2>2, <2>3, <2>4, <2>5, <2>6
<1>7. \A c \in CclNames : ListTime(metrics'[2], c) = ListTime(metrics[2], c) +
        (IF d > k + 5 /\ Head(rest).name = c THEN Head(rest).time ELSE 0)
  BY <1>1, <1>5, <1>6, ZeroMore DEF PipelineInv
<1>8. MetricsTyped'
  BY <1>1 DEF PipelineInv, MetricsTyped
<1> QED
  BY <1>1, <1>2, <1>3, <1>6, <1>7, <1>8, LineRead DEF t, m, d

\* Lines with numbers.
LEMMA NumberLines ==
  ASSUME PipelineInv, UNCHANGED <<cclVars, files, made>>, Total \/ ReadRecord
  PROVE  PipelineInv'
<1>1. rest # <<>> /\ Consume /\ UNCHANGED <<file, section, output>>
  BY DEF Total, ReadRecord, Here
<1>2. file \in 1..Len(files) /\ \E k, n, i : InFile(k, n, i)
  BY <1>1, Place
<1>3. PICK k, n, i : InFile(k, n, i)
  BY <1>2
<1>4. /\ i \in Nat /\ k \in {0, 20} /\ Head(rest).label = LabelOf(k, i + 1) /\ Head(rest) \in Lines
      /\ section = SectionAt(k, i) /\ reading = ModeAt(k, i)
  BY <1>1, <1>2, <1>3, NextLine DEF PipelineInv
<1> DEFINE t == SectionAt(k, i + 1)
           m == ModeAt(k, i + 1)
           d == i + 1
           h == Head(rest)
<1>5. /\ Moves(h.label, section, reading, t, m)
      /\ d > k + 5 <=> reading = "records" /\ section = 2
  BY <1>4, Moved
<1>9. h \in Lines
  BY <1>4
<1> HIDE DEF t, m, d, h
<1>6. \E name : \E e \in Entry :
        /\ metrics' = [metrics EXCEPT ![section] = Added(@, name, e)]
        /\ section \in 0..2 /\ section' = t /\ reading' = m
        /\ section = 2 => reading = "records" /\ name = h.name /\ e.time = h.time
  <2>1. CASE Total
    <3>1. h.label \in {"execution", "apitotal", "devicetotal"} /\ reading = "skip"
      BY <2>1 DEF Total, Here, h
    <3>2. t = section /\ section \in {0, 1} /\ m = reading /\ reading' = reading /\ section' = section
      BY <1>5, <2>1, <3>1 DEF Moves, Total
    <3>3. h.time \in Nat
      BY <1>9, <3>1 DEF Lines
    <3> DEFINE e == [time |-> h.time, calls |-> 1]
               name == IF h.label = "execution" THEN Wallclock ELSE L0Backend
    <3>4. metrics' = [metrics EXCEPT ![section] = Added(@, name, e)]
      <4>1. Of(section) = section
        BY <3>2 DEF Of
      <4>2. metrics' = [metrics EXCEPT ![Of(section)] =
                          Added(@, IF Head(rest).label = "execution" THEN Wallclock ELSE L0Backend,
                                   [time |-> Head(rest).time, calls |-> 1])]
        BY <2>1 DEF Total, Collect
      <4> QED
        BY <4>1, <4>2 DEF h
    <3>5. e \in Entry
      BY <3>3 DEF Entry
    <3> HIDE DEF e, name
    <3> QED
      <4>1. section \in 0..2 /\ section # 2 /\ section' = t /\ reading' = m
        BY <3>2
      <4> QED
        BY <3>4, <3>5, <4>1
  <2>2. CASE ReadRecord
    <3>1. reading = "records" /\ h.label \in Labels \ {"blank"}
      BY <2>2 DEF ReadRecord, Here, h
    <3>2. h.label = "row" /\ t = section /\ section \in 0..2 /\ m = reading
      BY <1>5, <3>1 DEF Moves
    <3>3. h.time \in Nat /\ h.calls \in Nat
      BY <1>9, <3>2 DEF Lines
    <3> DEFINE e == [time |-> h.time, calls |-> h.calls]
    <3>4. metrics' = [metrics EXCEPT ![section] = Added(@, h.name, e)] /\ reading' = reading /\ section' = section
      BY <2>2, <3>2 DEF ReadRecord, Collect, Of, h
    <3>5. e \in Entry /\ e.time = h.time
      BY <3>3 DEF Entry
    <3> HIDE DEF e
    <3> QED
      BY <3>1, <3>2, <3>4, <3>5
  <2> QED
    BY <2>1, <2>2
<1>7. PICK name, e : /\ e \in Entry
                     /\ metrics' = [metrics EXCEPT ![section] = Added(@, name, e)]
                     /\ section \in 0..2 /\ section' = t /\ reading' = m
                     /\ section = 2 => reading = "records" /\ name = h.name /\ e.time = h.time
  BY <1>6
<1>8. /\ MetricsTyped'
      /\ \A c : ListTime(metrics'[2], c) = ListTime(metrics[2], c) + (IF section = 2 /\ c = name THEN e.time ELSE 0)
  <2>1. MetricsTyped /\ section \in 0..2 /\ e \in Entry /\ Gets(section, name, e)
    BY <1>7 DEF PipelineInv, Gets
  <2> QED
    BY ONLY <2>1, CollectedTime
<1>10. \A c \in CclNames : ListTime(metrics'[2], c) = ListTime(metrics[2], c) +
         (IF d > k + 5 /\ h.name = c THEN h.time ELSE 0)
  BY <1>5, <1>7, <1>8
<1> QED
  BY <1>1, <1>2, <1>3, <1>7, <1>8, <1>10, LineRead DEF t, m, d, h

\* At the end of a file the comm section has the time of all calls so far.
LEMMA FileEnd ==
  ASSUME ReportsInv, NEW k, NEW n, NEW i, InFile(k, n, i), file \in 1..Len(files), rest = <<>>
  PROVE  /\ i = Len(files[file]) /\ (reading = "records" => n > 0)
         /\ \A c \in CclNames : ListTime(metrics[2], c) = SumBefore(file, c)
<1> DEFINE f == files[file]
           e == made[file]
<1>1. /\ IsReport(f, k, n, e) /\ i \in 0..Len(f) /\ AtLine(f, i)
      /\ reading = ModeAt(k, i) \/ reading = "skip"
      /\ \A c \in CclNames : ListTime(metrics[2], c) = SumBefore(file - 1, c) + RowsTime(f, k, n, i, e, c)
  BY DEF InFile
<1>2. /\ k \in {0, 20} /\ n \in Nat /\ f \in Seq(Lines) /\ Len(f) = IF n = 0 THEN k + 1 ELSE k + 5 + n
      /\ \A c \in CclNames : (\A j \in 1..n : f[k + 5 + j].name # c) => Called(e, c) = 0
  BY <1>1 DEF IsReport
<1>3. /\ file \in Nat /\ file - 1 \in Nat /\ \A p \in 1..file : p \in DOMAIN made /\ made[p] \in Seq(CallRecord)
  BY LenProperties, ElementOfSeq DEF ReportsInv
<1> HIDE DEF f, e
<1>4. i = Len(f) /\ Len(f) \in Nat
  <2>1. Len(rest) = 0 /\ Len(rest) = Len(f) - i
    BY <1>1 DEF AtLine
  <2> QED
    BY <1>1, <1>2, <2>1
<1>5. reading = "records" => n > 0
  BY <1>1, <1>2, <1>4 DEF ModeAt
<1>6. ASSUME NEW c \in CclNames PROVE ListTime(metrics[2], c) = SumBefore(file, c)
  <2> DEFINE g == [p \in DOMAIN made |-> Called(made[p], c)]
  <2>1. \A p \in 1..file : g[p] \in Nat /\ g[p] = Called(made[p], c)
    BY <1>3, CalledIs
  <2>2. SumBefore(file, c) = SumOn(g, 1..file) /\ SumBefore(file - 1, c) = SumOn(g, 1..(file - 1))
    BY DEF SumBefore
  <2>3. g[file] = Called(e, c)
    BY <1>3, <2>1 DEF e
  <2> HIDE DEF g
  <2>4. /\ 1..file = 1..(file - 1) \cup {file} /\ file \notin 1..(file - 1)
    BY <1>3
  <2>5. IsFiniteSet(1..(file - 1))
    BY <1>3, FS_Interval
  <2>6. SumOn(g, 1..(file - 1) \cup {file}) = g[file] + SumOn(g, 1..(file - 1))
    <3>1. \A p \in 1..(file - 1) \cup {file} : g[p] \in Nat
      BY <2>1, <2>4
    <3> QED
      BY <2>4, <2>5, <3>1, SumOnOneMore
  <2>7. SumOn(g, 1..(file - 1)) \in Nat
    <3>1. \A p \in 1..(file - 1) : g[p] \in Nat
      BY <2>1, <2>4
    <3> QED
      BY <2>5, <3>1, SumOnIs
  <2>8. RowsTime(f, k, n, i, e, c) = Called(e, c)
    <3>1. CASE \E j \in 1..n : f[k + 5 + j].name = c
      <4>1. PICK j \in 1..n : f[k + 5 + j].name = c
        BY <3>1
      <4>2. n > 0 /\ Len(f) = k + 5 + n
        BY <1>2, <4>1
      <4>3. k + 5 + j <= i
        BY <1>2, <1>4, <4>2
      <4>4. \E l \in 1..n : k + 5 + l <= i /\ f[k + 5 + l].name = c
        BY <4>1, <4>3
      <4> QED
        BY <4>4 DEF RowsTime
    <3>2. CASE \A j \in 1..n : f[k + 5 + j].name # c
      BY <1>2, <3>2 DEF RowsTime
    <3> QED
      BY <3>1, <3>2
  <2>9. ListTime(metrics[2], c) = SumOn(g, 1..(file - 1)) + g[file]
    BY <1>1, <2>2, <2>3, <2>8
  <2>10. g[file] \in Nat
    BY <1>3, <2>1
  <2>11. SumOn(g, 1..(file - 1)) + g[file] = g[file] + SumOn(g, 1..(file - 1))
    BY ONLY <2>7, <2>10
  <2> QED
    BY <2>2, <2>4, <2>6, <2>9, <2>11
<1> QED
  BY <1>4, <1>5, <1>6 DEF f

--------------------------------------------------------------------------------
(* The other steps.                                                        *)

LEMMA PipelineStart == PipelineInit => PipelineInv
<1> SUFFICES ASSUME PipelineInit PROVE PipelineInv
  OBVIOUS
<1>1. CclInv
  BY CclInvInit DEF PipelineInit
<1>2. /\ files = <<>> /\ made = <<>> /\ file = 0 /\ rest = <<>> /\ reading = "skip" /\ output = << >>
      /\ DOMAIN metrics = 0..2 /\ \A s \in 0..2 : metrics[s] = << >>
  BY DEF PipelineInit
<1>3. ReportsInv
  BY <1>2 DEF ReportsInv
<1>4. MetricsTyped
  BY <1>2, FS_EmptySet DEF MetricsTyped, Listed
<1>5. \A c : ListTime(metrics[2], c) = 0
  BY <1>2 DEF ListTime
<1>6. ReaderInv
  BY <1>2, <1>5 DEF ReaderInv
<1> QED
  BY <1>1, <1>3, <1>4, <1>6 DEF PipelineInv

LEMMA ReportLogged ==
  ASSUME PipelineInv, LogReport
  PROVE  PipelineInv'
<1>1. CclInv'
  BY CclStart DEF LogReport
<1>2. PICK t \in TimedParts : files' = Append(files, t \o <<Line("blank")>> \o CclPart(report))
  BY DEF LogReport
<1>3. /\ made' = Append(made, ended) /\ UNCHANGED <<file, rest, section, reading, metrics, output>>
      /\ file = 0 /\ reported
  BY DEF LogReport, scriptVars
<1> DEFINE f == t \o <<Line("blank")>> \o CclPart(report)
<1>4. PICK k, n : IsReport(f, k, n, ended)
  BY <1>3, ReportMade DEF PipelineInv
<1>5. files' = Append(files, f)
  BY <1>2
<1> HIDE DEF f
<1>6. f \in Seq(Lines) /\ ended \in Seq(CallRecord)
  BY <1>4 DEF IsReport, PipelineInv, CclInv, Tallied
<1> DEFINE d == Len(files) + 1
<1>7. /\ Len(files) \in Nat /\ files' \in Seq(Seq(Lines)) /\ Len(files') = d /\ files'[d] = f
      /\ \A p \in 1..Len(files) : files'[p] = files[p]
  BY <1>5, <1>6, AppendProperties, LenProperties DEF PipelineInv, ReportsInv
<1>8. /\ Len(made) = Len(files) /\ made' \in Seq(Seq(CallRecord)) /\ Len(made') = d /\ made'[d] = ended
      /\ \A p \in 1..Len(files) : made'[p] = made[p]
  BY <1>3, <1>6, AppendProperties, LenProperties DEF PipelineInv, ReportsInv
<1>9. ASSUME NEW p \in 1..Len(files') PROVE \E l, m : IsReport(files'[p], l, m, made'[p])
  <2>1. CASE p = d
    <3> HIDE DEF d
    <3> QED
      BY <1>4, <1>7, <1>8, <2>1
  <2>2. CASE p \in 1..Len(files)
    BY <1>7, <1>8, <2>2 DEF PipelineInv, ReportsInv
  <2> QED
    BY <1>7, <2>1, <2>2
<1>10. ReportsInv'
  BY <1>7, <1>8, <1>9 DEF ReportsInv
<1>11. file' \in 0..Len(files') /\ file' = 0
  BY <1>3, <1>7
<1>12. ReaderInv'
  BY <1>3, <1>11 DEF ReaderInv, PipelineInv
<1> QED
  BY <1>1, <1>3, <1>10, <1>12 DEF PipelineInv, MetricsTyped

LEMMA FileOpened ==
  ASSUME PipelineInv, NextFile, UNCHANGED <<cclVars, files, made>>
  PROVE  PipelineInv'
<1>1. /\ reading = "skip" /\ rest = <<>> /\ file < Len(files) /\ file' = file + 1 /\ rest' = files[file + 1]
      /\ section' = -1 /\ UNCHANGED <<reading, metrics, output>>
  BY DEF NextFile
<1>2. CclInv' /\ MetricsTyped' /\ ReportsInv /\ ReportsInv'
  BY <1>1, CclInvNext DEF PipelineInv, MetricsTyped, ReportsInv
<1>3. /\ file \in Nat /\ Len(files) \in Nat /\ file \in 0..Len(files)
      /\ output = << >>
      /\ file = 0 => \A c : ListTime(metrics[2], c) = 0
      /\ file > 0 => \E k, n, i : InFile(k, n, i)
  <2>1. Len(files) \in Nat
    BY <1>2, LenProperties DEF ReportsInv
  <2> QED
    BY <1>1, <2>1 DEF PipelineInv, ReaderInv
<1> DEFINE d == file + 1
<1>4. d \in 1..Len(files) /\ d - 1 = file /\ d > 0
  BY <1>1, <1>3
<1>5. file' = d /\ rest' = files[d]
  BY <1>1
<1> HIDE DEF d
<1>6. PICK k, n : IsReport(files[d], k, n, made[d])
  BY <1>2, <1>4 DEF ReportsInv
<1>7. ASSUME NEW c \in CclNames PROVE ListTime(metrics[2], c) = SumBefore(file, c) /\ ListTime(metrics[2], c) \in Nat
  <2>1. CASE file = 0
    <3>1. 1..file = {}
      BY <2>1
    <3> QED
      BY <1>3, <2>1, <3>1, SumOnEmpty DEF SumBefore
  <2>2. CASE file > 0
    <3>1. file \in 1..Len(files)
      BY <1>3, <2>2
    <3>2. PICK l, m, j : InFile(l, m, j)
      BY <1>3, <2>2
    <3> QED
      BY <1>1, <1>2, <3>1, <3>2, FileEnd, ZeroMore DEF PipelineInv
  <2> QED
    BY <1>3, <2>1, <2>2
<1> DEFINE f == files[d]
<1>8. f \in Seq(Lines) /\ Len(f) \in Nat /\ k \in {0, 20} /\ n \in Nat
  BY <1>6, LenProperties DEF IsReport
<1>9. files'[file'] = f /\ made'[file'] = made[d]
  BY <1>5
<1>10. AtLine(files[file], 0)'
  <2> HIDE DEF f
  <2>1. rest' = f /\ files'[file'] = f
    BY <1>5, <1>9 DEF f
  <2>2. \A j \in 1..Len(f) : 0 + j = j
    BY <1>8
  <2>3. Len(f) = Len(f) - 0
    BY <1>8
  <2>4. /\ rest' \in Seq(Lines) /\ Len(rest') = Len(files'[file']) - 0
        /\ \A j \in 1..Len(rest') : rest'[j] = files'[file'][0 + j]
    BY <1>8, <2>1, <2>2, <2>3
  <2> QED
    BY <2>4 DEF AtLine
<1>11. ASSUME NEW c \in CclNames
       PROVE  ListTime(metrics'[2], c) = SumBefore(file - 1, c)' + RowsTime(files'[file'], k, n, 0, made'[file'], c)
  <2>1. ~\E j \in 1..n : k + 5 + j <= 0
    BY <1>8
  <2>2. RowsTime(files'[file'], k, n, 0, made'[file'], c) = 0
    BY <2>1 DEF RowsTime
  <2>3. SumBefore(file - 1, c)' = SumBefore(file, c)
    <3>1. file' - 1 = file
      BY <1>4, <1>5
    <3> QED
      BY <3>1 DEF SumBefore
  <2>4. ListTime(metrics'[2], c) = SumBefore(file, c) /\ SumBefore(file, c) \in Nat
    BY <1>1, <1>7
  <2> QED
    BY <2>2, <2>3, <2>4
<1>12. section' = SectionAt(k, 0) /\ reading' = ModeAt(k, 0)
  BY <1>1, <1>8 DEF SectionAt, ModeAt
<1>13. InFile(k, n, 0)'
  BY <1>5, <1>6, <1>8, <1>9, <1>10, <1>11, <1>12 DEF InFile
<1>14. file' \in 0..Len(files') /\ file' > 0 /\ output' = << >>
  BY <1>1, <1>3, <1>4, <1>5
<1>15. ReaderInv'
  BY <1>13, <1>14 DEF ReaderInv
<1> QED
  BY <1>2, <1>15 DEF PipelineInv

LEMMA TableEnded ==
  ASSUME PipelineInv, EndTable, rest = <<>>, UNCHANGED <<cclVars, files, made>>
  PROVE  PipelineInv'
<1>1. rest' = rest /\ reading = "records" /\ reading' = "skip" /\ UNCHANGED <<file, metrics, output>>
  BY DEF EndTable, Here
<1>2. CclInv' /\ MetricsTyped' /\ ReportsInv /\ ReportsInv'
  BY <1>1, CclInvNext DEF PipelineInv, MetricsTyped, ReportsInv
<1>3. file \in 1..Len(files) /\ file > 0 /\ output = << >> /\ \E k, n, i : InFile(k, n, i)
  <2>1. Len(files) \in Nat
    BY <1>2, LenProperties DEF ReportsInv
  <2> QED
    BY <1>1, <2>1 DEF PipelineInv, ReaderInv
<1>4. PICK k, n, i : InFile(k, n, i)
  BY <1>3
<1>5. i = Len(files[file]) /\ n > 0
  BY <1>1, <1>2, <1>3, <1>4, FileEnd
<1>6. \A c : SumBefore(file - 1, c)' = SumBefore(file - 1, c)
  BY <1>1 DEF SumBefore
<1>7. AtLine(files[file], i)' <=> AtLine(files[file], i)
  BY <1>1 DEF AtLine
<1>8. InFile(k, n, i)'
  BY <1>1, <1>4, <1>5, <1>6, <1>7 DEF InFile
<1>9. ReaderInv'
  <2>1. file' \in 0..Len(files')
    BY <1>1 DEF PipelineInv, ReaderInv
  <2> QED
    BY <1>1, <1>3, <1>8, <2>1 DEF ReaderInv
<1> QED
  BY <1>2, <1>9 DEF PipelineInv

\* Nothing the reader knows changes.
LEMMA ReaderKept ==
  ASSUME ReportsInv, ReaderInv, MetricsTyped, UNCHANGED <<files, made, file, rest, section, reading, metrics>>,
         output' = output \/ WriteOutput
  PROVE  ReportsInv' /\ ReaderInv' /\ MetricsTyped'
<1>1. ReportsInv' /\ MetricsTyped'
  BY DEF ReportsInv, MetricsTyped
<1>2. ASSUME NEW k, NEW n, NEW i, InFile(k, n, i) PROVE InFile(k, n, i)'
  <2>1. \A c : SumBefore(file - 1, c)' = SumBefore(file - 1, c)
    BY DEF SumBefore
  <2>2. AtLine(files[file], i)' <=> AtLine(files[file], i)
    BY DEF AtLine
  <2> QED
    BY <1>2, <2>1, <2>2 DEF InFile
<1>3. Written' = Written
  <2>1. Subjects' = Subjects
    BY DEF Subjects
  <2>2. \A a, x : Value(a, x)' = Value(a, x)
    BY DEF Value
  <2>3. \A a, S : CategorySum(a, S)' = CategorySum(a, S)
    BY <2>2 DEF CategorySum, MapThenFoldSet
  <2>4. Cats' = Cats
    BY <2>1 DEF Cats
  <2> QED
    BY <2>1, <2>3, <2>4 DEF Written
<1>4. output' # << >> => /\ output' = Written
                         /\ file = Len(files) /\ file > 0 /\ rest = <<>> /\ reading = "skip"
  <2>1. CASE output' = output
    BY <2>1 DEF ReaderInv
  <2>2. CASE WriteOutput
    BY <2>2 DEF WriteOutput, Written, Cats, CategorySum
  <2> QED
    BY <2>1, <2>2
<1>5. ReaderInv'
  BY <1>2, <1>3, <1>4 DEF ReaderInv
<1> QED
  BY <1>1, <1>5

LEMMA PipelineNextKept == PipelineInv /\ [PipelineNext]_pipelineVars => PipelineInv'
<1> SUFFICES ASSUME PipelineInv, [PipelineNext]_pipelineVars PROVE PipelineInv'
  OBVIOUS
<1>1. CASE CclNext /\ UNCHANGED <<files, made, scriptVars>>
  <2>1. CclInv'
    BY <1>1, CclInvNext DEF PipelineInv
  <2>2. ReportsInv' /\ ReaderInv' /\ MetricsTyped'
    BY <1>1, ReaderKept DEF PipelineInv, scriptVars
  <2> QED
    BY <2>1, <2>2 DEF PipelineInv
<1>2. CASE LogReport
  BY <1>2, ReportLogged
<1>3. CASE ReadStep /\ UNCHANGED <<cclVars, files, made>>
  <2>1. CASE Skip \/ Heading \/ Stars \/ Backend \/ Header \/ (EndTable /\ rest # <<>>)
    BY <1>3, <2>1, OtherLines
  <2>2. CASE Total \/ ReadRecord
    BY <1>3, <2>2, NumberLines
  <2>3. CASE NextFile
    BY <1>3, <2>3, FileOpened
  <2>4. CASE EndTable /\ rest = <<>>
    BY <1>3, <2>4, TableEnded
  <2>5. CASE WriteOutput
    <3>1. CclInv'
      BY <1>3, CclInvNext DEF PipelineInv
    <3>2. ReportsInv' /\ ReaderInv' /\ MetricsTyped'
      BY <1>3, <2>5, ReaderKept DEF PipelineInv, WriteOutput
    <3> QED
      BY <3>1, <3>2 DEF PipelineInv
  <2> QED
    BY <1>3, <2>1, <2>2, <2>3, <2>4, <2>5 DEF ReadStep
<1>4. CASE UNCHANGED pipelineVars
  <2>1. CclInv'
    BY <1>4, CclInvNext DEF PipelineInv, pipelineVars
  <2>2. ReportsInv' /\ ReaderInv' /\ MetricsTyped'
    BY <1>4, ReaderKept DEF PipelineInv, pipelineVars, scriptVars
  <2> QED
    BY <2>1, <2>2 DEF PipelineInv
<1> QED
  BY <1>1, <1>2, <1>3, <1>4 DEF PipelineNext

--------------------------------------------------------------------------------
(* What follows.                                                           *)

MadeTimes(n) == [c \in CallsMade(n) |-> made[c[1]][c[2]].time]

LEMMA MadeAdded ==
  ASSUME NEW n
  PROVE  TimeMade(n) = SumOn(MadeTimes(n), CallsMade(n))
<1> DEFINE S == CallsMade(n)
           Goes(g) == g = [s \in SUBSET S |-> IF s = {} THEN 0
                             ELSE made[(CHOOSE x \in s : TRUE)[1]][(CHOOSE x \in s : TRUE)[2]].time
                                    + g[s \ {CHOOSE x \in s : TRUE}]]
<1>1. TimeMade(n) = (CHOOSE g : Goes(g))[S]
  BY DEF TimeMade, MapThenSumSet, MapThenFoldSet
<1>2. ASSUME NEW g PROVE Goes(g) <=> Sums(g, MadeTimes(n), S)
  <2>1. ASSUME NEW s \in SUBSET S, s # {}
        PROVE  MadeTimes(n)[Some(s)] = made[(CHOOSE x \in s : TRUE)[1]][(CHOOSE x \in s : TRUE)[2]].time
    <3>1. Some(s) \in S
      BY <2>1 DEF Some
    <3> QED
      BY <3>1 DEF Some, MadeTimes
  <2> QED
    BY <2>1 DEF Sums, Rest, Some
<1> HIDE DEF Goes, S
<1>3. (CHOOSE g : Goes(g)) = (CHOOSE g : Sums(g, MadeTimes(n), S))
  BY <1>2
<1> QED
  BY <1>1, <1>3 DEF SumOn, S

\* The calls of a job are those of its processes.
LEMMA MadeInAll ==
  ASSUME ReportsInv, NEW n
  PROVE  TimeMade(n) = SumBefore(Len(files), n)
<1> DEFINE K == DOMAIN made
           p == [q \in K |-> {<<q, i>> : i \in CallsIn(made[q], n)}]
           t == [q \in K |-> SumOn(MadeTimes(n), p[q])]
           g == [q \in K |-> Called(made[q], n)]
<1>1. K = 1..Len(files) /\ \A q \in K : made[q] \in Seq(CallRecord)
  BY LenProperties, ElementOfSeq DEF ReportsInv
<1>2. IsFiniteSet(K)
  <2>1. Len(files) \in Nat
    BY LenProperties DEF ReportsInv
  <2>2. 1 \in Int /\ Len(files) \in Int
    BY <2>1
  <2>3. IsFiniteSet(1..Len(files))
    BY ONLY <2>2, FS_Interval
  <2> QED
    BY <1>1, <2>3
<1>3. CallsMade(n) = UNION {p[q] : q \in K}
  BY DEF CallsMade, CallsIn
<1>4. ASSUME NEW q \in K
      PROVE  /\ IsFiniteSet(p[q]) /\ SumOn(MadeTimes(n), p[q]) = g[q] /\ g[q] \in Nat
             /\ \A c \in p[q] : MadeTimes(n)[c] \in Nat
  <2> DEFINE D == CallsIn(made[q], n)
             h == [i \in D |-> <<q, i>>]
  <2>1. /\ g[q] \in Nat /\ g[q] = SumOn(AllTimes(made[q]), D)
        /\ IsFiniteSet(D) /\ \A i \in D : AllTimes(made[q])[i] \in Nat
    BY <1>1, CalledIs DEF Called
  <2>2. p[q] = {h[i] : i \in D} /\ \A i, j \in D : i # j => h[i] # h[j]
    OBVIOUS
  <2>3. \A i \in D : MadeTimes(n)[h[i]] = AllTimes(made[q])[i]
    <3>1. ASSUME NEW i \in D PROVE MadeTimes(n)[<<q, i>>] = made[q][i].time /\ i \in DOMAIN made[q]
      <4>1. <<q, i>> \in CallsMade(n)
        BY <1>3
      <4> QED
        BY <4>1 DEF MadeTimes, CallsIn
    <3> QED
      BY <3>1 DEF AllTimes
  <2> HIDE DEF p, h, D, g
  <2>4. IsFiniteSet({h[i] : i \in D}) /\ SumOn(MadeTimes(n), {h[i] : i \in D}) = SumOn(AllTimes(made[q]), D)
    <3> DEFINE f == MadeTimes(n)
               e == AllTimes(made[q])
    <3>1. \A i \in D : f[h[i]] = e[i] /\ e[i] \in Nat
      BY <2>1, <2>3
    <3> HIDE DEF f, e
    <3>2. IsFiniteSet({h[i] : i \in D}) /\ SumOn(f, {h[i] : i \in D}) = SumOn(e, D)
      BY <2>1, <2>2, <3>1, SumOnNames
    <3> QED
      BY <3>2 DEF e, f
  <2>5. \A c \in p[q] : MadeTimes(n)[c] \in Nat
    BY <2>1, <2>2, <2>3
  <2> QED
    BY <2>1, <2>2, <2>4, <2>5
<1>5. \A q, r \in K : q # r => p[q] \cap p[r] = {}
  OBVIOUS
<1> HIDE DEF p, K, g
<1>6. Parted(CallsMade(n), p, K)
  BY <1>3, <1>4, <1>5 DEF Parted
<1>7. \A c \in CallsMade(n) : MadeTimes(n)[c] \in Nat
  BY <1>3, <1>4
<1>8. SumOn(MadeTimes(n), CallsMade(n)) = SumOn(t, K)
  BY <1>2, <1>6, <1>7, SumOnParts
<1>9. \A q \in K : t[q] \in Nat /\ t[q] = g[q]
  BY <1>4
<1> HIDE DEF t
<1>10. SumOn(t, K) = SumOn(g, K)
  BY <1>2, <1>9, SumOnAgrees
<1>11. SumBefore(Len(files), n) = SumOn(g, K)
  BY <1>1 DEF SumBefore, g, K
<1> QED
  BY <1>8, <1>10, <1>11, MadeAdded

LEMMA CommFollows == PipelineInv => CommMatchesCalls
<1> SUFFICES ASSUME PipelineInv PROVE CommMatchesCalls
  OBVIOUS
<1>1. ReportsInv /\ ReaderInv /\ Len(files) \in Nat
  BY LenProperties DEF PipelineInv, ReportsInv
<1>2. reading # "failed"
  <2>1. CASE file = 0
    BY <1>1, <2>1 DEF ReaderInv
  <2>2. CASE file > 0
    <3>1. PICK k, n, i : reading = ModeAt(k, i) \/ reading = "skip"
      BY <1>1, <2>2 DEF ReaderInv, InFile
    <3>2. ModeAt(k, i) \in {"skip", "header", "records"}
      BY DEF ModeAt
    <3> QED
      BY <3>1, <3>2
  <2> QED
    BY <1>1, <2>1, <2>2 DEF ReaderInv
<1>3. ASSUME output # << >>, NEW n \in CclNames PROVE TimeRead(2, n) = TimeMade(n)
  <2>1. file \in 1..Len(files) /\ file = Len(files) /\ rest = <<>> /\ \E k, m, i : InFile(k, m, i)
    BY <1>1, <1>3 DEF ReaderInv
  <2>2. PICK k, m, i : InFile(k, m, i)
    BY <2>1
  <2>3. ListTime(metrics[2], n) = SumBefore(Len(files), n)
    BY <1>1, <2>1, <2>2, FileEnd
  <2>4. TimeRead(2, n) = ListTime(metrics[2], n)
    <3> DEFINE l == metrics[2][n]
    <3>1. CASE n \in DOMAIN metrics[2]
      <4>1. MapThenSumSet(LAMBDA j : l[j].time, DOMAIN l) = SumOn([j \in DOMAIN l |-> l[j].time], DOMAIN l)
        <5> HIDE DEF l
        <5> QED
          BY CategoriesAdded
      <4> QED
        BY <3>1, <4>1 DEF TimeRead, ListTime
    <3>2. CASE n \notin DOMAIN metrics[2]
      BY <3>2 DEF TimeRead, ListTime
    <3> QED
      BY <3>1, <3>2
  <2> QED
    BY <1>1, <2>3, <2>4, MadeInAll
<1> QED
  BY <1>2, <1>3 DEF CommMatchesCalls

\* The table stays right when its process is one of a job, whose reports a script
\* reads (itt_collector.h, AddFunctionTime and CclSummaryReport).
THEOREM PipelineTableCorrect == PipelineSpec => []TableMatchesCalls
<1>1. PipelineInv => TableMatchesCalls
  BY TableFollows DEF PipelineInv
<1> QED
  BY <1>1, PipelineStart, PipelineNextKept, PTL DEF PipelineSpec

\* The script never stumbles over a report that the tool writes, with or without
\* timed sections before the oneCCL table, and however many files there are: it
\* ends with each function's measured oneCCL time counted once (summary.py,
\* aprocess and csv_from; itt_collector.h, CclSummaryReport).
THEOREM CommCorrect == PipelineSpec => []CommMatchesCalls
<1> QED
  BY PipelineStart, PipelineNextKept, CommFollows, PTL DEF PipelineSpec

\* What the script writes adds up to all that it read, whatever schema gives the
\* categories, and the trimmed aggregates lie between the plain ones (summary.py,
\* min_p_1, max_m_1 and the aggregation of categories).
THEOREM OutputCorrect == PipelineSpec => []OutputComplete
<1>1. PipelineInv => OutputComplete
  BY OutputFollows DEF PipelineInv, ReaderInv
<1> QED
  BY <1>1, PipelineStart, PipelineNextKept, PTL DEF PipelineSpec
================================================================================
