------------------------------- MODULE UniControl ------------------------------
(***************************************************************************)
(* unicontrol.h: whether collection is enabled.  Two switches decide it    *)
(* under --conditional-collection: the flag that __itt_pause/__itt_resume  *)
(* write, and the environment variable PTI_ENABLE_COLLECTION, which these  *)
(* calls write too and which the program may write at any time.            *)
(***************************************************************************)
EXTENDS Integers

CONSTANTS
  Controllers,   \* threads that call __itt_pause and __itt_resume
  Conditional    \* conditional_collection_

ASSUME ConditionalAssumption == Conditional \in BOOLEAN

VARIABLES
  itt_paused,    \* itt_paused_
  env,           \* PTI_ENABLE_COLLECTION as a reader of environ finds it
  doing,         \* the calls in progress: each makes two stores
  lastCall,      \* history: the call that returned last
  calm           \* history: it overlapped no other call, and none began since

gate == <<itt_paused, env>>
controlVars == <<gate, doing, lastCall, calm>>

\* clearenv() leaves environ null; setenv brings it back.
Values == {"0", "1", "empty"}
EnvStates == Values \cup {"unset", "null"}

\* Variant for the mutation runs: only the environment is asked.
EnabledByEnvironment == ~Conditional \/ env \notin {"unset", "0"}

\* IsCollectionEnabled: the scan of environ stops at the first character of the
\* value, and there is nothing to scan when environ is null.
IsCollectionEnabled ==
  \/ ~Conditional
  \/ /\ ~itt_paused
     /\ env \notin {"unset", "0"}

ControlInit ==
  /\ itt_paused = FALSE
  /\ env \in EnvStates \ {"null"}
  /\ doing = [c \in Controllers |-> "nothing"]
  /\ lastCall = "none"
  /\ calm = TRUE

Busy(c) == doing[c] # "nothing"

BeginCall(c, what) ==
  /\ ~Busy(c)
  /\ doing' = [doing EXCEPT ![c] = what]
  /\ calm' = \A d \in Controllers : ~Busy(d)

EndCall(c) ==
  /\ doing' = [doing EXCEPT ![c] = "nothing"]
  /\ lastCall' = doing[c]
  /\ UNCHANGED calm

PauseFlag(c) == BeginCall(c, "pause") /\ itt_paused' = TRUE /\ UNCHANGED <<env, lastCall>>

PauseEnv(c) ==
  /\ doing[c] = "pause"
  /\ env' = "0"
  /\ EndCall(c)
  /\ UNCHANGED itt_paused

\* Variant: resuming leaves the flag alone.
ResumeFlagForgotten(c) == BeginCall(c, "resume") /\ UNCHANGED <<gate, lastCall>>

ResumeFlag(c) == BeginCall(c, "resume") /\ itt_paused' = FALSE /\ UNCHANGED <<env, lastCall>>

ResumeEnv(c) ==
  /\ doing[c] = "resume"
  /\ env' = "1"
  /\ EndCall(c)
  /\ UNCHANGED itt_paused

\* The program's own setenv, unsetenv and clearenv.
ProgramWrites(v) ==
  /\ v = "unset" => env # "null"
  /\ env' = v
  /\ UNCHANGED <<itt_paused, doing, lastCall, calm>>

ControlNext ==
  \/ \E c \in Controllers : PauseFlag(c) \/ PauseEnv(c) \/ ResumeFlag(c) \/ ResumeEnv(c)
  \/ \E v \in EnvStates : ProgramWrites(v)

ControlSpec == ControlInit /\ [][ControlNext]_controlVars

--------------------------------------------------------------------------------
Quiet == calm /\ \A c \in Controllers : ~Busy(c)

\* After a pause that no other call overlapped the gate stays closed, whatever
\* the program writes to its environment: "pause takes precedence".
PausePrecedes == Conditional /\ Quiet /\ lastCall = "pause" => ~IsCollectionEnabled

\* A resume that no other call overlapped opens the gate, whatever overlapping
\* calls left behind in the two switches: at the store that ends it.
ResumeOpens ==
  [][\A c \in Controllers : ResumeEnv(c) /\ calm => IsCollectionEnabled']_controlVars
================================================================================
