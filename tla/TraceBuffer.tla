------------------------------ MODULE TraceBuffer ------------------------------
(***************************************************************************)
(* chromelogger.h: the per-thread event buffers of the Chrome trace, the   *)
(* lock that serialises file writes, and ~ChromeLogger.                    *)
(*                                                                         *)
(* Every thread that makes an instrumented call owns a thread_local        *)
(* TraceBuffer.  A call asks it for the next free slot (GetHostEvent),     *)
(* fills the slot, and publishes it (BufferHostEvent).  Buffered records   *)
(* reach the file when a bounded buffer is full, when the thread exits, or *)
(* when ~ChromeLogger finalizes the buffers that are still registered.     *)
(*                                                                         *)
(* One action is the code between two points where another thread can see *)
(* or change shared state: taking logger_lock_, writing one record, and -- *)
(* since the fields of a buffer are plain ints and bools that              *)
(* ~ChromeLogger reads from another thread -- every single store.  The     *)
(* stores of one function may reach the other thread in any order.         *)
(***************************************************************************)
EXTENDS Integers, Sequences

CONSTANTS
  Threads,          \* threads that make instrumented calls
  Exiter,           \* the thread that runs Fini, the library's destructor
  NoOne,            \* no holder of the lock, no buffer being written out
  SliceCapacity,    \* slice_capacity_ of each thread's buffer
  Bounded,          \* buffer_capacity_ # -1
  FlushImmediately, \* flush_immediately_
  Quiescent,        \* the program stops calling before it is torn down
  CallBound         \* bound: calls one thread makes

\* A buffer takes its mode from the environment when it is constructed, so the
\* buffers of two threads may differ.
ASSUME NamesAssumption == /\ Exiter \notin Threads
                          /\ NoOne \notin Threads
                          /\ NoOne # Exiter
ASSUME CapacityAssumption == SliceCapacity \in [Threads -> Nat \ {0}]
ASSUME ModeAssumption == /\ Bounded \in [Threads -> BOOLEAN]
                         /\ FlushImmediately \in [Threads -> BOOLEAN]
                         /\ Quiescent \in BOOLEAN
                         /\ \A t \in Threads :
                              FlushImmediately[t] => Bounded[t] /\ SliceCapacity[t] = 1
ASSUME BoundAssumption == CallBound \in Nat

VARIABLES
  pc,         \* where each thread is in its instrumented call
  pending,    \* stores of the current function that are still to be made
  recorded,   \* calls that found the buffer not finalized; numbers the events
  finalized,  \* finalized_
  flushed,    \* host_event_buffer_flushed_
  slice,      \* current_host_event_buffer_slice_
  next,       \* next_host_event_index_
  slots,      \* host_event_buffer_, its slices laid end to end
  registered, \* trace_buffers_
  lock,       \* logger_lock_: its holder
  target,     \* the buffer the holder is writing out
  cursor,     \* how many of its slots have been written
  file,       \* the records written after the header
  main        \* where ~ChromeLogger is

buffers == <<finalized, flushed, slice, next, slots>>
writing == <<lock, target, cursor>>
vars == <<pc, pending, recorded, buffers, registered, writing, file, main>>

\* call = 0 marks a slot that holds no event: never filled, or already written
\* (StringifyHostEvent frees the name and clears the arguments of the slot).
Call(t, n) == [thread |-> t, call |-> n]
Blank(t) == Call(t, 0)
Footer == Call(Exiter, 0)
Event == [thread : Threads \cup {Exiter}, call : Nat]

BlankSlice(t) == [k \in 1..SliceCapacity[t] |-> Blank(t)]

\* How many slots FlushHostBuffer, Finalize and ~TraceBuffer walk over: all of
\* the earlier slices and the used part of the current one.
Length(t) == slice[t] * SliceCapacity[t] + next[t]

\* The slot GetHostEvent returned to the call in progress; BufferHostEvent
\* moves next_host_event_index_ past it.
Slot(t) == IF "index" \in pending[t] \/ FlushImmediately[t] THEN Length(t) + 1 ELSE Length(t)

Closing == main \in {"footer", "remove", "delete", "stored", "removed"}
Deleted == main \in {"stored", "removed"}

\* logger_->Log: the text goes to the end of the file (nowhere once the
\* Logger is deleted).
Log(e) == file' = IF Deleted THEN file ELSE Append(file, e)

\* A thread enters the library only while the program still makes calls.
MayEnter == ~Quiescent \/ main = "run"

Init ==
  /\ pc = [t \in Threads |-> "unborn"]
  /\ pending = [t \in Threads |-> {}]
  /\ recorded = [t \in Threads |-> 0]
  /\ finalized = [t \in Threads |-> FALSE]
  /\ flushed = [t \in Threads |-> FALSE]
  /\ slice = [t \in Threads |-> 0]
  /\ next = [t \in Threads |-> 0]
  /\ slots = [t \in Threads |-> <<>>]
  /\ registered = {}
  /\ lock = NoOne
  /\ target = NoOne
  /\ cursor = 0
  /\ file = <<>>
  /\ main = "run"

--------------------------------------------------------------------------------
(* The writing loop, shared by FlushHostBuffer, Finalize and ~TraceBuffer. *)
(* Whoever runs it holds logger_lock_.                                     *)

Acquire(who) == lock = NoOne /\ lock' = who
StartLoop(t) == target' = t /\ cursor' = 0
StopLoop == target' = NoOne /\ cursor' = 0

\* Variant for the mutation runs: the loop stops one slot early.
LoopDoneEarly == cursor >= Length(target) - 1

LoopDone == cursor >= Length(target)

\* FlushHostEvent(host_event_buffer_[i][j])
LogNext ==
  /\ target # NoOne
  /\ ~LoopDone
  /\ LET k == cursor + 1 IN
       IF k \in DOMAIN slots[target]
         THEN /\ Log(slots[target][k])
              /\ slots' = [slots EXCEPT ![target][k] = Blank(target)]
         ELSE /\ Log(Blank(target))
              /\ UNCHANGED slots
  /\ cursor' = cursor + 1
  /\ UNCHANGED <<pc, pending, recorded, finalized, flushed, slice, next,
                 registered, lock, target, main>>

--------------------------------------------------------------------------------
(* A recording thread.                                                     *)

\* The first use of thread_local_buffer_ constructs and registers it.
Construct(t) ==
  /\ pc[t] = "unborn"
  /\ MayEnter
  /\ lock = NoOne
  /\ slots' = [slots EXCEPT ![t] = BlankSlice(t)]
  /\ registered' = registered \cup {t}
  /\ pc' = [pc EXCEPT ![t] = "idle"]
  /\ UNCHANGED <<pending, recorded, finalized, flushed, slice, next, writing, file, main>>

\* IttLoggingCallback; a call that finds the buffer finalized returns at once.
BeginCall(t) ==
  /\ pc[t] = "idle"
  /\ MayEnter
  /\ ~finalized[t]
  /\ recorded[t] < CallBound
  /\ recorded' = [recorded EXCEPT ![t] = @ + 1]
  /\ pc' = [pc EXCEPT ![t] = "get"]
  /\ UNCHANGED <<pending, buffers, registered, writing, file, main>>

SliceFull(t) == next[t] = SliceCapacity[t]

\* GetHostEvent returns a slot: filling and publishing it is what remains.
\* With flush_immediately_ the index and the flag are not touched.
EnterFill(t) ==
  /\ pc' = [pc EXCEPT ![t] = "fill"]
  /\ pending' = [pending EXCEPT ![t] =
       IF FlushImmediately[t] THEN {"record"} ELSE {"record", "index", "flag"}]

GetFree(t) ==
  /\ pc[t] = "get"
  /\ ~SliceFull(t)
  /\ EnterFill(t)
  /\ UNCHANGED <<recorded, buffers, registered, writing, file, main>>

\* The unbounded buffer grows by one slice.
GetGrow(t) ==
  /\ pc[t] = "get"
  /\ SliceFull(t)
  /\ ~Bounded[t]
  /\ slots' = [slots EXCEPT ![t] = @ \o BlankSlice(t)]
  /\ pc' = [pc EXCEPT ![t] = "grow"]
  /\ pending' = [pending EXCEPT ![t] = {"slice", "next"}]
  /\ UNCHANGED <<recorded, finalized, flushed, slice, next, registered, writing, file, main>>

GrowSlice(t) ==
  /\ pc[t] = "grow"
  /\ "slice" \in pending[t]
  /\ pending' = [pending EXCEPT ![t] = @ \ {"slice"}]
  /\ slice' = [slice EXCEPT ![t] = @ + 1]
  /\ UNCHANGED <<pc, recorded, finalized, flushed, next, slots, registered, writing, file, main>>

GrowNext(t) ==
  /\ pc[t] = "grow"
  /\ "next" \in pending[t]
  /\ pending' = [pending EXCEPT ![t] = @ \ {"next"}]
  /\ next' = [next EXCEPT ![t] = 0]
  /\ UNCHANGED <<pc, recorded, finalized, flushed, slice, slots, registered, writing, file, main>>

GrowEnd(t) ==
  /\ pc[t] = "grow"
  /\ pending[t] = {}
  /\ EnterFill(t)
  /\ UNCHANGED <<recorded, buffers, registered, writing, file, main>>

\* The bounded buffer is full: FlushHostBuffer.
GetSpill(t) ==
  /\ pc[t] = "get"
  /\ SliceFull(t)
  /\ Bounded[t]
  /\ pc' = [pc EXCEPT ![t] = "spill"]
  /\ UNCHANGED <<pending, recorded, buffers, registered, writing, file, main>>

SpillNothing(t) ==
  /\ pc[t] = "spill"
  /\ lock = NoOne
  /\ flushed[t]
  /\ EnterFill(t)
  /\ UNCHANGED <<recorded, buffers, registered, writing, file, main>>

SpillBegin(t) ==
  /\ pc[t] = "spill"
  /\ ~flushed[t]
  /\ Acquire(t)
  /\ StartLoop(t)
  /\ pc' = [pc EXCEPT ![t] = "spilling"]
  /\ UNCHANGED <<pending, recorded, buffers, registered, file, main>>

\* Variants: the index is not reset, or reset to an "empty" marker.
RewindSliceOnly(t) == slice' = [slice EXCEPT ![t] = 0] /\ UNCHANGED next
RewindToMarker(t) == slice' = [slice EXCEPT ![t] = 0] /\ next' = [next EXCEPT ![t] = -1]

Rewind(t) ==
  /\ slice' = [slice EXCEPT ![t] = 0]
  /\ next' = [next EXCEPT ![t] = 0]

\* Variant: an early return leaves logger_lock_ locked.
SpillEndLocked(t) ==
  /\ pc[t] = "spilling"
  /\ LoopDone
  /\ Rewind(t)
  /\ flushed' = [flushed EXCEPT ![t] = TRUE]
  /\ StopLoop
  /\ EnterFill(t)
  /\ UNCHANGED <<recorded, finalized, slots, registered, lock, file, main>>

SpillEnd(t) ==
  /\ pc[t] = "spilling"
  /\ LoopDone
  /\ Rewind(t)
  /\ flushed' = [flushed EXCEPT ![t] = TRUE]
  /\ StopLoop
  /\ lock' = NoOne
  /\ EnterFill(t)
  /\ UNCHANGED <<recorded, finalized, slots, registered, file, main>>

\* The three stores of the call.  A slot past the end of the slice is memory
\* the buffer does not own; what the store overwrites there is not modelled.
FillRecord(t) ==
  /\ pc[t] = "fill"
  /\ "record" \in pending[t]
  /\ pending' = [pending EXCEPT ![t] = @ \ {"record"}]
  /\ slots' = IF Slot(t) \in DOMAIN slots[t]
                THEN [slots EXCEPT ![t][Slot(t)] = Call(t, recorded[t])]
                ELSE slots
  /\ UNCHANGED <<pc, recorded, finalized, flushed, slice, next, registered, writing, file, main>>

PublishIndex(t) ==
  /\ pc[t] = "fill"
  /\ "index" \in pending[t]
  /\ pending' = [pending EXCEPT ![t] = @ \ {"index"}]
  /\ next' = [next EXCEPT ![t] = @ + 1]
  /\ UNCHANGED <<pc, recorded, finalized, flushed, slice, slots, registered, writing, file, main>>

\* Variant: the buffer keeps claiming that it has been flushed.
PublishFlagForgotten(t) ==
  /\ pc[t] = "fill"
  /\ "flag" \in pending[t]
  /\ pending' = [pending EXCEPT ![t] = @ \ {"flag"}]
  /\ UNCHANGED <<pc, recorded, buffers, registered, writing, file, main>>

PublishFlag(t) ==
  /\ pc[t] = "fill"
  /\ "flag" \in pending[t]
  /\ pending' = [pending EXCEPT ![t] = @ \ {"flag"}]
  /\ flushed' = [flushed EXCEPT ![t] = FALSE]
  /\ UNCHANGED <<pc, recorded, finalized, slice, next, slots, registered, writing, file, main>>

EndCall(t) ==
  /\ pc[t] = "fill"
  /\ pending[t] = {}
  /\ pc' = [pc EXCEPT ![t] = IF FlushImmediately[t] THEN "emit" ELSE "idle"]
  /\ UNCHANGED <<pending, recorded, buffers, registered, writing, file, main>>

\* BufferHostEvent with flush_immediately_: the one slot is written at once.
Emit(t) ==
  /\ pc[t] = "emit"
  /\ lock = NoOne
  /\ Log(slots[t][1])
  /\ slots' = [slots EXCEPT ![t][1] = Blank(t)]
  /\ flushed' = [flushed EXCEPT ![t] = TRUE]
  /\ pc' = [pc EXCEPT ![t] = "idle"]
  /\ UNCHANGED <<pending, recorded, finalized, slice, next, registered, writing, main>>

--------------------------------------------------------------------------------
(* Thread exit: ~TraceBuffer.                                              *)

\* Variant: a destroyed buffer stays in trace_buffers_.
ReleaseRegistered(t) ==
  /\ slots' = [slots EXCEPT ![t] = <<>>]
  /\ pc' = [pc EXCEPT ![t] = "exited"]
  /\ UNCHANGED registered

\* free the slices and leave trace_buffers_
Release(t) ==
  /\ slots' = [slots EXCEPT ![t] = <<>>]
  /\ registered' = registered \ {t}
  /\ pc' = [pc EXCEPT ![t] = "exited"]

\* Already finalized by ~ChromeLogger: nothing is written, nothing is freed.
ExitFinalized(t) ==
  /\ pc[t] = "idle"
  /\ MayEnter
  /\ lock = NoOne
  /\ finalized[t]
  /\ pc' = [pc EXCEPT ![t] = "exited"]
  /\ UNCHANGED <<pending, recorded, buffers, registered, writing, file, main>>

ExitFlushed(t) ==
  /\ pc[t] = "idle"
  /\ MayEnter
  /\ lock = NoOne
  /\ ~finalized[t]
  /\ flushed[t]
  /\ finalized' = [finalized EXCEPT ![t] = TRUE]
  /\ Release(t)
  /\ UNCHANGED <<pending, recorded, flushed, slice, next, writing, file, main>>

ExitBegin(t) ==
  /\ pc[t] = "idle"
  /\ MayEnter
  /\ ~finalized[t]
  /\ ~flushed[t]
  /\ Acquire(t)
  /\ StartLoop(t)
  /\ finalized' = [finalized EXCEPT ![t] = TRUE]
  /\ pc' = [pc EXCEPT ![t] = "exiting"]
  /\ UNCHANGED <<pending, recorded, flushed, slice, next, slots, registered, file, main>>

ExitEnd(t) ==
  /\ pc[t] = "exiting"
  /\ LoopDone
  /\ flushed' = [flushed EXCEPT ![t] = TRUE]
  /\ Release(t)
  /\ StopLoop
  /\ lock' = NoOne
  /\ UNCHANGED <<pending, recorded, finalized, slice, next, file, main>>

--------------------------------------------------------------------------------
(* ~ChromeLogger, run by Fini (or by a signal handler).                    *)

Parked(t) == pc[t] \in {"unborn", "idle", "exited"}

BeginTeardown ==
  /\ main = "run"
  /\ Quiescent => \A t \in Threads : Parked(t)
  /\ main' = "lock"
  /\ UNCHANGED <<pc, pending, recorded, buffers, registered, writing, file>>

LockAll ==
  /\ main = "lock"
  /\ Acquire(Exiter)
  /\ main' = "walk"
  /\ UNCHANGED <<pc, pending, recorded, buffers, registered, target, cursor, file>>

\* Finalize of a buffer that has nothing to write, and its erasure.
VisitFlushed(t) ==
  /\ main = "walk"
  /\ t \in registered
  /\ finalized[t] \/ flushed[t]
  /\ finalized' = [finalized EXCEPT ![t] = TRUE]
  /\ registered' = registered \ {t}
  /\ UNCHANGED <<pc, pending, recorded, flushed, slice, next, slots, writing, file, main>>

VisitBegin(t) ==
  /\ main = "walk"
  /\ t \in registered
  /\ ~finalized[t]
  /\ ~flushed[t]
  /\ finalized' = [finalized EXCEPT ![t] = TRUE]
  /\ StartLoop(t)
  /\ main' = "write"
  /\ UNCHANGED <<pc, pending, recorded, flushed, slice, next, slots, registered, lock, file>>

VisitEnd ==
  /\ main = "write"
  /\ LoopDone
  /\ flushed' = [flushed EXCEPT ![target] = TRUE]
  /\ registered' = registered \ {target}
  /\ StopLoop
  /\ main' = "walk"
  /\ UNCHANGED <<pc, pending, recorded, finalized, slice, next, slots, lock, file>>

\* Variant: ~ChromeLogger keeps logger_lock_.
UnlockAllForgotten ==
  /\ main = "walk"
  /\ registered = {}
  /\ main' = "check"
  /\ UNCHANGED <<pc, pending, recorded, buffers, registered, writing, file>>

UnlockAll ==
  /\ main = "walk"
  /\ registered = {}
  /\ lock' = NoOne
  /\ main' = "check"
  /\ UNCHANGED <<pc, pending, recorded, buffers, registered, target, cursor, file>>

\* The rest runs without the lock.
CheckPosition ==
  /\ main = "check"
  /\ main' = IF file = <<>> THEN "remove" ELSE "footer"
  /\ UNCHANGED <<pc, pending, recorded, buffers, registered, writing, file>>

LogFooter ==
  /\ main = "footer"
  /\ Log(Footer)
  /\ main' = "delete"
  /\ UNCHANGED <<pc, pending, recorded, buffers, registered, writing>>

DeleteLogger ==
  /\ main = "delete"
  /\ main' = "stored"
  /\ UNCHANGED <<pc, pending, recorded, buffers, registered, writing, file>>

RemoveFile ==
  /\ main = "remove"
  /\ main' = "removed"
  /\ UNCHANGED <<pc, pending, recorded, buffers, registered, writing, file>>

--------------------------------------------------------------------------------
\* ChromeCallLoggingCallback makes the same steps for a record without a name.
InCallStep(t) ==
  \/ GetFree(t) \/ GetGrow(t) \/ GrowSlice(t) \/ GrowNext(t) \/ GrowEnd(t)
  \/ GetSpill(t) \/ SpillNothing(t) \/ SpillBegin(t) \/ SpillEnd(t)
  \/ FillRecord(t) \/ PublishIndex(t) \/ PublishFlag(t) \/ EndCall(t) \/ Emit(t)
  \/ ExitEnd(t)

EnterStep(t) ==
  Construct(t) \/ BeginCall(t) \/ ExitFinalized(t) \/ ExitFlushed(t) \/ ExitBegin(t)

TeardownStep ==
  \/ LockAll \/ (\E t \in Threads : VisitFlushed(t) \/ VisitBegin(t)) \/ VisitEnd
  \/ UnlockAll \/ CheckPosition \/ LogFooter \/ DeleteLogger \/ RemoveFile

Next ==
  \/ \E t \in Threads : EnterStep(t) \/ InCallStep(t)
  \/ LogNext \/ BeginTeardown \/ TeardownStep

Spec == Init /\ [][Next]_vars

\* Nothing makes a thread call, exit, or the program end; but a thread that is
\* inside the library keeps running, and so does a teardown that has begun.
FairSpec ==
  /\ Spec
  /\ \A t \in Threads : WF_vars(InCallStep(t))
  /\ WF_vars(LogNext)
  /\ WF_vars(TeardownStep)

--------------------------------------------------------------------------------
(* Properties.                                                             *)

InFile(e) == \E i \in DOMAIN file : file[i] = e
InCall(t) == pc[t] \in {"get", "grow", "spill", "spilling", "fill", "emit"}
Completed(t) == IF InCall(t) THEN recorded[t] - 1 ELSE recorded[t]

\* Every variable keeps its type.
TypeOK ==
  /\ pc \in [Threads -> {"unborn", "idle", "get", "grow", "spill", "spilling",
                         "fill", "emit", "exiting", "exited"}]
  /\ pending \in [Threads -> SUBSET {"slice", "next", "record", "index", "flag"}]
  /\ recorded \in [Threads -> Nat]
  /\ finalized \in [Threads -> BOOLEAN]
  /\ flushed \in [Threads -> BOOLEAN]
  /\ slice \in [Threads -> Nat]
  /\ next \in [Threads -> Nat]
  /\ slots \in [Threads -> Seq(Event)]
  /\ registered \subseteq Threads
  /\ lock \in Threads \cup {Exiter, NoOne}
  /\ target \in Threads \cup {NoOne}
  /\ cursor \in Nat
  /\ file \in Seq(Event)
  /\ main \in {"run", "lock", "walk", "write", "check", "footer", "remove",
               "delete", "stored", "removed"}

\* A thread's records are in the file in the order of its calls, none twice and
\* none blank: spilling, thread exit and finalization together neither repeat
\* nor reorder events.  (FlushHostBuffer, ~TraceBuffer, Finalize)
FileOrder ==
  \A i, j \in DOMAIN file :
    /\ file[i].thread # Exiter => file[i].call > 0
    /\ i < j /\ file[i].thread = file[j].thread => file[i].call < file[j].call

\* When ~ChromeLogger decides between footer and removal, every call that ever
\* returned is in the file, and only those: no buffer was missed.
NothingLost ==
  Closing => \A t \in Threads : \A n \in 1..recorded[t] : InFile(Call(t, n))

\* The slot GetHostEvent hands out lies inside the slice: "next free host event
\* in in-use slice" (chromelogger.h:420).
SlotInSlice ==
  \A t \in Threads : pc[t] = "fill" => Slot(t) \in DOMAIN slots[t]

\* trace_buffers_ holds exactly the buffers that are alive and not finalized
\* (the one being finalized apart), so ~ChromeLogger visits each buffer once
\* and no destroyed buffer at all.
RegisteredIffLive ==
  \A t \in Threads :
    t # target => (t \in registered <=> pc[t] \notin {"unborn", "exited"} /\ ~finalized[t])

\* The buffers, the lock and the teardown implement the trace file of
\* TraceFile.tla: append-only, complete, ordered per thread, closed once.
Abstract == INSTANCE TraceFile WITH closed <- main \in {"delete", "stored", "removed"}
ImplementsTraceFile == Abstract!Spec

\* Whoever waits for ~ChromeLogger gets an answer: the walk over the buffers,
\* which excludes the recording threads, ends, even while they keep calling.
TeardownCompletes == main = "lock" ~> Deleted

\* An instrumented call never blocks its program for good, whatever the other
\* threads and the teardown do with the lock.
CallsReturn == \A t \in Threads : InCall(t) ~> ~InCall(t)

\* A call that had returned before the teardown asked for the lock reaches the
\* file, even when other calls, or later calls of the same thread, race with
\* the teardown.
EventsSurviveTeardown ==
  \A t \in Threads : \A n \in 1..CallBound :
    (main = "lock" /\ Completed(t) >= n) ~> InFile(Call(t, n))
================================================================================
