--------------------------- MODULE TraceBufferProofs ---------------------------
(***************************************************************************)
(* Proofs about TraceBuffer.tla, for any set of threads, any slice         *)
(* capacity and any number of calls.                                       *)
(***************************************************************************)
EXTENDS TraceBufferInv, SequenceTheorems, TLAPS

\* The first part of a concatenation is the first sequence.
LEMMA ConcatFacts ==
  ASSUME NEW S, NEW a \in Seq(S), NEW b \in Seq(S)
  PROVE  /\ Len(a \o b) = Len(a) + Len(b)
         /\ \A k \in 1..Len(a) : k \in DOMAIN (a \o b) /\ (a \o b)[k] = a[k]
OBVIOUS

USE NamesAssumption, CapacityAssumption, ModeAssumption, BoundAssumption

(***************************************************************************)
(* Sequence facts the leaves need.                                         *)
(***************************************************************************)
LEMMA BlankSliceFacts ==
  ASSUME NEW t \in Threads
  PROVE  /\ BlankSlice(t) \in Seq(Event)
         /\ Len(BlankSlice(t)) = SliceCapacity[t]
<1>1. SliceCapacity[t] \in Nat
  OBVIOUS
<1>2. Blank(t) \in Event
  BY DEF Blank, Call, Event
<1> QED
  BY <1>1, <1>2 DEF BlankSlice

LEMMA LogType ==
  ASSUME file \in Seq(Event), NEW e \in Event, Log(e)
  PROVE  file' \in Seq(Event)
BY DEF Log

(***************************************************************************)
(* Typing holds in every interleaving, with its companion Allocated: the   *)
(* slot a call writes at once is one the buffer owns.                      *)
(***************************************************************************)
LEMMA TypeInvInit == Init => TypeInv
BY DEF Init, TypeInv, TypeOK, Allocated

LEMMA TypeInvNext == TypeInv /\ [Next]_vars => TypeInv'
<1> SUFFICES ASSUME TypeInv, [Next]_vars PROVE TypeInv'
  OBVIOUS
<1> USE DEF TypeInv, TypeOK, Allocated
<1>1. CASE LogNext
  <2>1. target \in Threads
    BY <1>1 DEF LogNext
  <2>2. Blank(target) \in Event
    BY <2>1 DEF Blank, Call, Event
  <2>3. file' \in Seq(Event)
    BY <1>1, <2>1, <2>2, LogType DEF LogNext
  <2>4. slots' \in [Threads -> Seq(Event)] /\ \A t \in Threads : Len(slots'[t]) = Len(slots[t])
    <3> DEFINE k == cursor + 1
    <3>1. CASE k \in DOMAIN slots[target]
      <4>1. slots' = [slots EXCEPT ![target] = [slots[target] EXCEPT ![k] = Blank(target)]]
        BY <1>1, <3>1 DEF LogNext
      <4>2. slots[target] \in Seq(Event) /\ k \in 1..Len(slots[target])
        BY <2>1, <3>1
      <4>3. /\ [slots[target] EXCEPT ![k] = Blank(target)] \in Seq(Event)
            /\ Len([slots[target] EXCEPT ![k] = Blank(target)]) = Len(slots[target])
        BY <4>2, <2>2, ExceptSeq
      <4> QED
        BY <4>1, <4>3, <2>1
    <3>2. CASE k \notin DOMAIN slots[target]
      BY <1>1, <3>2 DEF LogNext
    <3> QED
      BY <3>1, <3>2
  <2>5. cursor' \in Nat
    BY <1>1 DEF LogNext
  <2>6. /\ pc' = pc /\ pending' = pending /\ recorded' = recorded /\ finalized' = finalized
        /\ flushed' = flushed /\ slice' = slice /\ next' = next /\ registered' = registered
        /\ lock' = lock /\ target' = target /\ main' = main
    BY ONLY <1>1 DEF LogNext
  <2> QED
    BY <2>3, <2>4, <2>5, <2>6
<1>2. ASSUME NEW t \in Threads, EnterStep(t) PROVE TypeInv'
  <2>1. CASE Construct(t)
    BY <2>1, BlankSliceFacts DEF Construct, writing
  <2>2. CASE BeginCall(t)
    BY <2>2 DEF BeginCall, buffers, writing
  <2>3. CASE ExitFinalized(t)
    BY <2>3 DEF ExitFinalized, buffers, writing
  <2>4. CASE ExitFlushed(t)
    BY <2>4 DEF ExitFlushed, Release, writing
  <2>5. CASE ExitBegin(t)
    BY <2>5 DEF ExitBegin, Acquire, StartLoop
  <2> QED
    BY <1>2, <2>1, <2>2, <2>3, <2>4, <2>5 DEF EnterStep
<1>3. ASSUME NEW t \in Threads, InCallStep(t) PROVE TypeInv'
  <2>1. CASE GetFree(t)
    BY <2>1 DEF GetFree, EnterFill, buffers, writing
  <2>2. CASE GetGrow(t)
    BY <2>2, BlankSliceFacts DEF GetGrow, writing
  <2>3. CASE GrowSlice(t)
    BY <2>3 DEF GrowSlice, writing
  <2>4. CASE GrowNext(t)
    BY <2>4 DEF GrowNext, writing
  <2>5. CASE GrowEnd(t)
    BY <2>5 DEF GrowEnd, EnterFill, buffers, writing
  <2>6. CASE GetSpill(t)
    BY <2>6 DEF GetSpill, buffers, writing
  <2>7. CASE SpillNothing(t)
    BY <2>7 DEF SpillNothing, EnterFill, buffers, writing
  <2>8. CASE SpillBegin(t)
    BY <2>8 DEF SpillBegin, Acquire, StartLoop, buffers
  <2>9. CASE SpillEnd(t)
    BY <2>9 DEF SpillEnd, Rewind, StopLoop, EnterFill
  <2>10. CASE FillRecord(t)
    <3>1. Call(t, recorded[t]) \in Event
      BY DEF Call, Event
    <3> QED
      BY <2>10, <3>1 DEF FillRecord, writing
  <2>11. CASE PublishIndex(t)
    BY <2>11 DEF PublishIndex, writing
  <2>12. CASE PublishFlag(t)
    BY <2>12 DEF PublishFlag, writing
  <2>13. CASE EndCall(t)
    BY <2>13 DEF EndCall, buffers, writing
  <2>14. CASE Emit(t)
    <3>1. 1 \in DOMAIN slots[t] /\ slots[t][1] \in Event
      <4>1. slots[t] \in Seq(Event)
        OBVIOUS
      <4>2. Len(slots[t]) >= SliceCapacity[t] /\ Len(slots[t]) \in Nat
        <5>1. pc[t] = "emit"
          BY <2>14 DEF Emit
        <5> HIDE DEF TypeOK
        <5>2. Len(slots[t]) >= SliceCapacity[t]
          BY <5>1, Zenon
        <5>3. Len(slots[t]) \in Nat
          BY <4>1
        <5> QED
          BY <5>2, <5>3
      <4>3. 1 \in 1..Len(slots[t])
        BY <4>2
      <4> QED
        BY <4>1, <4>3
    <3>2. Blank(t) \in Event
      BY DEF Blank, Call, Event
    <3>3. file' \in Seq(Event)
      BY <2>14, <3>1, LogType DEF Emit
    <3> QED
      BY <2>14, <3>1, <3>2, <3>3 DEF Emit, writing
  <2>15. CASE ExitEnd(t)
    BY <2>15 DEF ExitEnd, Release, StopLoop
  <2> QED
    BY <1>3, <2>1, <2>2, <2>3, <2>4, <2>5, <2>6, <2>7, <2>8, <2>9, <2>10, <2>11,
       <2>12, <2>13, <2>14, <2>15 DEF InCallStep
<1>4. CASE BeginTeardown
  BY <1>4 DEF BeginTeardown, buffers, writing
<1>5. CASE TeardownStep
  <2>1. CASE LockAll
    BY <2>1 DEF LockAll, Acquire, buffers
  <2>2. ASSUME NEW t \in Threads, VisitFlushed(t) PROVE TypeInv'
    BY <2>2 DEF VisitFlushed, writing
  <2>3. ASSUME NEW t \in Threads, VisitBegin(t) PROVE TypeInv'
    BY <2>3 DEF VisitBegin, StartLoop
  <2>4. CASE VisitEnd
    BY <2>4 DEF VisitEnd, StopLoop
  <2>5. CASE UnlockAll
    BY <2>5 DEF UnlockAll, buffers
  <2>6. CASE CheckPosition
    BY <2>6 DEF CheckPosition, buffers, writing
  <2>7. CASE LogFooter
    <3>1. Footer \in Event
      BY DEF Footer, Call, Event
    <3>2. file' \in Seq(Event)
      BY <2>7, <3>1, LogType DEF LogFooter
    <3> QED
      BY <2>7, <3>2 DEF LogFooter, buffers, writing
  <2>8. CASE DeleteLogger
    BY <2>8 DEF DeleteLogger, buffers, writing
  <2>9. CASE RemoveFile
    BY <2>9 DEF RemoveFile, buffers, writing
  <2> QED
    BY <1>5, <2>1, <2>2, <2>3, <2>4, <2>5, <2>6, <2>7, <2>8, <2>9 DEF TeardownStep
<1>6. CASE UNCHANGED vars
  BY <1>6 DEF vars, buffers, writing
<1> QED
  BY <1>1, <1>2, <1>3, <1>4, <1>5, <1>6 DEF Next

\* Every variable keeps its type, however calls, exits and teardown interleave.
THEOREM TypeCorrect == Spec => []TypeOK
<1>1. TypeInv => TypeOK
  BY DEF TypeInv
<1> QED
  BY <1>1, TypeInvInit, TypeInvNext, PTL DEF Spec

(***************************************************************************)
(* The lock and trace_buffers_, in every interleaving.                     *)
(***************************************************************************)
LEMMA LockInvInit == Init => LockInv
BY TypeInvInit DEF LockInv, LockDiscipline, Membership, BeingFinalized, Init

LEMMA LockInvNext == LockInv /\ [Next]_vars => LockInv'
<1> SUFFICES ASSUME LockInv, [Next]_vars PROVE LockInv'
  OBVIOUS
<1>0. TypeInv'
  BY TypeInvNext DEF LockInv
<1> DEFINE Goal == LockDiscipline' /\ Membership'
<1> SUFFICES Goal
  BY <1>0 DEF LockInv
<1> USE DEF LockInv, TypeInv, TypeOK, LockDiscipline, Membership, BeingFinalized
<1>1. CASE LogNext
  BY <1>1 DEF LogNext
<1>2. ASSUME NEW t \in Threads, EnterStep(t) PROVE Goal
  <2>1. CASE Construct(t)
    BY <2>1 DEF Construct, buffers, writing
  <2>2. CASE BeginCall(t)
    BY <2>2 DEF BeginCall, buffers, writing
  <2>3. CASE ExitFinalized(t)
    BY <2>3 DEF ExitFinalized, buffers, writing
  <2>4. CASE ExitFlushed(t)
    BY <2>4 DEF ExitFlushed, Release, buffers, writing
  <2>5. CASE ExitBegin(t)
    BY <2>5 DEF ExitBegin, Acquire, StartLoop, buffers, writing
  <2> QED
    BY <1>2, <2>1, <2>2, <2>3, <2>4, <2>5 DEF EnterStep
<1>3. ASSUME NEW t \in Threads, InCallStep(t) PROVE Goal
  <2>1. CASE GetFree(t)
    BY <2>1 DEF GetFree, EnterFill, buffers, writing
  <2>2. CASE GetGrow(t)
    BY <2>2 DEF GetGrow, buffers, writing
  <2>3. CASE GrowSlice(t)
    BY <2>3 DEF GrowSlice, buffers, writing
  <2>4. CASE GrowNext(t)
    BY <2>4 DEF GrowNext, buffers, writing
  <2>5. CASE GrowEnd(t)
    BY <2>5 DEF GrowEnd, EnterFill, buffers, writing
  <2>6. CASE GetSpill(t)
    BY <2>6 DEF GetSpill, buffers, writing
  <2>7. CASE SpillNothing(t)
    BY <2>7 DEF SpillNothing, EnterFill, buffers, writing
  <2>8. CASE SpillBegin(t)
    BY <2>8 DEF SpillBegin, Acquire, StartLoop, buffers, writing
  <2>9. CASE SpillEnd(t)
    BY <2>9 DEF SpillEnd, EnterFill, Rewind, StopLoop, buffers, writing
  <2>10. CASE FillRecord(t)
    BY <2>10 DEF FillRecord, buffers, writing
  <2>11. CASE PublishIndex(t)
    BY <2>11 DEF PublishIndex, buffers, writing
  <2>12. CASE PublishFlag(t)
    BY <2>12 DEF PublishFlag, buffers, writing
  <2>13. CASE EndCall(t)
    BY <2>13 DEF EndCall, buffers, writing
  <2>14. CASE Emit(t)
    BY <2>14 DEF Emit, buffers, writing
  <2>15. CASE ExitEnd(t)
    BY <2>15 DEF ExitEnd, Release, StopLoop, buffers, writing
  <2> QED
    BY <1>3, <2>1, <2>2, <2>3, <2>4, <2>5, <2>6, <2>7, <2>8, <2>9, <2>10, <2>11, <2>12, <2>13, <2>14, <2>15 DEF InCallStep
<1>4. CASE BeginTeardown
  BY <1>4 DEF BeginTeardown, buffers, writing
<1>5. CASE TeardownStep
  <2>1. CASE LockAll
    BY <2>1 DEF LockAll, Acquire, buffers, writing
  <2>2. ASSUME NEW t \in Threads, VisitFlushed(t) PROVE Goal
    BY <2>2 DEF VisitFlushed, buffers, writing
  <2>3. ASSUME NEW t \in Threads, VisitBegin(t) PROVE Goal
    BY <2>3 DEF VisitBegin, StartLoop, buffers, writing
  <2>4. CASE VisitEnd
    BY <2>4 DEF VisitEnd, StopLoop, buffers, writing
  <2>5. CASE UnlockAll
    BY <2>5 DEF UnlockAll, buffers, writing
  <2>6. CASE CheckPosition
    BY <2>6 DEF CheckPosition, buffers, writing
  <2>7. CASE LogFooter
    BY <2>7 DEF LogFooter, buffers, writing
  <2>8. CASE DeleteLogger
    BY <2>8 DEF DeleteLogger, buffers, writing
  <2>9. CASE RemoveFile
    BY <2>9 DEF RemoveFile, buffers, writing
  <2> QED
    BY <1>5, <2>1, <2>2, <2>3, <2>4, <2>5, <2>6, <2>7, <2>8, <2>9 DEF TeardownStep
<1>6. CASE UNCHANGED vars
  BY <1>6 DEF vars, buffers, writing
<1> QED
  BY <1>1, <1>2, <1>3, <1>4, <1>5, <1>6 DEF Next

\* trace_buffers_ holds exactly the live, not finalized buffers, in every
\* interleaving of calls, thread exits and teardown.
THEOREM RegisteredCorrect == Spec => []RegisteredIffLive
<1>1. LockInv => RegisteredIffLive
  BY DEF LockInv, TypeInv, TypeOK, LockDiscipline, Membership, BeingFinalized, RegisteredIffLive
<1> QED
  BY <1>1, LockInvInit, LockInvNext, PTL DEF Spec

(***************************************************************************)
(* What a program that stops calling before its teardown gets: the event   *)
(* accounting.  First, how the accounting of one thread is computed, and   *)
(* that a step which leaves a thread's variables alone leaves it alone.    *)
(***************************************************************************)
LEMMA LengthType ==
  ASSUME TypeOK, NEW t \in Threads
  PROVE  Length(t) \in Nat /\ slice[t] * SliceCapacity[t] \in Nat
<1>1. slice[t] \in Nat /\ next[t] \in Nat /\ SliceCapacity[t] \in Nat
  BY DEF TypeOK
<1>2. slice[t] * SliceCapacity[t] \in Nat
  BY ONLY <1>1
<1> QED
  BY <1>1, <1>2 DEF Length

Same(t) ==
  /\ pc'[t] = pc[t] /\ pending'[t] = pending[t] /\ recorded'[t] = recorded[t]
  /\ finalized'[t] = finalized[t] /\ flushed'[t] = flushed[t]
  /\ slice'[t] = slice[t] /\ next'[t] = next[t] /\ slots'[t] = slots[t]
  /\ (target' = t <=> target = t) /\ (target = t => cursor' = cursor)

LEMMA Frame ==
  ASSUME NEW t \in Threads, Same(t), Shape(t), Contents(t)
  PROVE  Shape(t)' /\ Contents(t)' /\ Written(t)' = Written(t)
<1>1. /\ Length(t)' = Length(t) /\ Slot(t)' = Slot(t) /\ Gone(t)' = Gone(t)
      /\ Completed(t)' = Completed(t) /\ InCall(t)' = InCall(t)
  BY DEF Same, Length, Slot, Gone, Completed, InCall
<1>2. Held(t)' = Held(t)
  BY <1>1 DEF Same, Held, Stored
<1>3. Written(t)' = Written(t)
  BY <1>1, <1>2 DEF Written
<1>4. Shape(t)'
  BY <1>1, <1>2 DEF Same, Shape
<1>5. Contents(t)'
  BY <1>1, <1>2, <1>3 DEF Same, Contents
<1> QED
  BY <1>3, <1>4, <1>5

\* The file while nothing is written to it ...
LEMMA FileFrame ==
  ASSUME FileInv, file' = file,
         \A t \in Threads : Written(t)' = Written(t),
         main' \in {"delete", "stored"} <=> main \in {"delete", "stored"}
  PROVE  FileInv'
<1>1. \A t \in Threads : \A n : InFile(Call(t, n))' <=> InFile(Call(t, n))
  BY DEF InFile
<1>2. Footer' = Footer
  BY DEF Footer, Call
<1> QED
  BY <1>1, <1>2 DEF FileInv

\* ... and when the oldest unwritten event of a thread is written.
LEMMA FileAppend ==
  ASSUME FileInv, file \in Seq(Event), NEW t \in Threads,
         main' = main, main \notin {"delete", "stored"},
         \A u \in Threads : Written(u) \in Nat,
         file' = Append(file, Call(t, Written(t) + 1)),
         Written(t)' = Written(t) + 1,
         \A u \in Threads \ {t} : Written(u)' = Written(u)
  PROVE  FileInv'
<1> DEFINE e == Call(t, Written(t) + 1)
<1>1. /\ DOMAIN file' = 1..(Len(file) + 1) /\ DOMAIN file = 1..Len(file) /\ Len(file) \in Nat
      /\ file'[Len(file) + 1] = e
      /\ \A i \in 1..Len(file) : file'[i] = file[i]
  OBVIOUS
<1>2. \A i \in DOMAIN file : \E u \in Threads : \E n \in 1..Written(u) : file[i] = Call(u, n)
  BY DEF FileInv
<1>3. \A u, n : Call(u, n).thread = u /\ Call(u, n).call = n
  BY DEF Call
<1>4. \A u \in Threads : 1..Written(u) \subseteq 1..Written(u)'
  <2> SUFFICES ASSUME NEW u \in Threads PROVE 1..Written(u) \subseteq 1..Written(u)'
    OBVIOUS
  <2>1. CASE u = t
    BY <2>1
  <2>2. CASE u # t
    BY <2>2
  <2> QED
    BY <2>1, <2>2
<1>5. Written(t) + 1 \in 1..Written(t)'
  OBVIOUS
<1>6. \A i \in DOMAIN file' : \E u \in Threads : \E n \in 1..Written(u)' : file'[i] = Call(u, n)
  <2> SUFFICES ASSUME NEW i \in DOMAIN file'
               PROVE  \E u \in Threads : \E n \in 1..Written(u)' : file'[i] = Call(u, n)
    OBVIOUS
  <2>1. CASE i = Len(file) + 1
    BY <2>1, <1>1, <1>5
  <2>2. CASE i # Len(file) + 1
    <3>1. i \in DOMAIN file /\ file'[i] = file[i]
      BY <2>2, <1>1
    <3>2. PICK u \in Threads : \E n \in 1..Written(u) : file[i] = Call(u, n)
      BY <3>1, <1>2
    <3> QED
      BY <3>1, <3>2, <1>4
  <2> QED
    BY <2>1, <2>2
<1>7. \A u \in Threads : \A n \in 1..Written(u)' : InFile(Call(u, n))'
  <2> SUFFICES ASSUME NEW u \in Threads, NEW n \in 1..Written(u)' PROVE InFile(Call(u, n))'
    OBVIOUS
  <2>1. CASE u = t /\ n = Written(t) + 1
    <3>1. Len(file) + 1 \in DOMAIN file' /\ file'[Len(file) + 1] = Call(u, n)
      BY <2>1, <1>1
    <3> QED
      BY <3>1 DEF InFile, Call
  <2>2. CASE ~(u = t /\ n = Written(t) + 1)
    <3>1. n \in 1..Written(u)
      BY <2>2
    <3>2. PICK i \in DOMAIN file : file[i] = Call(u, n)
      BY <3>1 DEF FileInv, InFile
    <3>3. i \in DOMAIN file' /\ file'[i] = Call(u, n)
      BY <3>2, <1>1
    <3> QED
      BY <3>3 DEF InFile, Call
  <2> QED
    BY <2>1, <2>2
<1>8. \A i, j \in DOMAIN file' :
        i < j /\ file'[i].thread = file'[j].thread => file'[i].call < file'[j].call
  <2> SUFFICES ASSUME NEW i \in DOMAIN file', NEW j \in DOMAIN file',
                      i < j, file'[i].thread = file'[j].thread
               PROVE  file'[i].call < file'[j].call
    OBVIOUS
  <2>1. CASE j \in DOMAIN file
    <3>1. i \in DOMAIN file /\ file'[i] = file[i] /\ file'[j] = file[j]
      BY <1>1, <2>1
    <3> QED
      BY <2>1, <3>1 DEF FileInv
  <2>2. CASE j \notin DOMAIN file
    <3>1. j = Len(file) + 1 /\ i \in DOMAIN file /\ file'[i] = file[i] /\ file'[j] = e
      BY <1>1, <2>2
    <3>2. PICK u \in Threads : \E n \in 1..Written(u) : file[i] = Call(u, n)
      BY <3>1, <1>2
    <3>3. u = t
      BY <3>1, <3>2, <1>3
    <3> QED
      BY <3>1, <3>2, <3>3, <1>3
  <2> QED
    BY <2>1, <2>2
<1> QED
  <2>1. \A i \in DOMAIN file' :
          \/ \E u \in Threads : \E n \in 1..Written(u)' : file'[i] = Call(u, n)'
          \/ file'[i] = Footer' /\ i = Len(file') /\ main' \in {"delete", "stored"}
    BY <1>6 DEF Call
  <2>2. \A u \in Threads : \A n \in 1..Written(u)' : InFile(Call(u, n))'
    BY <1>7
  <2> QED
    BY <2>1, <2>2, <1>8 DEF FileInv

LEMMA Types ==
  ASSUME TypeOK, NEW t \in Threads
  PROVE  /\ Length(t) \in Nat /\ Len(slots[t]) \in Nat /\ Slot(t) \in Nat
         /\ Held(t) \in Int /\ Gone(t) \in Nat /\ Completed(t) \in Int /\ Written(t) \in Int
         /\ slice[t] \in Nat /\ next[t] \in Nat /\ recorded[t] \in Nat
<1>1. /\ slice[t] \in Nat /\ next[t] \in Nat /\ recorded[t] \in Nat /\ cursor \in Nat
      /\ Len(slots[t]) \in Nat
  BY DEF TypeOK
<1>2. Length(t) \in Nat
  BY LengthType
<1>3. Slot(t) \in Nat /\ Gone(t) \in Nat /\ Completed(t) \in Int
  BY <1>1, <1>2 DEF Slot, Gone, Completed
<1>4. Held(t) \in Int
  BY <1>1, <1>2, <1>3 DEF Held, Stored
<1> QED
  BY <1>1, <1>2, <1>3, <1>4 DEF Written

\* A thread inside the library, of a program that is quiescent before its
\* teardown: the teardown has not begun.
LEMMA RunFacts ==
  ASSUME BufferInv, NEW t \in Threads, main = "run"
  PROVE  /\ target = t <=> pc[t] \in {"spilling", "exiting"}
         /\ finalized[t] => pc[t] \in {"exiting", "exited"}
         /\ pc[t] = "exiting" => finalized[t]
         /\ pc[t] \notin {"unborn", "exited"} => t \in registered
         /\ t \in registered => pc[t] \notin {"unborn", "exited"}
BY DEF BufferInv, LockInv, TypeInv, TypeOK, LockDiscipline, Membership, BeingFinalized, Phases

LEMMA InCallRuns ==
  ASSUME BufferInv, Quiescent, NEW t \in Threads, ~Parked(t)
  PROVE  main = "run"
BY DEF BufferInv, Phases

\* A step of one thread that writes nothing to the file.
LEMMA QuietStep ==
  ASSUME BufferInv, LockInv', NEW t \in Threads,
         file' = file, main = "run", main' = "run",
         \A u \in Threads \ {t} : Same(u),
         finalized'[t] => pc'[t] \in {"exiting", "exited"},
         Shape(t)', Contents(t)', Written(t)' = Written(t)
  PROVE  BufferInv'
<1>1. \A u \in Threads \ {t} : Shape(u)' /\ Contents(u)' /\ Written(u)' = Written(u)
  BY Frame DEF BufferInv
<1>2. FileInv'
  <2>1. \A u \in Threads : Written(u)' = Written(u)
    BY <1>1
  <2>2. FileInv /\ (main' \in {"delete", "stored"} <=> main \in {"delete", "stored"})
    BY DEF BufferInv
  <2> QED
    BY <2>1, <2>2, FileFrame
<1>3. Phases'
  BY DEF BufferInv, Phases, Same
<1> QED
  BY <1>1, <1>2, <1>3 DEF BufferInv

LEMMA BeginCallKeeps ==
  ASSUME BufferInv, LockInv', Quiescent, NEW t \in Threads, BeginCall(t)
  PROVE  BufferInv'
<1>1. /\ main = "run" /\ main' = "run" /\ file' = file
      /\ pc[t] = "idle" /\ ~finalized[t] /\ finalized'[t] = finalized[t]
  BY DEF BeginCall, MayEnter, buffers
<1>2. TypeOK /\ TypeOK' /\ Shape(t) /\ Contents(t)
  BY DEF BufferInv, LockInv, TypeInv
<1>3. target # t /\ target' = target
  BY <1>1, RunFacts DEF BeginCall, writing
<1>4. \A u \in Threads \ {t} : Same(u)
  BY <1>2 DEF BeginCall, Same, buffers, writing, TypeOK
<1>5. /\ pc'[t] = "get" /\ recorded'[t] = recorded[t] + 1 /\ pending'[t] = pending[t]
      /\ slice'[t] = slice[t] /\ next'[t] = next[t] /\ slots'[t] = slots[t]
      /\ flushed'[t] = flushed[t]
  BY <1>2 DEF BeginCall, buffers, TypeOK
<1>6. Length(t)' = Length(t) /\ Slot(t)' = Slot(t) /\ Gone(t)' = 0 /\ Gone(t) = 0
  BY <1>3, <1>5 DEF Length, Slot, Gone
<1>7. Held(t) = Length(t) /\ Held(t)' = Length(t)
  BY <1>1, <1>3, <1>5, <1>6 DEF Held, Stored
<1>8. Completed(t)' = Completed(t) /\ recorded[t] \in Nat
  BY <1>1, <1>2, <1>5 DEF Completed, InCall, TypeOK
<1>9. Written(t)' = Written(t)
  BY <1>6, <1>7, <1>8 DEF Written
<1>10. Shape(t)'
  BY <1>1, <1>2, <1>3, <1>5, <1>6, <1>7, <1>8 DEF Shape, InCall
<1>11. Contents(t)'
  BY <1>1, <1>2, <1>5, <1>6, <1>7, <1>8, <1>9 DEF Contents
<1> QED
  BY <1>1, <1>4, <1>9, <1>10, <1>11, QuietStep

LEMMA GetFreeKeeps ==
  ASSUME BufferInv, LockInv', Quiescent, NEW t \in Threads, GetFree(t)
  PROVE  BufferInv'
<1>1. /\ main = "run" /\ main' = "run" /\ file' = file
      /\ pc[t] = "get" /\ finalized'[t] = finalized[t]
  BY InCallRuns DEF GetFree, buffers, Parked
<1>2. TypeOK /\ TypeOK' /\ Shape(t) /\ Contents(t)
  BY DEF BufferInv, LockInv, TypeInv
<1>3. target # t /\ target' = target /\ ~finalized[t]
  BY <1>1, RunFacts DEF GetFree, writing
<1>4. \A u \in Threads \ {t} : Same(u)
  BY <1>2 DEF GetFree, EnterFill, Same, buffers, writing, TypeOK
<1>5. /\ pc'[t] = "fill" /\ recorded'[t] = recorded[t]
      /\ pending'[t] = IF FlushImmediately[t] THEN {"record"} ELSE {"record", "index", "flag"}
      /\ slice'[t] = slice[t] /\ next'[t] = next[t] /\ slots'[t] = slots[t]
      /\ flushed'[t] = flushed[t] /\ next[t] # SliceCapacity[t]
  BY <1>2 DEF GetFree, EnterFill, SliceFull, buffers, TypeOK
<1>6. Length(t)' = Length(t) /\ Slot(t)' = Length(t) + 1 /\ Gone(t)' = 0 /\ Gone(t) = 0
  BY <1>3, <1>5 DEF Length, Slot, Gone
<1>7. Held(t) = Length(t) /\ Held(t)' = Length(t)
  BY <1>1, <1>2, <1>3, <1>5, <1>6, Types DEF Held, Stored
<1>8. Completed(t)' = Completed(t) /\ recorded[t] \in Nat
  BY <1>1, <1>2, <1>5 DEF Completed, InCall, TypeOK
<1>9. Written(t)' = Written(t)
  BY <1>6, <1>7, <1>8 DEF Written
<1>10. Shape(t)'
  BY <1>1, <1>2, <1>3, <1>5, <1>6, <1>7, <1>8, Types DEF Shape, InCall
<1>11. Contents(t)'
  BY <1>1, <1>2, <1>5, <1>6, <1>7, <1>8, <1>9 DEF Contents
<1> QED
  BY <1>1, <1>3, <1>4, <1>9, <1>10, <1>11, QuietStep

LEMMA GetGrowKeeps ==
  ASSUME BufferInv, LockInv', Quiescent, NEW t \in Threads, GetGrow(t)
  PROVE  BufferInv'
<1>1. /\ main = "run" /\ main' = "run" /\ file' = file
      /\ pc[t] = "get" /\ finalized'[t] = finalized[t]
  BY InCallRuns DEF GetGrow, buffers, Parked
<1>2. TypeOK /\ TypeOK' /\ Shape(t) /\ Contents(t)
  BY DEF BufferInv, LockInv, TypeInv
<1>3. target # t /\ target' = target /\ ~finalized[t]
  BY <1>1, RunFacts DEF GetGrow, writing
<1>4. \A u \in Threads \ {t} : Same(u)
  BY <1>2 DEF GetGrow, Same, buffers, writing, TypeOK
<1>5. /\ pc'[t] = "grow" /\ recorded'[t] = recorded[t] /\ pending'[t] = {"slice", "next"}
      /\ slice'[t] = slice[t] /\ next'[t] = next[t] /\ next[t] = SliceCapacity[t] /\ ~Bounded[t]
      /\ flushed'[t] = flushed[t] /\ slots'[t] = slots[t] \o BlankSlice(t)
  BY <1>2 DEF GetGrow, SliceFull, buffers, TypeOK
<1>6. /\ Length(t)' = Length(t) /\ Gone(t)' = 0 /\ Gone(t) = 0 /\ Length(t) = Len(slots[t])
      /\ Len(slots'[t]) = Len(slots[t]) + SliceCapacity[t]
      /\ \A k \in 1..Len(slots[t]) : k \in DOMAIN slots'[t] /\ slots'[t][k] = slots[t][k]
  <2>1. /\ slots[t] \in Seq(Event) /\ BlankSlice(t) \in Seq(Event)
        /\ Len(BlankSlice(t)) = SliceCapacity[t]
    BY <1>2, BlankSliceFacts DEF TypeOK
  <2>2. /\ Len(slots[t] \o BlankSlice(t)) = Len(slots[t]) + SliceCapacity[t]
        /\ \A k \in 1..Len(slots[t]) : /\ k \in DOMAIN (slots[t] \o BlankSlice(t))
                                       /\ (slots[t] \o BlankSlice(t))[k] = slots[t][k]
    <3>1. /\ Len(slots[t] \o BlankSlice(t)) = Len(slots[t]) + Len(BlankSlice(t))
          /\ \A k \in 1..Len(slots[t]) : /\ k \in DOMAIN (slots[t] \o BlankSlice(t))
                                         /\ (slots[t] \o BlankSlice(t))[k] = slots[t][k]
      BY ONLY <2>1, ConcatFacts, Zenon
    <3> QED
      BY ONLY <2>1, <3>1
  <2>3. Length(t)' = Length(t) /\ Gone(t)' = 0 /\ Gone(t) = 0
    BY <1>3, <1>5 DEF Length, Gone
  <2>4. Length(t) = Len(slots[t])
    BY <1>1, <1>2, <1>5 DEF Length, Shape
  <2> QED
    BY <1>5, <2>2, <2>3, <2>4
<1>7. Held(t) = Length(t) /\ Held(t)' = Length(t)
  BY <1>1, <1>2, <1>3, <1>5, <1>6, Types DEF Held, Stored, Shape
<1>8. Completed(t)' = Completed(t) /\ recorded[t] \in Nat
  BY <1>1, <1>2, <1>5 DEF Completed, InCall, TypeOK, Shape
<1>9. Written(t)' = Written(t)
  BY <1>1, <1>2, <1>5, <1>6, <1>7, <1>8, Types DEF Written, Shape
<1>10. Shape(t)'
  BY <1>1, <1>2, <1>3, <1>5, <1>6, <1>7, <1>8, Types DEF Shape, InCall
<1>11. Contents(t)'
  BY <1>1, <1>2, <1>5, <1>6, <1>7, <1>8, <1>9, Types DEF Contents, Shape
<1> QED
  BY <1>1, <1>3, <1>4, <1>9, <1>10, <1>11, QuietStep

LEMMA GrowSliceKeeps ==
  ASSUME BufferInv, LockInv', Quiescent, NEW t \in Threads, GrowSlice(t)
  PROVE  BufferInv'
<1>1. /\ main = "run" /\ main' = "run" /\ file' = file
      /\ pc[t] = "grow" /\ finalized'[t] = finalized[t]
  BY InCallRuns DEF GrowSlice, buffers, Parked
<1>2. TypeOK /\ TypeOK' /\ Shape(t) /\ Contents(t)
  BY DEF BufferInv, LockInv, TypeInv
<1>3. target # t /\ target' = target /\ ~finalized[t]
  BY <1>1, RunFacts DEF GrowSlice, writing
<1>4. \A u \in Threads \ {t} : Same(u)
  BY <1>2 DEF GrowSlice, Same, buffers, writing, TypeOK
<1>5. /\ pc'[t] = pc[t] /\ recorded'[t] = recorded[t] /\ pending'[t] = pending[t] \ {"slice"}
      /\ "slice" \in pending[t] /\ slots'[t] = slots[t] /\ flushed'[t] = flushed[t]
      /\ slice'[t] = slice[t] + 1 /\ next'[t] = next[t]
  BY <1>2 DEF GrowSlice, SliceFull, buffers, TypeOK
<1>6. Gone(t)' = 0 /\ Gone(t) = 0 /\ slice'[t] * SliceCapacity[t] = slice[t] * SliceCapacity[t] + SliceCapacity[t]
  BY <1>1, <1>2, <1>3, <1>5, Types DEF Length, Slot, Gone, Shape
<1>7. Held(t)' = Held(t)
  BY <1>1, <1>2, <1>3, <1>5, <1>6, Types DEF Held, Stored, Shape
<1>8. Completed(t)' = Completed(t) /\ recorded[t] \in Nat
  BY <1>1, <1>2, <1>5 DEF Completed, InCall, TypeOK, Shape
<1>9. Written(t)' = Written(t)
  BY <1>1, <1>2, <1>5, <1>6, <1>7, <1>8, Types DEF Written, Shape
<1>10. Shape(t)'
  <2>1. /\ Len(slots[t]) = slice[t] * SliceCapacity[t] + SliceCapacity[t] + SliceCapacity[t]
        /\ ~Bounded[t] /\ next'[t] = (IF "next" \in pending'[t] THEN SliceCapacity[t] ELSE 0)
        /\ pending'[t] \subseteq {"slice", "next"} /\ "slice" \notin pending'[t]
        /\ recorded[t] >= 1
    BY <1>1, <1>2, <1>5 DEF Shape, InCall
  <2>2. Len(slots'[t]) = slice'[t] * SliceCapacity[t] + SliceCapacity[t]
    BY <1>5, <1>6, <2>1
  <2>3. ~finalized'[t] /\ flushed'[t] => Held(t)' = 0
    BY <1>1, <1>2, <1>5, <1>7 DEF Shape
  <2> QED
    BY <1>1, <1>2, <1>3, <1>5, <2>1, <2>2, <2>3 DEF Shape, InCall
<1>11. Contents(t)'
  BY <1>1, <1>2, <1>5, <1>6, <1>7, <1>8, <1>9, Types DEF Contents, Shape
<1> QED
  BY <1>1, <1>3, <1>4, <1>9, <1>10, <1>11, QuietStep

LEMMA GrowNextKeeps ==
  ASSUME BufferInv, LockInv', Quiescent, NEW t \in Threads, GrowNext(t)
  PROVE  BufferInv'
<1>1. /\ main = "run" /\ main' = "run" /\ file' = file
      /\ pc[t] = "grow" /\ finalized'[t] = finalized[t]
  BY InCallRuns DEF GrowNext, buffers, Parked
<1>2. TypeOK /\ TypeOK' /\ Shape(t) /\ Contents(t)
  BY DEF BufferInv, LockInv, TypeInv
<1>3. target # t /\ target' = target /\ ~finalized[t]
  BY <1>1, RunFacts DEF GrowNext, writing
<1>4. \A u \in Threads \ {t} : Same(u)
  BY <1>2 DEF GrowNext, Same, buffers, writing, TypeOK
<1>5. /\ pc'[t] = pc[t] /\ recorded'[t] = recorded[t] /\ pending'[t] = pending[t] \ {"next"}
      /\ "next" \in pending[t] /\ slots'[t] = slots[t] /\ flushed'[t] = flushed[t]
      /\ slice'[t] = slice[t] /\ next'[t] = 0
  BY <1>2 DEF GrowNext, SliceFull, buffers, TypeOK
<1>6. Gone(t)' = 0 /\ Gone(t) = 0
  BY <1>1, <1>2, <1>3, <1>5, Types DEF Length, Slot, Gone, Shape
<1>7. Held(t)' = Held(t)
  BY <1>1, <1>2, <1>3, <1>5, <1>6, Types DEF Held, Stored, Shape
<1>8. Completed(t)' = Completed(t) /\ recorded[t] \in Nat
  BY <1>1, <1>2, <1>5 DEF Completed, InCall, TypeOK, Shape
<1>9. Written(t)' = Written(t)
  BY <1>1, <1>2, <1>5, <1>6, <1>7, <1>8, Types DEF Written, Shape
<1>10. Shape(t)'
  BY <1>1, <1>2, <1>3, <1>5, <1>6, <1>7, <1>8, Types DEF Shape, InCall
<1>11. Contents(t)'
  BY <1>1, <1>2, <1>5, <1>6, <1>7, <1>8, <1>9, Types DEF Contents, Shape
<1> QED
  BY <1>1, <1>3, <1>4, <1>9, <1>10, <1>11, QuietStep

LEMMA GrowEndKeeps ==
  ASSUME BufferInv, LockInv', Quiescent, NEW t \in Threads, GrowEnd(t)
  PROVE  BufferInv'
<1>1. /\ main = "run" /\ main' = "run" /\ file' = file
      /\ pc[t] = "grow" /\ finalized'[t] = finalized[t]
  BY InCallRuns DEF GrowEnd, EnterFill, buffers, Parked
<1>2. TypeOK /\ TypeOK' /\ Shape(t) /\ Contents(t)
  BY DEF BufferInv, LockInv, TypeInv
<1>3. target # t /\ target' = target /\ ~finalized[t]
  BY <1>1, RunFacts DEF GrowEnd, EnterFill, writing
<1>4. \A u \in Threads \ {t} : Same(u)
  BY <1>2 DEF GrowEnd, EnterFill, Same, buffers, writing, TypeOK
<1>5. /\ pc'[t] = "fill" /\ recorded'[t] = recorded[t] /\ pending[t] = {}
      /\ pending'[t] = IF FlushImmediately[t] THEN {"record"} ELSE {"record", "index", "flag"}
      /\ slice'[t] = slice[t] /\ next'[t] = next[t] /\ slots'[t] = slots[t]
      /\ flushed'[t] = flushed[t]
  BY <1>2 DEF GrowEnd, EnterFill, SliceFull, buffers, TypeOK
<1>6. /\ Length(t)' = Length(t) /\ Slot(t)' = Length(t) + 1 /\ Gone(t)' = 0 /\ Gone(t) = 0
      /\ Length(t) = Len(slots[t]) - SliceCapacity[t]
  BY <1>1, <1>2, <1>3, <1>5, Types DEF Length, Slot, Gone, Shape
<1>7. Held(t) = Length(t) /\ Held(t)' = Length(t)
  BY <1>1, <1>2, <1>3, <1>5, <1>6, Types DEF Held, Stored, Shape
<1>8. Completed(t)' = Completed(t) /\ recorded[t] \in Nat
  BY <1>1, <1>2, <1>5 DEF Completed, InCall, TypeOK, Shape
<1>9. Written(t)' = Written(t)
  BY <1>1, <1>2, <1>5, <1>6, <1>7, <1>8, Types DEF Written, Shape
<1>10. Shape(t)'
  BY <1>1, <1>2, <1>3, <1>5, <1>6, <1>7, <1>8, Types, SMTT(30) DEF Shape, InCall
<1>11. Contents(t)'
  BY <1>1, <1>2, <1>5, <1>6, <1>7, <1>8, <1>9, Types DEF Contents, Shape
<1> QED
  BY <1>1, <1>3, <1>4, <1>9, <1>10, <1>11, QuietStep

LEMMA GetSpillKeeps ==
  ASSUME BufferInv, LockInv', Quiescent, NEW t \in Threads, GetSpill(t)
  PROVE  BufferInv'
<1>1. /\ main = "run" /\ main' = "run" /\ file' = file
      /\ pc[t] = "get" /\ finalized'[t] = finalized[t]
  BY InCallRuns DEF GetSpill, buffers, Parked
<1>2. TypeOK /\ TypeOK' /\ Shape(t) /\ Contents(t)
  BY DEF BufferInv, LockInv, TypeInv
<1>3. target # t /\ target' = target /\ ~finalized[t]
  BY <1>1, RunFacts DEF GetSpill, writing
<1>4. \A u \in Threads \ {t} : Same(u)
  BY <1>2 DEF GetSpill, Same, buffers, writing, TypeOK
<1>5. /\ pc'[t] = "spill" /\ recorded'[t] = recorded[t] /\ pending'[t] = pending[t]
      /\ slice'[t] = slice[t] /\ next'[t] = next[t] /\ slots'[t] = slots[t]
      /\ flushed'[t] = flushed[t] /\ next[t] = SliceCapacity[t] /\ Bounded[t]
  BY <1>2 DEF GetSpill, SliceFull, buffers, TypeOK
<1>6. Length(t)' = Length(t) /\ Gone(t)' = 0 /\ Gone(t) = 0
  BY <1>1, <1>2, <1>3, <1>5, Types DEF Length, Slot, Gone, Shape
<1>7. Held(t) = Length(t) /\ Held(t)' = Length(t)
  BY <1>1, <1>2, <1>3, <1>5, <1>6, Types DEF Held, Stored, Shape
<1>8. Completed(t)' = Completed(t) /\ recorded[t] \in Nat
  BY <1>1, <1>2, <1>5 DEF Completed, InCall, TypeOK, Shape
<1>9. Written(t)' = Written(t)
  BY <1>1, <1>2, <1>5, <1>6, <1>7, <1>8, Types DEF Written, Shape
<1>10. Shape(t)'
  BY <1>1, <1>2, <1>3, <1>5, <1>6, <1>7, <1>8, Types DEF Shape, InCall
<1>11. Contents(t)'
  BY <1>1, <1>2, <1>5, <1>6, <1>7, <1>8, <1>9, Types DEF Contents, Shape
<1> QED
  BY <1>1, <1>3, <1>4, <1>9, <1>10, <1>11, QuietStep

LEMMA FillRecordKeeps ==
  ASSUME BufferInv, LockInv', Quiescent, NEW t \in Threads, FillRecord(t)
  PROVE  BufferInv'
<1>1. /\ main = "run" /\ main' = "run" /\ file' = file
      /\ pc[t] = "fill" /\ finalized'[t] = finalized[t]
  BY InCallRuns DEF FillRecord, buffers, Parked
<1>2. TypeOK /\ TypeOK' /\ Shape(t) /\ Contents(t)
  BY DEF BufferInv, LockInv, TypeInv
<1>3. target # t /\ target' = target /\ ~finalized[t]
  BY <1>1, RunFacts DEF FillRecord, writing
<1>4. \A u \in Threads \ {t} : Same(u)
  BY <1>2 DEF FillRecord, Same, buffers, writing, TypeOK
<1>5. /\ pc'[t] = pc[t] /\ recorded'[t] = recorded[t] /\ pending'[t] = pending[t] \ {"record"}
      /\ slice'[t] = slice[t] /\ next'[t] = next[t] /\ flushed'[t] = flushed[t]
      /\ slots' = IF Slot(t) \in DOMAIN slots[t]
                    THEN [slots EXCEPT ![t][Slot(t)] = Call(t, recorded[t])]
                    ELSE slots
  BY <1>2 DEF FillRecord, SliceFull, buffers, TypeOK
<1>6. /\ Length(t)' = Length(t) /\ Slot(t)' = Slot(t) /\ Gone(t)' = 0 /\ Gone(t) = 0
      /\ Slot(t) \in 1..Len(slots[t])
  <2>1. Gone(t)' = 0 /\ Gone(t) = 0
    BY <1>3 DEF Gone
  <2>2. Length(t)' = Length(t)
    BY <1>5 DEF Length
  <2>3. Slot(t)' = Slot(t)
    BY <1>5, <2>2 DEF Slot
  <2>4. Slot(t) >= 1 /\ Slot(t) <= Len(slots[t]) /\ Slot(t) \in Nat /\ Len(slots[t]) \in Nat
    <3>1. /\ Len(slots[t]) = slice[t] * SliceCapacity[t] + SliceCapacity[t]
          /\ "index" \in pending[t] \/ FlushImmediately[t] => next[t] < SliceCapacity[t]
          /\ ~("index" \in pending[t] \/ FlushImmediately[t]) => next[t] >= 1
          /\ next[t] <= SliceCapacity[t]
      BY <1>1, <1>2 DEF Shape
    <3>2. Slot(t) = IF "index" \in pending[t] \/ FlushImmediately[t] THEN Length(t) + 1 ELSE Length(t)
      BY DEF Slot
    <3>3. /\ slice[t] * SliceCapacity[t] \in Nat /\ next[t] \in Nat /\ Len(slots[t]) \in Nat
          /\ Length(t) = slice[t] * SliceCapacity[t] + next[t]
      BY <1>2, LengthType, Types DEF Length
    <3> QED
      BY <3>1, <3>2, <3>3
  <2> QED
    BY <2>1, <2>2, <2>3, <2>4
<1>12. /\ Len(slots'[t]) = Len(slots[t]) /\ DOMAIN slots'[t] = DOMAIN slots[t]
       /\ slots'[t][Slot(t)] = Call(t, recorded[t])
       /\ \A k \in DOMAIN slots[t] : k # Slot(t) => slots'[t][k] = slots[t][k]
  <2>1. slots[t] \in Seq(Event) /\ Slot(t) \in 1..Len(slots[t]) /\ Slot(t) \in DOMAIN slots[t]
    BY <1>2, <1>6 DEF TypeOK
  <2>2. slots'[t] = [slots[t] EXCEPT ![Slot(t)] = Call(t, recorded[t])]
    BY <1>2, <1>5, <2>1 DEF TypeOK
  <2>3. Call(t, recorded[t]) \in Event
    BY <1>2 DEF TypeOK, Call, Event
  <2> QED
    BY <2>1, <2>2, <2>3, ExceptSeq
<1>7. Held(t) = Slot(t) - 1 /\ Held(t)' = Slot(t) - 1
  BY <1>1, <1>2, <1>3, <1>5, <1>6, Types DEF Held, Stored, Shape
<1>8. Completed(t)' = Completed(t) /\ recorded[t] \in Nat
  BY <1>1, <1>2, <1>5 DEF Completed, InCall, TypeOK, Shape
<1>9. Written(t)' = Written(t)
  BY <1>1, <1>2, <1>5, <1>6, <1>7, <1>8, Types DEF Written, Shape
<1>10. Shape(t)'
  BY <1>1, <1>2, <1>3, <1>5, <1>6, <1>7, <1>8, <1>12 DEF Shape, InCall
<1>11. Contents(t)'
  <2>1. /\ Completed(t) \in Int /\ Held(t) \in Int /\ Slot(t) \in Nat
        /\ Held(t) < Slot(t) /\ Held(t)' = Held(t)
    BY <1>2, <1>6, <1>7, Types
  <2>2. \A k \in (Gone(t) + 1)..Held(t) :
          k \in DOMAIN slots[t] /\ slots[t][k] = Call(t, Completed(t) - Held(t) + k) /\ k # Slot(t)
    BY <1>2, <2>1, <1>6 DEF Contents
  <2>3. \A k \in (Gone(t)' + 1)..Held(t)' :
          k \in DOMAIN slots'[t] /\ slots'[t][k] = Call(t, Completed(t)' - Held(t)' + k)
    BY <2>1, <2>2, <1>6, <1>8, <1>12
  <2>4. Written(t)' >= 0
    BY <1>2, <1>9 DEF Contents
  <2> QED
    BY <1>1, <1>5, <1>6, <1>12, <2>3, <2>4 DEF Contents, Call
<1> QED
  BY <1>1, <1>3, <1>4, <1>9, <1>10, <1>11, QuietStep

LEMMA PublishIndexKeeps ==
  ASSUME BufferInv, LockInv', Quiescent, NEW t \in Threads, PublishIndex(t)
  PROVE  BufferInv'
<1>1. /\ main = "run" /\ main' = "run" /\ file' = file
      /\ pc[t] = "fill" /\ finalized'[t] = finalized[t]
  BY InCallRuns DEF PublishIndex, buffers, Parked
<1>2. TypeOK /\ TypeOK' /\ Shape(t) /\ Contents(t)
  BY DEF BufferInv, LockInv, TypeInv
<1>3. target # t /\ target' = target /\ ~finalized[t]
  BY <1>1, RunFacts DEF PublishIndex, writing
<1>4. \A u \in Threads \ {t} : Same(u)
  BY <1>2 DEF PublishIndex, Same, buffers, writing, TypeOK
<1>5. /\ pc'[t] = pc[t] /\ recorded'[t] = recorded[t] /\ pending'[t] = pending[t] \ {"index"}
      /\ "index" \in pending[t] /\ slice'[t] = slice[t] /\ next'[t] = next[t] + 1
      /\ slots'[t] = slots[t] /\ flushed'[t] = flushed[t]
  BY <1>2 DEF PublishIndex, SliceFull, buffers, TypeOK
<1>6. /\ Slot(t)' = Slot(t) /\ Gone(t)' = 0 /\ Gone(t) = 0 /\ ~FlushImmediately[t]
  <2>1. ~FlushImmediately[t]
    BY <1>1, <1>2, <1>5 DEF Shape
  <2>2. Length(t)' = Length(t) + 1
    BY <1>2, <1>5, Types DEF Length
  <2>3. Slot(t) = Length(t) + 1 /\ Slot(t)' = Length(t)'
    BY <1>5, <2>1 DEF Slot
  <2> QED
    BY <1>3, <2>1, <2>2, <2>3 DEF Gone
<1>7. Held(t) = Slot(t) - 1 /\ Held(t)' = Slot(t) - 1
  BY <1>1, <1>2, <1>3, <1>5, <1>6, Types DEF Held, Stored, Shape
<1>8. Completed(t)' = Completed(t) /\ recorded[t] \in Nat
  BY <1>1, <1>2, <1>5 DEF Completed, InCall, TypeOK, Shape
<1>9. Written(t)' = Written(t)
  BY <1>1, <1>2, <1>5, <1>6, <1>7, <1>8, Types DEF Written, Shape
<1>10. Shape(t)'
  BY <1>1, <1>2, <1>3, <1>5, <1>6, <1>7, <1>8, Types DEF Shape, InCall
<1>11. Contents(t)'
  BY <1>1, <1>2, <1>5, <1>6, <1>7, <1>8, <1>9, Types DEF Contents, Shape
<1> QED
  BY <1>1, <1>3, <1>4, <1>9, <1>10, <1>11, QuietStep

LEMMA PublishFlagKeeps ==
  ASSUME BufferInv, LockInv', Quiescent, NEW t \in Threads, PublishFlag(t)
  PROVE  BufferInv'
<1>1. /\ main = "run" /\ main' = "run" /\ file' = file
      /\ pc[t] = "fill" /\ finalized'[t] = finalized[t]
  BY InCallRuns DEF PublishFlag, buffers, Parked
<1>2. TypeOK /\ TypeOK' /\ Shape(t) /\ Contents(t)
  BY DEF BufferInv, LockInv, TypeInv
<1>3. target # t /\ target' = target /\ ~finalized[t]
  BY <1>1, RunFacts DEF PublishFlag, writing
<1>4. \A u \in Threads \ {t} : Same(u)
  BY <1>2 DEF PublishFlag, Same, buffers, writing, TypeOK
<1>5. /\ pc'[t] = pc[t] /\ recorded'[t] = recorded[t] /\ pending'[t] = pending[t] \ {"flag"}
      /\ "flag" \in pending[t] /\ slice'[t] = slice[t] /\ next'[t] = next[t]
      /\ slots'[t] = slots[t] /\ flushed'[t] = FALSE
  BY <1>2 DEF PublishFlag, SliceFull, buffers, TypeOK
<1>6. /\ Length(t)' = Length(t) /\ Slot(t)' = Slot(t) /\ Gone(t)' = 0 /\ Gone(t) = 0
  BY <1>1, <1>2, <1>3, <1>5, Types DEF Length, Slot, Gone, Shape
<1>7. Held(t) = Slot(t) - 1 /\ Held(t)' = Slot(t) - 1
  BY <1>1, <1>2, <1>3, <1>5, <1>6, Types DEF Held, Stored, Shape
<1>8. Completed(t)' = Completed(t) /\ recorded[t] \in Nat
  BY <1>1, <1>2, <1>5 DEF Completed, InCall, TypeOK, Shape
<1>9. Written(t)' = Written(t)
  BY <1>1, <1>2, <1>5, <1>6, <1>7, <1>8, Types DEF Written, Shape
<1>10. Shape(t)'
  BY <1>1, <1>2, <1>3, <1>5, <1>6, <1>7, <1>8, Types DEF Shape, InCall
<1>11. Contents(t)'
  <2>1. \A k \in (Gone(t)' + 1)..Held(t)' :
          k \in DOMAIN slots'[t] /\ slots'[t][k] = Call(t, Completed(t)' - Held(t)' + k)
    BY <1>2, <1>5, <1>6, <1>7, <1>8 DEF Contents
  <2>2. Written(t)' >= 0
    BY <1>2, <1>9 DEF Contents
  <2>3. "record" \notin pending[t] => slots[t][Slot(t)] = Call(t, recorded[t])
    BY <1>1, <1>2 DEF Contents
  <2> QED
    BY <1>1, <1>5, <1>6, <2>1, <2>2, <2>3 DEF Contents, Call
<1> QED
  BY <1>1, <1>3, <1>4, <1>9, <1>10, <1>11, QuietStep

LEMMA EndCallKeeps ==
  ASSUME BufferInv, LockInv', Quiescent, NEW t \in Threads, EndCall(t)
  PROVE  BufferInv'
<1>1. /\ main = "run" /\ main' = "run" /\ file' = file
      /\ pc[t] = "fill" /\ finalized'[t] = finalized[t]
  BY InCallRuns DEF EndCall, buffers, Parked
<1>2. TypeOK /\ TypeOK' /\ Shape(t) /\ Contents(t)
  BY DEF BufferInv, LockInv, TypeInv
<1>3. target # t /\ target' = target /\ ~finalized[t]
  BY <1>1, RunFacts DEF EndCall, writing
<1>4. \A u \in Threads \ {t} : Same(u)
  BY <1>2 DEF EndCall, Same, buffers, writing, TypeOK
<1>5. /\ pc'[t] = IF FlushImmediately[t] THEN "emit" ELSE "idle"
      /\ recorded'[t] = recorded[t] /\ pending'[t] = pending[t] /\ pending[t] = {}
      /\ slice'[t] = slice[t] /\ next'[t] = next[t] /\ slots'[t] = slots[t]
      /\ flushed'[t] = flushed[t]
  BY <1>2 DEF EndCall, SliceFull, buffers, TypeOK
<1>6. /\ Length(t)' = Length(t) /\ Gone(t)' = 0 /\ Gone(t) = 0
      /\ Slot(t) = IF FlushImmediately[t] THEN 1 ELSE Length(t)
      /\ FlushImmediately[t] => Length(t) = 0
  BY <1>1, <1>2, <1>3, <1>5, Types DEF Length, Slot, Gone, Shape
<1>7. Held(t) = Slot(t) - 1 /\ Held(t)' = Length(t)
  BY <1>1, <1>2, <1>3, <1>5, <1>6, Types DEF Held, Stored, Shape
<1>8. Completed(t)' = (IF FlushImmediately[t] THEN Completed(t) ELSE Completed(t) + 1) /\ recorded[t] \in Nat
  BY <1>1, <1>2, <1>5 DEF Completed, InCall, TypeOK, Shape
<1>9. Written(t)' = Written(t)
  BY <1>1, <1>2, <1>5, <1>6, <1>7, <1>8, Types DEF Written, Shape
<1>10. Shape(t)'
  BY <1>1, <1>2, <1>3, <1>5, <1>6, <1>7, <1>8, Types DEF Shape, InCall
<1>11. Contents(t)'
  <2>1. slots[t][Slot(t)] = Call(t, recorded[t]) /\ Slot(t) \in DOMAIN slots[t]
    <3>1. pc[t] = "fill" /\ "record" \notin pending[t]
      BY <1>1, <1>5
    <3>2. slots[t][Slot(t)] = Call(t, recorded[t])
      BY <1>2, <3>1 DEF Contents
    <3>3. Slot(t) >= 1 /\ Slot(t) <= Len(slots[t]) /\ Slot(t) \in Nat
      BY <1>1, <1>2, <1>5, <1>6, Types DEF Shape, Length
    <3>4. slots[t] \in Seq(Event)
      BY <1>2 DEF TypeOK
    <3> QED
      BY <3>2, <3>3, <3>4
  <2>2. /\ Completed(t) = recorded[t] - 1 /\ recorded[t] \in Nat
        /\ Length(t) \in Nat /\ Slot(t) \in Nat /\ Held(t) = Slot(t) - 1
    BY <1>1, <1>2, <1>7, Types DEF Completed, InCall
  <2>3. CASE FlushImmediately[t]
    <3>1. Held(t)' = 0 /\ Slot(t) = 1
      BY <2>3, <1>6, <1>7
    <3> QED
      <4>1. \A k \in (Gone(t)' + 1)..Held(t)' : FALSE
        BY <3>1, <1>6
      <4>2. Written(t)' >= 0
        BY <1>2, <1>9 DEF Contents
      <4>3. slots'[t][1] = Call(t, recorded'[t]) /\ pc'[t] = "emit"
        BY <3>1, <2>1, <2>3, <1>5
      <4> QED
        BY <4>1, <4>2, <4>3 DEF Contents, Call
  <2>4. CASE ~FlushImmediately[t]
    <3>1. Held(t)' = Held(t) + 1 /\ Held(t)' = Slot(t) /\ Completed(t)' = Completed(t) + 1
      BY <2>2, <2>4, <1>6, <1>7, <1>8
    <3>2. \A k \in 1..Held(t) :
            k \in DOMAIN slots[t] /\ slots[t][k] = Call(t, Completed(t) - Held(t) + k)
      BY <1>2, <1>6 DEF Contents
    <3>3. ASSUME NEW k \in 1..Held(t)'
          PROVE  k \in DOMAIN slots[t] /\ slots[t][k] = Call(t, Completed(t)' - Held(t)' + k)
      <4>1. CASE k = Slot(t)
        BY <4>1, <2>1, <2>2, <3>1
      <4>2. CASE k # Slot(t)
        <5>1. k \in 1..Held(t) /\ Completed(t)' - Held(t)' + k = Completed(t) - Held(t) + k
          BY <4>2, <2>2, <3>1
        <5> QED
          BY <5>1, <3>2
      <4> QED
        BY <4>1, <4>2
    <3>4. Gone(t)' + 1 = 1 /\ Written(t)' >= 0 /\ slots'[t] = slots[t] /\ pc'[t] = "idle"
      BY <1>2, <1>5, <1>6, <1>9, <2>4 DEF Contents
    <3> QED
      BY <3>3, <3>4 DEF Contents, Call
  <2> QED
    BY <2>3, <2>4
<1> QED
  BY <1>1, <1>3, <1>4, <1>9, <1>10, <1>11, QuietStep

LEMMA SpillNothingKeeps ==
  ASSUME BufferInv, LockInv', Quiescent, NEW t \in Threads, SpillNothing(t)
  PROVE  BufferInv'
<1>1. main = "run" /\ pc[t] = "spill" /\ flushed[t]
  BY InCallRuns DEF SpillNothing, Parked
<1>2. TypeOK /\ Shape(t)
  BY DEF BufferInv, LockInv, TypeInv
<1>3. ~finalized[t] /\ target # t
  BY <1>1, RunFacts
<1>4. Held(t) = Length(t) /\ Held(t) = 0 /\ next[t] = SliceCapacity[t]
  BY <1>1, <1>2, <1>3 DEF Held, Stored, Shape
<1>5. Length(t) >= SliceCapacity[t]
  BY <1>2, <1>4, LengthType DEF Length
<1> QED
  BY <1>4, <1>5

LEMMA SpillBeginKeeps ==
  ASSUME BufferInv, LockInv', Quiescent, NEW t \in Threads, SpillBegin(t)
  PROVE  BufferInv'
<1>1. /\ main = "run" /\ main' = "run" /\ file' = file /\ pc[t] = "spill" /\ ~flushed[t]
      /\ lock = NoOne /\ target' = t /\ cursor' = 0 /\ finalized'[t] = finalized[t]
  BY InCallRuns DEF SpillBegin, Acquire, StartLoop, Parked, buffers
<1>2. TypeOK /\ TypeOK' /\ Shape(t) /\ Contents(t)
  BY DEF BufferInv, LockInv, TypeInv
<1>3. ~finalized[t] /\ target # t /\ target = NoOne
  BY <1>1, RunFacts DEF BufferInv, LockInv, LockDiscipline
<1>4. \A u \in Threads \ {t} : Same(u)
  BY <1>1, <1>2, <1>3 DEF SpillBegin, Same, buffers, TypeOK
<1>5. /\ pc'[t] = "spilling" /\ recorded'[t] = recorded[t] /\ pending'[t] = pending[t]
      /\ slice'[t] = slice[t] /\ next'[t] = next[t] /\ slots'[t] = slots[t]
      /\ flushed'[t] = flushed[t]
  BY <1>2 DEF SpillBegin, buffers, TypeOK
<1>6. Length(t)' = Length(t) /\ Gone(t)' = 0 /\ Gone(t) = 0
  BY <1>1, <1>3, <1>5 DEF Length, Gone
<1>7. Held(t) = Length(t) /\ Held(t)' = Length(t)
  BY <1>1, <1>3, <1>5, <1>6 DEF Held, Stored
<1>8. Completed(t)' = Completed(t) /\ recorded[t] \in Nat
  BY <1>1, <1>2, <1>5 DEF Completed, InCall, TypeOK
<1>9. Written(t)' = Written(t)
  BY <1>6, <1>7, <1>8 DEF Written
<1>10. Shape(t)'
  BY <1>1, <1>2, <1>3, <1>5, <1>6, <1>7, <1>8, Types DEF Shape, InCall
<1>11. Contents(t)'
  BY <1>1, <1>2, <1>5, <1>6, <1>7, <1>8, <1>9 DEF Contents
<1> QED
  BY <1>1, <1>3, <1>4, <1>9, <1>10, <1>11, QuietStep

LEMMA SpillEndKeeps ==
  ASSUME BufferInv, LockInv', Quiescent, NEW t \in Threads, SpillEnd(t)
  PROVE  BufferInv'
<1>1. /\ main = "run" /\ main' = "run" /\ file' = file /\ pc[t] = "spilling" /\ LoopDone
      /\ target' = NoOne /\ finalized'[t] = finalized[t]
  BY InCallRuns DEF SpillEnd, StopLoop, Parked
<1>2. TypeOK /\ TypeOK' /\ Shape(t) /\ Contents(t)
  BY DEF BufferInv, LockInv, TypeInv
<1>3. ~finalized[t] /\ target = t
  BY <1>1, RunFacts
<1>4. \A u \in Threads \ {t} : Same(u)
  BY <1>1, <1>2, <1>3 DEF SpillEnd, EnterFill, Rewind, Same, TypeOK
<1>5. /\ pc'[t] = "fill" /\ recorded'[t] = recorded[t] /\ slots'[t] = slots[t]
      /\ pending'[t] = IF FlushImmediately[t] THEN {"record"} ELSE {"record", "index", "flag"}
      /\ slice'[t] = 0 /\ next'[t] = 0 /\ flushed'[t] = TRUE
  BY <1>2 DEF SpillEnd, EnterFill, Rewind, TypeOK
<1>6. /\ Gone(t)' = 0 /\ Gone(t) = Length(t) /\ Length(t)' = 0 /\ Slot(t)' = 1
      /\ Length(t) \in Nat /\ slice[t] = 0 /\ Bounded[t] /\ ~FlushImmediately[t]
  <2>1. cursor = Length(t) /\ slice[t] = 0 /\ Bounded[t] /\ next[t] = SliceCapacity[t]
    <3>1. Length(t) \in Nat /\ cursor \in Nat
      BY <1>2, Types DEF TypeOK
    <3>2. next[t] = SliceCapacity[t] /\ Bounded[t] /\ slice[t] = 0
      BY <1>1, <1>2 DEF Shape
    <3>3. cursor >= Length(t)
      BY <1>1, <1>3 DEF LoopDone
    <3>4. cursor <= Length(t)
      BY <1>1, <1>2, <1>3 DEF Shape
    <3> QED
      BY ONLY <3>1, <3>2, <3>3, <3>4
  <2>2. ~FlushImmediately[t]
    BY <1>2, <2>1 DEF Shape
  <2>3. Length(t)' = 0
    BY <1>5 DEF Length
  <2>4. Slot(t)' = 1
    BY <1>5, <2>2, <2>3 DEF Slot
  <2> QED
    BY <1>1, <1>2, <1>3, <2>1, <2>2, <2>3, <2>4, Types DEF Gone
<1>7. Held(t) = Length(t) /\ Held(t)' = 0
  BY <1>1, <1>3, <1>5, <1>6 DEF Held, Stored
<1>8. Completed(t)' = Completed(t) /\ recorded[t] \in Nat /\ Completed(t) \in Int
  BY <1>1, <1>2, <1>5 DEF Completed, InCall, TypeOK
<1>9. Written(t)' = Written(t)
  BY <1>6, <1>7, <1>8 DEF Written
<1>10. Shape(t)'
  BY <1>1, <1>2, <1>3, <1>5, <1>6, <1>7, <1>8 DEF Shape, InCall
<1>11. Contents(t)'
  BY <1>1, <1>2, <1>5, <1>6, <1>7, <1>8, <1>9 DEF Contents
<1> QED
  BY <1>1, <1>3, <1>4, <1>9, <1>10, <1>11, QuietStep

LEMMA ConstructKeeps ==
  ASSUME BufferInv, LockInv', Quiescent, NEW t \in Threads, Construct(t)
  PROVE  BufferInv'
<1>1. /\ main = "run" /\ main' = "run" /\ file' = file /\ pc[t] = "unborn"
      /\ target' = target /\ finalized'[t] = finalized[t]
  BY DEF Construct, MayEnter, writing
<1>2. TypeOK /\ TypeOK' /\ Shape(t) /\ Contents(t)
  BY DEF BufferInv, LockInv, TypeInv
<1>3. target # t
  BY <1>1, RunFacts
<1>4. \A u \in Threads \ {t} : Same(u)
  BY <1>2 DEF Construct, Same, writing, TypeOK
<1>5. /\ pc'[t] = "idle" /\ recorded'[t] = recorded[t] /\ recorded[t] = 0 /\ ~finalized[t]
      /\ pending'[t] = {} /\ slice'[t] = 0 /\ next'[t] = 0 /\ flushed'[t] = FALSE
      /\ Len(slots'[t]) = SliceCapacity[t] /\ slice[t] = 0 /\ next[t] = 0
  BY <1>1, <1>2, BlankSliceFacts DEF Construct, TypeOK, Shape
<1>6. Length(t)' = 0 /\ Length(t) = 0 /\ Gone(t)' = 0 /\ Gone(t) = 0
  BY <1>1, <1>3, <1>5 DEF Length, Gone
<1>7. Held(t) = 0 /\ Held(t)' = 0
  BY <1>1, <1>3, <1>5, <1>6 DEF Held, Stored
<1>8. Completed(t)' = 0 /\ Completed(t) = 0
  BY <1>1, <1>5 DEF Completed, InCall
<1>9. Written(t)' = Written(t)
  BY <1>6, <1>7, <1>8 DEF Written
<1>10. Shape(t)'
  BY <1>1, <1>2, <1>3, <1>5, <1>6, <1>7 DEF Shape, InCall
<1>11. Contents(t)'
  BY <1>2, <1>5, <1>6, <1>7, <1>9 DEF Contents
<1> QED
  BY <1>1, <1>4, <1>5, <1>9, <1>10, <1>11, QuietStep

LEMMA ExitFinalizedKeeps ==
  ASSUME BufferInv, LockInv', Quiescent, NEW t \in Threads, ExitFinalized(t)
  PROVE  BufferInv'
<1>1. main = "run" /\ pc[t] = "idle" /\ finalized[t]
  BY DEF ExitFinalized, MayEnter
<1> QED
  BY <1>1, RunFacts

LEMMA ExitFlushedKeeps ==
  ASSUME BufferInv, LockInv', Quiescent, NEW t \in Threads, ExitFlushed(t)
  PROVE  BufferInv'
<1>1. /\ main = "run" /\ main' = "run" /\ file' = file /\ pc[t] = "idle"
      /\ target' = target /\ ~finalized[t] /\ flushed[t]
  BY DEF ExitFlushed, MayEnter, writing
<1>2. TypeOK /\ TypeOK' /\ Shape(t) /\ Contents(t)
  BY DEF BufferInv, LockInv, TypeInv
<1>3. target # t
  BY <1>1, RunFacts
<1>4. \A u \in Threads \ {t} : Same(u)
  BY <1>2 DEF ExitFlushed, Release, Same, writing, TypeOK
<1>5. /\ pc'[t] = "exited" /\ recorded'[t] = recorded[t] /\ finalized'[t] = TRUE
      /\ pending'[t] = pending[t] /\ slice'[t] = slice[t] /\ next'[t] = next[t]
  BY <1>1, <1>2 DEF ExitFlushed, Release, TypeOK
<1>6. Length(t)' = Length(t) /\ Gone(t)' = 0 /\ Gone(t) = 0
  BY <1>1, <1>3, <1>5 DEF Length, Gone
<1>7. Held(t) = 0 /\ Held(t)' = 0
  BY <1>1, <1>2, <1>3, <1>5 DEF Held, Shape
<1>8. Completed(t)' = Completed(t)
  BY <1>1, <1>5 DEF Completed, InCall
<1>9. Written(t)' = Written(t)
  BY <1>6, <1>7, <1>8 DEF Written
<1>10. Shape(t)'
  BY <1>1, <1>2, <1>3, <1>5, <1>6, <1>7 DEF Shape, InCall
<1>11. Contents(t)'
  BY <1>2, <1>5, <1>6, <1>7, <1>9 DEF Contents
<1> QED
  BY <1>1, <1>4, <1>5, <1>9, <1>10, <1>11, QuietStep

LEMMA ExitBeginKeeps ==
  ASSUME BufferInv, LockInv', Quiescent, NEW t \in Threads, ExitBegin(t)
  PROVE  BufferInv'
<1>1. /\ main = "run" /\ main' = "run" /\ file' = file /\ pc[t] = "idle" /\ lock = NoOne
      /\ target' = t /\ cursor' = 0 /\ ~finalized[t] /\ ~flushed[t]
  BY DEF ExitBegin, Acquire, StartLoop, MayEnter
<1>2. TypeOK /\ TypeOK' /\ Shape(t) /\ Contents(t)
  BY DEF BufferInv, LockInv, TypeInv
<1>3. target # t /\ target = NoOne
  BY <1>1, RunFacts DEF BufferInv, LockInv, LockDiscipline
<1>4. \A u \in Threads \ {t} : Same(u)
  BY <1>1, <1>2, <1>3 DEF ExitBegin, Same, TypeOK
<1>5. /\ pc'[t] = "exiting" /\ recorded'[t] = recorded[t] /\ finalized'[t] = TRUE
      /\ pending'[t] = pending[t] /\ slice'[t] = slice[t] /\ next'[t] = next[t]
      /\ flushed'[t] = flushed[t] /\ slots'[t] = slots[t]
  BY <1>1, <1>2 DEF ExitBegin, TypeOK
<1>6. Length(t)' = Length(t) /\ Gone(t)' = 0 /\ Gone(t) = 0
  BY <1>1, <1>3, <1>5 DEF Length, Gone
<1>7. Held(t) = Length(t) /\ Held(t)' = Length(t)
  BY <1>1, <1>3, <1>5, <1>6 DEF Held, Stored
<1>8. Completed(t)' = Completed(t)
  BY <1>1, <1>5 DEF Completed, InCall
<1>9. Written(t)' = Written(t)
  BY <1>6, <1>7, <1>8 DEF Written
<1>10. Shape(t)'
  BY <1>1, <1>2, <1>3, <1>5, <1>6, <1>7, Types DEF Shape, InCall
<1>11. Contents(t)'
  BY <1>1, <1>2, <1>5, <1>6, <1>7, <1>8, <1>9 DEF Contents
<1> QED
  BY <1>1, <1>4, <1>5, <1>9, <1>10, <1>11, QuietStep

LEMMA ExitEndKeeps ==
  ASSUME BufferInv, LockInv', Quiescent, NEW t \in Threads, ExitEnd(t)
  PROVE  BufferInv'
<1>1. /\ main = "run" /\ main' = "run" /\ file' = file /\ pc[t] = "exiting" /\ LoopDone
      /\ target' = NoOne /\ finalized'[t] = finalized[t]
  BY InCallRuns DEF ExitEnd, StopLoop, Parked
<1>2. TypeOK /\ TypeOK' /\ Shape(t) /\ Contents(t)
  BY DEF BufferInv, LockInv, TypeInv
<1>3. finalized[t] /\ target = t
  BY <1>1, RunFacts
<1>4. \A u \in Threads \ {t} : Same(u)
  BY <1>1, <1>2, <1>3 DEF ExitEnd, Release, Same, TypeOK
<1>5. /\ pc'[t] = "exited" /\ recorded'[t] = recorded[t] /\ pending'[t] = pending[t]
      /\ slice'[t] = slice[t] /\ next'[t] = next[t]
  BY <1>2 DEF ExitEnd, Release, TypeOK
<1>6. Gone(t)' = 0 /\ Gone(t) = Length(t) /\ Length(t) \in Nat
  <2>1. Length(t) \in Nat /\ cursor \in Nat
    BY <1>2, LengthType DEF TypeOK
  <2>2. cursor <= Length(t) /\ cursor >= Length(t)
    BY <1>1, <1>2, <1>3 DEF LoopDone, Shape
  <2>3. Gone(t) = cursor /\ Gone(t)' = 0
    BY <1>1, <1>3 DEF Gone
  <2> QED
    BY <2>1, <2>2, <2>3
<1>7. Held(t) = Length(t) /\ Held(t)' = 0
  BY <1>1, <1>3 DEF Held, Stored
<1>8. Completed(t)' = Completed(t) /\ Completed(t) \in Int
  BY <1>1, <1>2, <1>5 DEF Completed, InCall, TypeOK
<1>9. Written(t)' = Written(t)
  BY <1>6, <1>7, <1>8 DEF Written
<1>10. Shape(t)'
  BY <1>1, <1>2, <1>3, <1>5, <1>6, <1>7 DEF Shape, InCall
<1>11. Contents(t)'
  BY <1>2, <1>5, <1>6, <1>7, <1>9 DEF Contents
<1> QED
  BY <1>1, <1>4, <1>5, <1>9, <1>10, <1>11, QuietStep

LEMMA EmitKeeps ==
  ASSUME BufferInv, LockInv', Quiescent, NEW t \in Threads, Emit(t)
  PROVE  BufferInv'
<1>1. /\ main = "run" /\ main' = main /\ pc[t] = "emit" /\ finalized'[t] = finalized[t]
      /\ target' = target
  BY InCallRuns DEF Emit, Parked, writing
<1>2. TypeOK /\ TypeOK' /\ Shape(t) /\ Contents(t) /\ FileInv
  BY DEF BufferInv, LockInv, TypeInv
<1>3. target # t /\ ~finalized[t]
  BY <1>1, RunFacts
<1>4. \A u \in Threads \ {t} : Same(u)
  BY <1>2 DEF Emit, Same, writing, TypeOK
<1>5. /\ pc'[t] = "idle" /\ recorded'[t] = recorded[t] /\ pending'[t] = pending[t]
      /\ slice'[t] = slice[t] /\ next'[t] = next[t] /\ next[t] = 0 /\ slice[t] = 0
      /\ slots'[t] = [slots[t] EXCEPT ![1] = Blank(t)] /\ recorded[t] >= 1
  BY <1>1, <1>2 DEF Emit, TypeOK, Shape, InCall
<1>6. Length(t)' = 0 /\ Length(t) = 0 /\ Gone(t)' = 0 /\ Gone(t) = 0
  BY <1>1, <1>3, <1>5 DEF Length, Gone
<1>7. Held(t) = 0 /\ Held(t)' = 0
  BY <1>1, <1>3, <1>5, <1>6 DEF Held, Stored
<1>8. Completed(t)' = recorded[t] /\ Completed(t) = recorded[t] - 1 /\ recorded[t] \in Nat
  BY <1>1, <1>2, <1>5 DEF Completed, InCall, TypeOK
<1>9. Written(t) = recorded[t] - 1 /\ Written(t)' = Written(t) + 1 /\ Written(t) \in Nat
  BY <1>5, <1>6, <1>7, <1>8 DEF Written
<1>10. Len(slots'[t]) = Len(slots[t])
  <2>1. slots[t] \in Seq(Event)
    BY <1>2 DEF TypeOK
  <2> QED
    BY <1>5, <2>1
<1>11. Shape(t)'
  BY <1>1, <1>2, <1>3, <1>5, <1>6, <1>7, <1>10 DEF Shape, InCall
<1>12. Contents(t)'
  BY <1>5, <1>6, <1>7, <1>9 DEF Contents
<1>13. file' = Append(file, Call(t, Written(t) + 1))
  <2>1. slots[t][1] = Call(t, recorded[t]) /\ ~Deleted
    BY <1>1, <1>2 DEF Contents, Deleted
  <2> QED
    BY <1>8, <1>9, <2>1 DEF Emit, Log
<1>14. \A u \in Threads \ {t} : Shape(u)' /\ Contents(u)' /\ Written(u)' = Written(u)
  BY <1>4, Frame DEF BufferInv
<1>15. \A u \in Threads : Written(u) \in Nat
  <2> TAKE u \in Threads
  <2>1. Written(u) \in Int
    BY <1>2, Types
  <2>2. Contents(u)
    BY DEF BufferInv
  <2> QED
    BY <2>1, <2>2 DEF Contents
<1>16. FileInv'
  <2>1. main' = main /\ main \notin {"delete", "stored"} /\ file \in Seq(Event)
    BY <1>1, <1>2 DEF TypeOK
  <2> QED
    BY <1>2, <1>9, <1>13, <1>14, <1>15, <2>1, FileAppend
<1>17. Phases'
  BY <1>1, <1>3, <1>4 DEF BufferInv, Phases, Same
<1> QED
  BY <1>11, <1>12, <1>14, <1>16, <1>17 DEF BufferInv

LEMMA LogNextKeeps ==
  ASSUME BufferInv, LockInv', LogNext, NEW t \in Threads, target = t
  PROVE  BufferInv'
<1> DEFINE k == cursor + 1
<1>1. ~LoopDone /\ target' = t /\ cursor' = k /\ main' = main
  BY DEF LogNext, BufferInv, LockInv, TypeInv, TypeOK
<1>2. TypeOK /\ TypeOK' /\ Shape(t) /\ Contents(t) /\ FileInv
  BY <1>1 DEF BufferInv, LockInv, TypeInv
<1>3. /\ lock # NoOne /\ pc[t] \in {"spilling", "exiting", "idle"}
      /\ (pc[t] = "spilling" => ~finalized[t])
      /\ main \in {"run", "write"}
  <2>1. lock \in Threads \/ main = "write"
    BY <1>1 DEF BufferInv, LockInv, LockDiscipline
  <2>2. CASE lock \in Threads
    <3>1. lock = t /\ pc[t] \in {"spilling", "exiting"} /\ main \notin {"walk", "write"}
      BY <1>1, <2>2 DEF BufferInv, LockInv, LockDiscipline
    <3>2. main = "run"
      BY <3>1, <1>1 DEF BufferInv, Phases, Parked
    <3>3. pc[t] = "spilling" => ~finalized[t]
      BY <3>1, <3>2, <1>1 DEF BufferInv, Phases
    <3> QED
      BY <2>2, <3>1, <3>2, <3>3
  <2>3. CASE main = "write"
    <3>1. pc[t] \in {"unborn", "idle", "exited"} /\ lock = Exiter
      BY <2>3, <1>1 DEF BufferInv, Phases, Parked, LockInv, LockDiscipline
    <3>2. pc[t] \notin {"unborn", "exited"}
      BY <2>3, <1>1 DEF BufferInv, LockInv, Membership, BeingFinalized
    <3> QED
      BY <2>3, <3>1, <3>2
  <2> QED
    BY <2>1, <2>2, <2>3
<1>4. \A u \in Threads \ {t} : Same(u)
  BY <1>1, <1>2 DEF LogNext, Same, TypeOK
<1>5. /\ pc' = pc /\ recorded' = recorded /\ pending' = pending /\ slice' = slice
      /\ next' = next /\ flushed' = flushed /\ finalized' = finalized
  BY DEF LogNext
<1>6. Length(t)' = Length(t) /\ Length(t) \in Nat /\ cursor \in Nat /\ k <= Length(t)
  BY <1>1, <1>2, <1>5, LengthType DEF Length, LoopDone, TypeOK
<1>7. Held(t) = Length(t) /\ Held(t)' = Length(t) /\ Gone(t) = cursor /\ Gone(t)' = k
  BY <1>1, <1>3, <1>5, <1>6 DEF Held, Stored, Gone
<1>8. Completed(t)' = Completed(t) /\ Completed(t) \in Int
  BY <1>1, <1>2, <1>5 DEF Completed, InCall, TypeOK
<1>9. Written(t)' = Written(t) + 1 /\ Written(t) = Completed(t) - Length(t) + cursor
  BY <1>1, <1>6, <1>7, <1>8 DEF Written
<1>10. k \in DOMAIN slots[t] /\ slots[t][k] = Call(t, Written(t) + 1)
  <2>1. k \in (Gone(t) + 1)..Held(t) /\ Completed(t) - Held(t) + k = Written(t) + 1
    BY <1>6, <1>7, <1>8, <1>9
  <2> QED
    BY <1>2, <2>1 DEF Contents
<1>11. slots' = [slots EXCEPT ![t] = [slots[t] EXCEPT ![k] = Blank(t)]]
  BY <1>1, <1>10 DEF LogNext
<1>12. /\ Len(slots'[t]) = Len(slots[t])
       /\ \A j \in DOMAIN slots[t] : j # k => j \in DOMAIN slots'[t] /\ slots'[t][j] = slots[t][j]
  <2>1. slots[t] \in Seq(Event) /\ slots'[t] = [slots[t] EXCEPT ![k] = Blank(t)]
    BY <1>1, <1>2, <1>11 DEF TypeOK
  <2> QED
    BY <2>1, <1>10
<1>13. Shape(t)'
  BY <1>1, <1>2, <1>3, <1>5, <1>6, <1>7, <1>12 DEF Shape, InCall
<1>14. Contents(t)'
  <2>1. ASSUME NEW j \in (Gone(t)' + 1)..Held(t)'
        PROVE  j \in DOMAIN slots'[t] /\ slots'[t][j] = Call(t, Completed(t)' - Held(t)' + j)
    <3>1. j \in (Gone(t) + 1)..Held(t) /\ j # k
      BY <1>6, <1>7
    <3>2. j \in DOMAIN slots[t] /\ slots[t][j] = Call(t, Completed(t) - Held(t) + j)
      BY <1>2, <3>1 DEF Contents
    <3> QED
      BY <3>1, <3>2, <1>7, <1>8, <1>12
  <2>2. Written(t)' >= 0
    BY <1>2, <1>6, <1>8, <1>9 DEF Contents
  <2> QED
    BY <1>1, <1>3, <1>5, <2>1, <2>2 DEF Contents, Call
<1>15. file' = Append(file, Call(t, Written(t) + 1))
  BY <1>1, <1>3, <1>10 DEF LogNext, Log, Deleted
<1>16. \A u \in Threads \ {t} : Shape(u)' /\ Contents(u)' /\ Written(u)' = Written(u)
  BY <1>4, Frame DEF BufferInv
<1>17. \A u \in Threads : Written(u) \in Nat
  <2> TAKE u \in Threads
  <2>1. Written(u) \in Int
    BY <1>2, Types
  <2>2. Contents(u)
    BY DEF BufferInv
  <2> QED
    BY <2>1, <2>2 DEF Contents
<1>18. FileInv'
  <2>1. main \notin {"delete", "stored"} /\ file \in Seq(Event)
    BY <1>2, <1>3 DEF TypeOK
  <2> QED
    BY <1>1, <1>2, <1>9, <1>15, <1>16, <1>17, <2>1, FileAppend
<1>19. Phases'
  BY <1>1, <1>5 DEF BufferInv, Phases, Parked, LogNext
<1> QED
  BY <1>1, <1>13, <1>14, <1>16, <1>18, <1>19 DEF BufferInv

\* A step of ~ChromeLogger that touches the buffer of one thread.
LEMMA VisitStep ==
  ASSUME BufferInv, LockInv', Phases', NEW t \in Threads,
         file' = file, main \notin {"delete", "stored"}, main' \notin {"delete", "stored"},
         \A u \in Threads \ {t} : Same(u),
         Shape(t)', Contents(t)', Written(t)' = Written(t)
  PROVE  BufferInv'
<1>1. \A u \in Threads \ {t} : Shape(u)' /\ Contents(u)' /\ Written(u)' = Written(u)
  BY Frame DEF BufferInv
<1>2. FileInv'
  <2>1. \A u \in Threads : Written(u)' = Written(u)
    BY <1>1
  <2>2. FileInv /\ (main' \in {"delete", "stored"} <=> main \in {"delete", "stored"})
    BY DEF BufferInv
  <2> QED
    BY <2>1, <2>2, FileFrame
<1> QED
  BY <1>1, <1>2 DEF BufferInv

\* A step of ~ChromeLogger that touches no buffer and writes nothing.
LEMMA MainStep ==
  ASSUME BufferInv, LockInv', Phases', file' = file,
         main' \in {"delete", "stored"} <=> main \in {"delete", "stored"},
         \A u \in Threads : Same(u)
  PROVE  BufferInv'
<1>1. \A u \in Threads : Shape(u)' /\ Contents(u)' /\ Written(u)' = Written(u)
  BY Frame DEF BufferInv
<1>2. FileInv'
  <2>1. FileInv /\ \A u \in Threads : Written(u)' = Written(u)
    BY <1>1 DEF BufferInv
  <2> QED
    BY <2>1, FileFrame
<1> QED
  BY <1>1, <1>2 DEF BufferInv

LEMMA VisitFlushedKeeps ==
  ASSUME BufferInv, LockInv', NEW t \in Threads, VisitFlushed(t)
  PROVE  BufferInv'
<1>1. /\ main = "walk" /\ main' = main /\ file' = file /\ target' = target
      /\ t \in registered /\ (finalized[t] \/ flushed[t])
  BY DEF VisitFlushed, writing
<1>2. TypeOK /\ TypeOK' /\ Shape(t) /\ Contents(t)
  BY DEF BufferInv, LockInv, TypeInv
<1>3. target = NoOne /\ target # t /\ pc[t] = "idle" /\ ~finalized[t] /\ flushed[t]
  <2>1. lock = Exiter /\ target = NoOne
    BY <1>1 DEF BufferInv, LockInv, LockDiscipline
  <2>2. Parked(t)
    BY <1>1 DEF BufferInv, Phases
  <2>3. ~BeingFinalized(t)
    BY <1>1, <2>2 DEF BeingFinalized, Parked
  <2>4. pc[t] \notin {"unborn", "exited"} /\ ~finalized[t]
    BY <1>1, <2>3 DEF BufferInv, LockInv, Membership
  <2> QED
    BY <1>1, <2>1, <2>2, <2>4 DEF Parked
<1>4. \A u \in Threads \ {t} : Same(u)
  BY <1>2 DEF VisitFlushed, Same, writing, TypeOK
<1>5. /\ pc' = pc /\ recorded' = recorded /\ finalized'[t] = TRUE /\ pending' = pending
      /\ slice' = slice /\ next' = next /\ slots' = slots /\ flushed' = flushed
  BY <1>2 DEF VisitFlushed, TypeOK
<1>6. Gone(t)' = 0 /\ Gone(t) = 0 /\ Length(t)' = Length(t)
  BY <1>1, <1>3, <1>5 DEF Gone, Length
<1>7. Held(t) = 0 /\ Held(t)' = 0
  BY <1>1, <1>2, <1>3, <1>5 DEF Held, Shape
<1>8. Completed(t)' = Completed(t)
  BY <1>5 DEF Completed, InCall
<1>9. Written(t)' = Written(t)
  BY <1>6, <1>7, <1>8 DEF Written
<1>10. Shape(t)'
  BY <1>1, <1>2, <1>3, <1>5, <1>7 DEF Shape, InCall
<1>11. Contents(t)'
  BY <1>2, <1>3, <1>5, <1>6, <1>7, <1>9 DEF Contents
<1>12. Phases'
  BY <1>1, <1>5 DEF BufferInv, Phases, Parked
<1> QED
  BY <1>1, <1>4, <1>9, <1>10, <1>11, <1>12, VisitStep

LEMMA VisitBeginKeeps ==
  ASSUME BufferInv, LockInv', NEW t \in Threads, VisitBegin(t)
  PROVE  BufferInv'
<1>1. /\ main = "walk" /\ main' = "write" /\ file' = file /\ target' = t /\ cursor' = 0
      /\ t \in registered /\ ~finalized[t] /\ ~flushed[t]
  BY DEF VisitBegin, StartLoop
<1>2. TypeOK /\ TypeOK' /\ Shape(t) /\ Contents(t)
  BY DEF BufferInv, LockInv, TypeInv
<1>3. target = NoOne /\ target # t /\ pc[t] = "idle"
  <2>1. lock = Exiter /\ target = NoOne
    BY <1>1 DEF BufferInv, LockInv, LockDiscipline
  <2>2. Parked(t)
    BY <1>1 DEF BufferInv, Phases
  <2>3. ~BeingFinalized(t)
    BY <1>1, <2>2 DEF BeingFinalized, Parked
  <2>4. pc[t] \notin {"unborn", "exited"}
    BY <1>1, <2>3 DEF BufferInv, LockInv, Membership
  <2> QED
    BY <1>1, <2>1, <2>2, <2>4 DEF Parked
<1>4. \A u \in Threads \ {t} : Same(u)
  BY <1>1, <1>2, <1>3 DEF VisitBegin, Same, TypeOK
<1>5. /\ pc' = pc /\ recorded' = recorded /\ finalized'[t] = TRUE /\ pending' = pending
      /\ slice' = slice /\ next' = next /\ slots' = slots /\ flushed' = flushed
  BY <1>2 DEF VisitBegin, TypeOK
<1>6. Length(t)' = Length(t) /\ Gone(t)' = 0 /\ Gone(t) = 0
  BY <1>1, <1>3, <1>5 DEF Gone, Length
<1>7. Held(t) = Length(t) /\ Held(t)' = Length(t)
  BY <1>1, <1>3, <1>5, <1>6 DEF Held, Stored
<1>8. Completed(t)' = Completed(t)
  BY <1>5 DEF Completed, InCall
<1>9. Written(t)' = Written(t)
  BY <1>6, <1>7, <1>8 DEF Written
<1>10. Shape(t)'
  BY <1>1, <1>2, <1>3, <1>5, <1>6, <1>7, Types DEF Shape, InCall
<1>11. Contents(t)'
  BY <1>2, <1>3, <1>5, <1>6, <1>7, <1>8, <1>9 DEF Contents
<1>12. Phases'
  BY <1>1, <1>5 DEF BufferInv, Phases, Parked
<1> QED
  BY <1>1, <1>4, <1>9, <1>10, <1>11, <1>12, VisitStep

LEMMA VisitEndKeeps ==
  ASSUME BufferInv, LockInv', NEW t \in Threads, target = t, VisitEnd
  PROVE  BufferInv'
<1>1. /\ main = "write" /\ main' = "walk" /\ file' = file /\ target' = NoOne /\ LoopDone
      /\ finalized' = finalized
  BY DEF VisitEnd, StopLoop
<1>2. TypeOK /\ TypeOK' /\ Shape(t) /\ Contents(t)
  BY DEF BufferInv, LockInv, TypeInv
<1>3. finalized[t] /\ pc[t] = "idle"
  <2>1. Parked(t)
    BY <1>1 DEF BufferInv, Phases
  <2>2. pc[t] \notin {"unborn", "exited"} /\ finalized[t]
    BY <1>1 DEF BufferInv, LockInv, Membership, BeingFinalized
  <2> QED
    BY <2>1, <2>2 DEF Parked
<1>4. \A u \in Threads \ {t} : Same(u)
  BY <1>1, <1>2 DEF VisitEnd, Same, TypeOK
<1>5. /\ pc' = pc /\ recorded' = recorded /\ finalized' = finalized /\ pending' = pending
      /\ slice' = slice /\ next' = next /\ slots' = slots
  BY <1>2 DEF VisitEnd, TypeOK
<1>6. Gone(t)' = 0 /\ Gone(t) = Length(t) /\ Length(t) \in Nat
  <2>1. Length(t) \in Nat /\ cursor \in Nat
    BY <1>2, LengthType DEF TypeOK
  <2>2. cursor <= Length(t) /\ cursor >= Length(t)
    BY <1>1, <1>2 DEF LoopDone, Shape
  <2>3. Gone(t) = cursor /\ Gone(t)' = 0
    BY <1>1 DEF Gone
  <2> QED
    BY <2>1, <2>2, <2>3
<1>7. Held(t) = Length(t) /\ Held(t)' = 0
  BY <1>1, <1>3, <1>5 DEF Held, Stored
<1>8. Completed(t)' = Completed(t) /\ Completed(t) \in Int
  BY <1>2, <1>5 DEF Completed, InCall, TypeOK
<1>9. Written(t)' = Written(t)
  BY <1>6, <1>7, <1>8 DEF Written
<1>10. Shape(t)'
  BY <1>1, <1>2, <1>3, <1>5, <1>7 DEF Shape, InCall
<1>11. Contents(t)'
  BY <1>2, <1>3, <1>5, <1>6, <1>7, <1>9 DEF Contents
<1>12. Phases'
  BY <1>1, <1>5 DEF BufferInv, Phases, Parked
<1> QED
  BY <1>1, <1>4, <1>9, <1>10, <1>11, <1>12, VisitStep

LEMMA LogFooterKeeps ==
  ASSUME BufferInv, LockInv', LogFooter
  PROVE  BufferInv'
<1>1. main = "footer" /\ main' = "delete" /\ file' = Append(file, Footer)
  BY DEF LogFooter, Log, Deleted
<1>2. TypeOK /\ FileInv
  BY DEF BufferInv, LockInv, TypeInv
<1>3. \A u \in Threads : Same(u)
  BY DEF LogFooter, Same, buffers, writing
<1>4. \A u \in Threads : Shape(u)' /\ Contents(u)' /\ Written(u)' = Written(u)
  BY <1>3, Frame DEF BufferInv
<1>5. /\ DOMAIN file' = 1..(Len(file) + 1) /\ DOMAIN file = 1..Len(file) /\ Len(file) \in Nat
      /\ Len(file') = Len(file) + 1 /\ file'[Len(file) + 1] = Footer
      /\ \A i \in 1..Len(file) : file'[i] = file[i]
  BY <1>1, <1>2 DEF TypeOK
<1>6. \A i \in DOMAIN file : \E u \in Threads : \E n \in 1..Written(u) : file[i] = Call(u, n)
  BY <1>1, <1>2 DEF FileInv
<1>7. \A u, n : Call(u, n).thread = u
  BY DEF Call
<1>8. \A i \in DOMAIN file' :
        \/ \E u \in Threads : \E n \in 1..Written(u)' : file'[i] = Call(u, n)
        \/ file'[i] = Footer /\ i = Len(file')
  <2> TAKE i \in DOMAIN file'
  <2>1. CASE i = Len(file) + 1
    BY <2>1, <1>5
  <2>2. CASE i # Len(file) + 1
    <3>1. i \in DOMAIN file /\ file'[i] = file[i]
      BY <2>2, <1>5
    <3> QED
      BY <3>1, <1>4, <1>6
  <2> QED
    BY <2>1, <2>2
<1>9. \A u \in Threads : \A n \in 1..Written(u)' : InFile(Call(u, n))'
  <2> SUFFICES ASSUME NEW u \in Threads, NEW n \in 1..Written(u)' PROVE InFile(Call(u, n))'
    OBVIOUS
  <2>1. PICK i \in DOMAIN file : file[i] = Call(u, n)
    BY <1>2, <1>4 DEF FileInv, InFile
  <2>2. i \in DOMAIN file' /\ file'[i] = Call(u, n)
    BY <2>1, <1>5
  <2> QED
    BY <2>2 DEF InFile, Call
<1>10. \A i, j \in DOMAIN file' :
         i < j /\ file'[i].thread = file'[j].thread => file'[i].call < file'[j].call
  <2> SUFFICES ASSUME NEW i \in DOMAIN file', NEW j \in DOMAIN file',
                      i < j, file'[i].thread = file'[j].thread
               PROVE  file'[i].call < file'[j].call
    OBVIOUS
  <2>1. i \in DOMAIN file /\ file'[i] = file[i]
    BY <1>5
  <2>2. CASE j \in DOMAIN file
    BY <2>1, <2>2, <1>2, <1>5 DEF FileInv
  <2>3. CASE j \notin DOMAIN file
    <3>1. file'[j] = Footer
      BY <2>3, <1>5
    <3>2. file'[i].thread = Exiter
      BY <3>1 DEF Footer, Call
    <3>3. file[i].thread \in Threads
      BY <2>1, <1>6, <1>7
    <3> QED
      BY <2>1, <3>2, <3>3
  <2> QED
    BY <2>2, <2>3
<1>11. FileInv'
  <2>1. \A i \in DOMAIN file' :
          \/ \E u \in Threads : \E n \in 1..Written(u)' : file'[i] = Call(u, n)'
          \/ file'[i] = Footer' /\ i = Len(file') /\ main' \in {"delete", "stored"}
    BY <1>1, <1>8 DEF Call, Footer
  <2> QED
    BY <2>1, <1>9, <1>10 DEF FileInv
<1>12. Phases'
  BY <1>1 DEF BufferInv, Phases, Parked, LogFooter, buffers
<1> QED
  BY <1>4, <1>11, <1>12 DEF BufferInv

(***************************************************************************)
(* The invariant itself.                                                   *)
(***************************************************************************)
LEMMA BufferInvInit == Init => BufferInv
<1> SUFFICES ASSUME Init PROVE BufferInv
  OBVIOUS
<1>1. LockInv
  BY LockInvInit
<1>2. Phases
  BY DEF Init, Phases
<1>3. ASSUME NEW t \in Threads
      PROVE  Shape(t) /\ Contents(t) /\ Written(t) = 0
  <2>1. /\ pc[t] = "unborn" /\ pending[t] = {} /\ recorded[t] = 0 /\ ~finalized[t] /\ ~flushed[t]
        /\ slice[t] = 0 /\ next[t] = 0 /\ target # t
    BY DEF Init
  <2>2. Length(t) = 0 /\ Gone(t) = 0 /\ Completed(t) = 0
    BY <2>1 DEF Length, Gone, Completed, InCall
  <2>3. Held(t) = 0
    BY <2>1, <2>2 DEF Held, Stored
  <2>4. Written(t) = 0
    BY <2>2, <2>3 DEF Written
  <2>5. Shape(t)
    BY <2>1 DEF Shape, InCall
  <2> QED
    BY <2>1, <2>2, <2>3, <2>4, <2>5 DEF Contents
<1>4. FileInv
  BY <1>3 DEF Init, FileInv
<1> QED
  BY <1>1, <1>2, <1>3, <1>4 DEF BufferInv

LEMMA BufferInvNext == Quiescent /\ BufferInv /\ [Next]_vars => BufferInv'
<1> SUFFICES ASSUME Quiescent, BufferInv, [Next]_vars PROVE BufferInv'
  OBVIOUS
<1>0. LockInv'
  BY LockInvNext DEF BufferInv
<1>1. CASE LogNext
  <2>1. target \in Threads
    BY <1>1 DEF LogNext, BufferInv, LockInv, TypeInv, TypeOK
  <2>2. PICK t \in Threads : target = t
    BY <2>1
  <2> QED
    BY <1>0, <1>1, <2>2, LogNextKeeps
<1>2. ASSUME NEW t \in Threads, EnterStep(t) PROVE BufferInv'
  <2>1. CASE Construct(t)
    BY <1>0, <2>1, ConstructKeeps
  <2>2. CASE BeginCall(t)
    BY <1>0, <2>2, BeginCallKeeps
  <2>3. CASE ExitFinalized(t)
    BY <1>0, <2>3, ExitFinalizedKeeps
  <2>4. CASE ExitFlushed(t)
    BY <1>0, <2>4, ExitFlushedKeeps
  <2>5. CASE ExitBegin(t)
    BY <1>0, <2>5, ExitBeginKeeps
  <2> QED
    BY <1>2, <2>1, <2>2, <2>3, <2>4, <2>5 DEF EnterStep
<1>3. ASSUME NEW t \in Threads, InCallStep(t) PROVE BufferInv'
  <2>1. CASE GetFree(t)
    BY <1>0, <2>1, GetFreeKeeps
  <2>2. CASE GetGrow(t)
    BY <1>0, <2>2, GetGrowKeeps
  <2>3. CASE GrowSlice(t)
    BY <1>0, <2>3, GrowSliceKeeps
  <2>4. CASE GrowNext(t)
    BY <1>0, <2>4, GrowNextKeeps
  <2>5. CASE GrowEnd(t)
    BY <1>0, <2>5, GrowEndKeeps
  <2>6. CASE GetSpill(t)
    BY <1>0, <2>6, GetSpillKeeps
  <2>7. CASE SpillNothing(t)
    BY <1>0, <2>7, SpillNothingKeeps
  <2>8. CASE SpillBegin(t)
    BY <1>0, <2>8, SpillBeginKeeps
  <2>9. CASE SpillEnd(t)
    BY <1>0, <2>9, SpillEndKeeps
  <2>10. CASE FillRecord(t)
    BY <1>0, <2>10, FillRecordKeeps
  <2>11. CASE PublishIndex(t)
    BY <1>0, <2>11, PublishIndexKeeps
  <2>12. CASE PublishFlag(t)
    BY <1>0, <2>12, PublishFlagKeeps
  <2>13. CASE EndCall(t)
    BY <1>0, <2>13, EndCallKeeps
  <2>14. CASE Emit(t)
    BY <1>0, <2>14, EmitKeeps
  <2>15. CASE ExitEnd(t)
    BY <1>0, <2>15, ExitEndKeeps
  <2> QED
    BY <1>3, <2>1, <2>2, <2>3, <2>4, <2>5, <2>6, <2>7, <2>8, <2>9, <2>10, <2>11, <2>12, <2>13, <2>14, <2>15 DEF InCallStep
<1>4. CASE BeginTeardown
  <2>1. \A u \in Threads : Same(u)
    BY <1>4 DEF BeginTeardown, Same, buffers, writing
  <2>2. file' = file /\ (main' \in {"delete", "stored"} <=> main \in {"delete", "stored"})
    BY <1>4 DEF BeginTeardown
  <2>3. Phases'
    BY <1>4 DEF BeginTeardown, BufferInv, Phases, Parked, buffers
  <2> QED
    BY <1>0, <2>1, <2>2, <2>3, MainStep
<1>5. CASE TeardownStep
  <2>1. CASE LockAll
    <3>1. \A u \in Threads : Same(u)
      BY <2>1 DEF LockAll, Same, buffers, writing, Acquire
    <3>2. file' = file /\ (main' \in {"delete", "stored"} <=> main \in {"delete", "stored"})
      BY <2>1 DEF LockAll
    <3>3. Phases'
      BY <2>1 DEF LockAll, BufferInv, Phases, Parked, buffers, Acquire
    <3> QED
      BY <1>0, <3>1, <3>2, <3>3, MainStep
  <2>2. ASSUME NEW t \in Threads, VisitFlushed(t) PROVE BufferInv'
    BY <1>0, <2>2, VisitFlushedKeeps
  <2>3. ASSUME NEW t \in Threads, VisitBegin(t) PROVE BufferInv'
    BY <1>0, <2>3, VisitBeginKeeps
  <2>4. CASE VisitEnd
    <3>1. target \in Threads
      BY <2>4 DEF VisitEnd, BufferInv, LockInv, LockDiscipline, TypeInv, TypeOK
    <3>2. PICK t \in Threads : target = t
      BY <3>1
    <3> QED
      BY <1>0, <2>4, <3>2, VisitEndKeeps
  <2>5. CASE UnlockAll
    <3>1. \A u \in Threads : Same(u)
      BY <2>5 DEF UnlockAll, Same, buffers, writing
    <3>2. file' = file /\ (main' \in {"delete", "stored"} <=> main \in {"delete", "stored"})
      BY <2>5 DEF UnlockAll
    <3>3. Phases'
      BY <2>5 DEF UnlockAll, BufferInv, Phases, Parked, buffers
    <3> QED
      BY <1>0, <3>1, <3>2, <3>3, MainStep
  <2>6. CASE CheckPosition
    <3>1. \A u \in Threads : Same(u)
      BY <2>6 DEF CheckPosition, Same, buffers, writing
    <3>2. file' = file /\ (main' \in {"delete", "stored"} <=> main \in {"delete", "stored"})
      BY <2>6 DEF CheckPosition
    <3>3. Phases'
      BY <2>6 DEF CheckPosition, BufferInv, Phases, Parked, buffers
    <3> QED
      BY <1>0, <3>1, <3>2, <3>3, MainStep
  <2>7. CASE LogFooter
    BY <1>0, <2>7, LogFooterKeeps
  <2>8. CASE DeleteLogger
    <3>1. \A u \in Threads : Same(u)
      BY <2>8 DEF DeleteLogger, Same, buffers, writing
    <3>2. file' = file /\ (main' \in {"delete", "stored"} <=> main \in {"delete", "stored"})
      BY <2>8 DEF DeleteLogger
    <3>3. Phases'
      BY <2>8 DEF DeleteLogger, BufferInv, Phases, Parked, buffers
    <3> QED
      BY <1>0, <3>1, <3>2, <3>3, MainStep
  <2>9. CASE RemoveFile
    <3>1. \A u \in Threads : Same(u)
      BY <2>9 DEF RemoveFile, Same, buffers, writing
    <3>2. file' = file /\ (main' \in {"delete", "stored"} <=> main \in {"delete", "stored"})
      BY <2>9 DEF RemoveFile
    <3>3. Phases'
      BY <2>9 DEF RemoveFile, BufferInv, Phases, Parked, buffers
    <3> QED
      BY <1>0, <3>1, <3>2, <3>3, MainStep
  <2> QED
    BY <1>5, <2>1, <2>2, <2>3, <2>4, <2>5, <2>6, <2>7, <2>8, <2>9 DEF TeardownStep
<1>6. CASE UNCHANGED vars
  <2>1. \A u \in Threads : Same(u)
    BY <1>6 DEF vars, Same, buffers, writing
  <2>2. file' = file /\ (main' \in {"delete", "stored"} <=> main \in {"delete", "stored"})
    BY <1>6 DEF vars
  <2>3. Phases'
    BY <1>6 DEF vars, BufferInv, Phases, Parked, buffers
  <2> QED
    BY <1>0, <2>1, <2>2, <2>3, MainStep
<1> QED
  BY <1>1, <1>2, <1>3, <1>4, <1>5, <1>6 DEF Next

LEMMA BufferInvHolds == ASSUME Quiescent PROVE Spec => []BufferInv
<1>1. Init => BufferInv
  BY BufferInvInit
<1>2. BufferInv /\ [Next]_vars => BufferInv'
  BY BufferInvNext
<1> QED
  BY <1>1, <1>2, PTL DEF Spec

\* Records are in call order, none twice, none blank, whatever the slice
\* capacity, the buffer mode and the number of threads and calls.
THEOREM FileOrderCorrect == ASSUME Quiescent PROVE Spec => []FileOrder
<1>1. BufferInv => FileOrder
  <2> SUFFICES ASSUME BufferInv PROVE FileOrder
    OBVIOUS
  <2>1. ASSUME NEW i \in DOMAIN file, file[i].thread # Exiter PROVE file[i].call > 0
    <3>1. file[i] # Footer
      BY <2>1 DEF Footer, Call
    <3>2. PICK t \in Threads : \E n \in 1..Written(t) : file[i] = Call(t, n)
      BY <3>1 DEF BufferInv, FileInv
    <3> QED
      BY <3>2 DEF Call
  <2> QED
    BY <2>1 DEF FileOrder, BufferInv, FileInv
<1> QED
  BY <1>1, BufferInvHolds, PTL

LEMMA BufferInvNothingLost == BufferInv => NothingLost
<1> SUFFICES ASSUME BufferInv, Closing, NEW t \in Threads, NEW n \in 1..recorded[t]
             PROVE  InFile(Call(t, n))
  BY DEF NothingLost
<1>1. Parked(t) /\ registered = {} /\ target = NoOne /\ TypeOK /\ Shape(t)
  <2>1. \A u \in Threads : Parked(u)
    BY DEF Closing, BufferInv, Phases
  <2>2. lock \notin Threads
    BY <2>1 DEF Parked, BufferInv, LockInv, LockDiscipline
  <2>3. registered = {} /\ target = NoOne
    BY <2>2 DEF Closing, BufferInv, Phases, LockInv, LockDiscipline
  <2> QED
    BY <2>1, <2>3 DEF BufferInv, LockInv, TypeInv
<1>2. finalized[t] \/ pc[t] = "unborn"
  BY <1>1 DEF BufferInv, LockInv, Membership, BeingFinalized, Parked, Shape
<1>3. Held(t) = 0 /\ Gone(t) = 0
  BY <1>1, <1>2 DEF Held, Stored, Gone, Shape, Length
<1>4. Completed(t) = recorded[t] /\ recorded[t] \in Nat
  BY <1>1 DEF Completed, InCall, Parked, TypeOK
<1>5. Written(t) = recorded[t]
  BY <1>3, <1>4 DEF Written
<1> QED
  BY <1>5 DEF BufferInv, FileInv

\* Once the teardown has decided how to close the file, every call a thread
\* made is in it.
THEOREM NothingLostCorrect == ASSUME Quiescent PROVE Spec => []NothingLost
BY BufferInvNothingLost, BufferInvHolds, PTL

\* The slot a call fills is one the buffer owns.
THEOREM SlotInSliceCorrect == ASSUME Quiescent PROVE Spec => []SlotInSlice
<1>1. BufferInv => SlotInSlice
  <2> SUFFICES ASSUME BufferInv, NEW t \in Threads, pc[t] = "fill"
               PROVE  Slot(t) \in DOMAIN slots[t]
    BY DEF SlotInSlice
  <2>1. TypeOK /\ Shape(t)
    BY DEF BufferInv, LockInv, TypeInv
  <2>2. /\ Len(slots[t]) = slice[t] * SliceCapacity[t] + SliceCapacity[t]
        /\ "index" \in pending[t] \/ FlushImmediately[t] => next[t] < SliceCapacity[t]
        /\ ~("index" \in pending[t] \/ FlushImmediately[t]) => next[t] >= 1
        /\ next[t] <= SliceCapacity[t]
    BY <2>1 DEF Shape
  <2>3. Slot(t) = IF "index" \in pending[t] \/ FlushImmediately[t] THEN Length(t) + 1 ELSE Length(t)
    BY DEF Slot
  <2>4. /\ slice[t] * SliceCapacity[t] \in Nat /\ next[t] \in Nat /\ Len(slots[t]) \in Nat
        /\ Length(t) = slice[t] * SliceCapacity[t] + next[t]
    BY <2>1, LengthType, Types DEF Length
  <2>5. Slot(t) \in 1..Len(slots[t])
    BY <2>2, <2>3, <2>4
  <2>6. slots[t] \in Seq(Event)
    BY <2>1 DEF TypeOK
  <2> QED
    BY <2>5, <2>6
<1> QED
  BY <1>1, BufferInvHolds, PTL

(***************************************************************************)
(* Refinement: TraceBuffer implements TraceFile.                           *)
(***************************************************************************)
\* While records can be written, ~ChromeLogger is not past the lock.
LEMMA WritersRun ==
  ASSUME Quiescent, BufferInv,
         LogNext \/ \E t \in Threads : EnterStep(t) \/ InCallStep(t)
  PROVE  main \in {"run", "write"}
<1>1. CASE LogNext
  <2>1. lock \in Threads \/ main = "write"
    BY <1>1 DEF LogNext, BufferInv, LockInv, LockDiscipline
  <2>2. lock \in Threads => ~Parked(lock)
    BY DEF BufferInv, LockInv, LockDiscipline, Parked
  <2> QED
    BY <2>1, <2>2 DEF BufferInv, Phases
<1>2. ASSUME NEW t \in Threads, EnterStep(t) PROVE main = "run"
  BY <1>2 DEF EnterStep, Construct, BeginCall, ExitFinalized, ExitFlushed, ExitBegin, MayEnter
<1>3. ASSUME NEW t \in Threads, InCallStep(t) PROVE main = "run"
  <2>1. ~Parked(t)
    BY <1>3 DEF InCallStep, GetFree, GetGrow, GrowSlice, GrowNext, GrowEnd, GetSpill,
                SpillNothing, SpillBegin, SpillEnd, FillRecord, PublishIndex, PublishFlag,
                EndCall, Emit, ExitEnd, Parked
  <2> QED
    BY <2>1, InCallRuns
<1> QED
  BY <1>1, <1>2, <1>3

LEMMA PositionNext ==
  ASSUME Quiescent, BufferInv, Position, [Next]_vars
  PROVE  Position'
<1>1. CASE LogNext \/ \E t \in Threads : EnterStep(t) \/ InCallStep(t)
  <2>1. main \in {"run", "write"}
    BY <1>1, WritersRun
  <2>2. main' = main
    BY <1>1 DEF LogNext, EnterStep, Construct, BeginCall, ExitFinalized, ExitFlushed, ExitBegin,
                InCallStep, GetFree, GetGrow, GrowSlice, GrowNext, GrowEnd, GetSpill,
                SpillNothing, SpillBegin, SpillEnd, FillRecord, PublishIndex, PublishFlag,
                EndCall, Emit, ExitEnd
  <2> QED
    BY <2>1, <2>2 DEF Position
<1>2. CASE BeginTeardown
  BY <1>2 DEF BeginTeardown, Position
<1>3. CASE TeardownStep
  BY <1>3 DEF TeardownStep, LockAll, VisitFlushed, VisitBegin, VisitEnd, UnlockAll,
              CheckPosition, LogFooter, DeleteLogger, RemoveFile, Position
<1>4. CASE UNCHANGED vars
  BY <1>4 DEF vars, Position
<1> QED
  BY <1>1, <1>2, <1>3, <1>4 DEF Next

\* Writing the oldest unwritten event of a thread is the abstract Write.
LEMMA WriteImplements ==
  ASSUME BufferInv, NEW t \in Threads,
         main \in {"run", "write"}, main' = main, recorded' = recorded,
         Written(t) + 1 <= recorded[t],
         file' = Append(file, Call(t, Written(t) + 1))
  PROVE  Abstract!Write(t)
<1> DEFINE n == Written(t) + 1
<1>1. TypeOK /\ Contents(t) /\ FileInv
  BY DEF BufferInv, LockInv, TypeInv
<1>2. Written(t) \in Nat /\ recorded[t] \in Nat
  BY <1>1, Types DEF Contents
<1>3. n \in 1..recorded[t]
  BY <1>2
<1>4. ~Abstract!InFile(Call(t, n))
  <2> SUFFICES ASSUME NEW i \in DOMAIN file, file[i] = Call(t, n) PROVE FALSE
    BY DEF Abstract!InFile
  <2>1. PICK u \in Threads : \E m \in 1..Written(u) : file[i] = Call(u, m)
    BY <1>1 DEF FileInv
  <2>2. PICK m \in 1..Written(u) : file[i] = Call(u, m)
    BY <2>1
  <2>3. u = t /\ m = n
    BY <2>2 DEF Call
  <2> QED
    BY <2>2, <2>3, <1>2
<1>5. \A m \in 1..(n - 1) : Abstract!InFile(Call(t, m))
  BY <1>1, <1>2 DEF FileInv, InFile, Abstract!InFile
<1>6. \A m : Abstract!Call(t, m) = Call(t, m)
  BY DEF Abstract!Call, Call
<1>7. main \notin {"delete", "stored", "removed"} /\ main' = main
  OBVIOUS
<1> QED
  BY <1>3, <1>4, <1>5, <1>6, <1>7 DEF Abstract!Write

\* Every step is a step of the trace file or changes nothing it shows.
LEMMA StepImplements ==
  ASSUME Quiescent, BufferInv, Position, BufferInv', [Next]_vars
  PROVE  [Abstract!Next]_(Abstract!vars)
<1> DEFINE Stutter == /\ recorded' = recorded /\ file' = file
                      /\ (main \in {"delete", "stored", "removed"})'
                           = (main \in {"delete", "stored", "removed"})
<1>0. Stutter => UNCHANGED Abstract!vars
  BY DEF Abstract!vars
<1>1. CASE LogNext
  <2>1. PICK t \in Threads : target = t
    BY <1>1 DEF LogNext, BufferInv, LockInv, TypeInv, TypeOK
  <2>2. main \in {"run", "write"} /\ main' = main /\ recorded' = recorded
    BY <1>1, WritersRun DEF LogNext
  <2>3. file' = Append(file, Call(t, Written(t) + 1)) /\ Written(t) + 1 <= recorded[t]
    <3>1. TypeOK /\ Shape(t) /\ Contents(t)
      BY DEF BufferInv, LockInv, TypeInv
    <3>2. cursor < Length(t) /\ Length(t) \in Nat /\ cursor \in Nat
      BY <1>1, <2>1, <3>1, LengthType DEF LogNext, LoopDone, TypeOK
    <3>3. pc[t] \notin {"fill", "grow"} /\ (finalized[t] => target = t)
      <4>1. CASE main = "run"
        BY <2>1, <4>1, RunFacts
      <4>2. CASE main = "write"
        BY <2>1, <4>2 DEF BufferInv, Phases, Parked
      <4> QED
        BY <2>1, <2>2, <4>1, <4>2
    <3>4. Held(t) = Length(t) /\ Gone(t) = cursor
      BY <2>1, <3>3 DEF Held, Stored, Gone
    <3>5. Completed(t) \in Int /\ Completed(t) <= recorded[t] /\ recorded[t] \in Nat
      BY <3>1, SMTT(30) DEF Completed, TypeOK
    <3>6. Written(t) = Completed(t) - Length(t) + cursor
      BY <3>4 DEF Written
    <3>7. (cursor + 1) \in (Gone(t) + 1)..Held(t)
          /\ Completed(t) - Held(t) + (cursor + 1) = Written(t) + 1
      BY <3>2, <3>4, <3>5, <3>6
    <3>8. /\ (cursor + 1) \in DOMAIN slots[t]
          /\ slots[t][cursor + 1] = Call(t, Written(t) + 1)
      BY <3>1, <3>7 DEF Contents
    <3>9. file' = Append(file, slots[t][cursor + 1])
      BY <1>1, <2>1, <2>2, <3>8 DEF LogNext, Log, Deleted
    <3> QED
      BY <3>2, <3>5, <3>6, <3>8, <3>9
  <2>4. Abstract!Write(t)
    BY <2>2, <2>3, WriteImplements
  <2> QED
    BY <2>4 DEF Abstract!Next
<1>2. ASSUME NEW t \in Threads, EnterStep(t) PROVE [Abstract!Next]_(Abstract!vars)
  <2>1. CASE BeginCall(t)
    <3>1. main = "run" /\ main' = main /\ file' = file
          /\ recorded' = [recorded EXCEPT ![t] = @ + 1]
      BY <2>1 DEF BeginCall, MayEnter
    <3>2. Abstract!Record(t)
      BY <3>1 DEF Abstract!Record
    <3> QED
      BY <3>2 DEF Abstract!Next
  <2>2. CASE Construct(t) \/ ExitFinalized(t) \/ ExitFlushed(t) \/ ExitBegin(t)
    <3>1. Stutter
      BY <2>2 DEF Construct, ExitFinalized, ExitFlushed, ExitBegin
    <3> QED
      BY <1>0, <3>1
  <2> QED
    BY <1>2, <2>1, <2>2 DEF EnterStep
<1>3. ASSUME NEW t \in Threads, InCallStep(t) PROVE [Abstract!Next]_(Abstract!vars)
  <2>1. CASE Emit(t)
    <3>1. main \in {"run", "write"} /\ main' = main /\ recorded' = recorded
      BY <1>3, <2>1, WritersRun DEF Emit
    <3>2. TypeOK /\ Shape(t) /\ Contents(t) /\ pc[t] = "emit"
      BY <2>1 DEF BufferInv, LockInv, TypeInv, Emit
    <3>3. target # t /\ ~finalized[t]
      <4>1. main = "run"
        BY <3>2, InCallRuns DEF Parked
      <4> QED
        BY <3>2, <4>1, RunFacts
    <3>4. Held(t) = 0 /\ Gone(t) = 0
      BY <3>2, <3>3 DEF Held, Stored, Gone, Length, Shape
    <3>5. Written(t) + 1 = recorded[t] /\ recorded[t] \in Nat
      BY <3>2, <3>4 DEF Written, Completed, InCall, TypeOK
    <3>6. file' = Append(file, Call(t, Written(t) + 1))
      BY <2>1, <3>1, <3>2, <3>5 DEF Emit, Log, Deleted, Contents
    <3>7. Abstract!Write(t)
      BY <3>1, <3>5, <3>6, WriteImplements
    <3> QED
      BY <3>7 DEF Abstract!Next
  <2>2. CASE ~Emit(t)
    <3>1. Stutter
      BY <1>3, <2>2 DEF InCallStep, GetFree, GetGrow, GrowSlice, GrowNext, GrowEnd, GetSpill,
           SpillNothing, SpillBegin, SpillEnd, FillRecord, PublishIndex, PublishFlag, EndCall,
           ExitEnd
    <3> QED
      BY <1>0, <3>1
  <2> QED
    BY <2>1, <2>2
<1>4. CASE BeginTeardown
  <2>1. Stutter
    BY <1>4 DEF BeginTeardown
  <2> QED
    BY <1>0, <2>1
<1>5. CASE TeardownStep
  <2>1. CASE LogFooter \/ RemoveFile
    <3>1. \A t \in Threads : \A n \in 1..recorded[t] : Abstract!InFile(Abstract!Call(t, n))
      <4>1. NothingLost /\ Closing
        BY <2>1, BufferInvNothingLost DEF LogFooter, RemoveFile, Closing
      <4> QED
        BY <4>1 DEF NothingLost, InFile, Abstract!InFile, Call, Abstract!Call
    <3>2. CASE LogFooter
      <4>1. /\ main = "footer" /\ main' = "delete" /\ file # <<>> /\ recorded' = recorded
            /\ file' = Append(file, Abstract!Footer)
        BY <3>2 DEF LogFooter, Position, Log, Deleted, Footer, Call, Abstract!Footer
      <4>2. Abstract!Close
        BY <3>1, <4>1 DEF Abstract!Close
      <4> QED
        BY <4>2 DEF Abstract!Next
    <3>3. CASE RemoveFile
      <4>1. main = "remove" /\ main' = "removed" /\ file = <<>> /\ file' = file /\ recorded' = recorded
        BY <3>3 DEF RemoveFile, Position
      <4>2. Abstract!Close
        BY <3>1, <4>1 DEF Abstract!Close
      <4> QED
        BY <4>2 DEF Abstract!Next
    <3> QED
      BY <2>1, <3>2, <3>3
  <2>2. CASE ~(LogFooter \/ RemoveFile)
    <3>1. Stutter
      BY <1>5, <2>2 DEF TeardownStep, LockAll, VisitFlushed, VisitBegin, VisitEnd, UnlockAll,
                        CheckPosition, DeleteLogger
    <3> QED
      BY <1>0, <3>1
  <2> QED
    BY <2>1, <2>2
<1>6. CASE UNCHANGED vars
  <2>1. Stutter
    BY <1>6 DEF vars
  <2> QED
    BY <1>0, <2>1
<1> QED
  BY <1>1, <1>2, <1>3, <1>4, <1>5, <1>6 DEF Next

\* The buffers, the lock and the teardown together implement TraceFile.tla.
THEOREM Refinement == ASSUME Quiescent PROVE Spec => ImplementsTraceFile
<1>1. Init => Abstract!Init
  BY DEF Init, Abstract!Init
<1>2. Init => BufferInv /\ Position
  BY BufferInvInit DEF Init, Position
<1>3. BufferInv /\ Position /\ [Next]_vars => (BufferInv /\ Position)'
  BY BufferInvNext, PositionNext
<1>4. BufferInv /\ Position /\ (BufferInv /\ Position)' /\ [Next]_vars
        => [Abstract!Next]_(Abstract!vars)
  BY StepImplements
<1> QED
  BY <1>1, <1>2, <1>3, <1>4, PTL DEF Spec, ImplementsTraceFile, Abstract!Spec
================================================================================
