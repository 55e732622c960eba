----------------------------- MODULE TraceBufferInv ----------------------------
(***************************************************************************)
(* The inductive invariants behind the properties of TraceBuffer.tla, kept *)
(* apart from the proofs so that TLC checks them too.                      *)
(***************************************************************************)
EXTENDS TraceBuffer

\* A constructed buffer owns at least one slice until its thread has exited
\* (and, when ~ChromeLogger finalized it, for good).
Allocated ==
  \A t \in Threads : pc[t] \notin {"unborn", "exited"} => Len(slots[t]) >= SliceCapacity[t]

TypeInv == TypeOK /\ Allocated

\* logger_lock_ is held by whoever is inside one of the three writing loops,
\* and by ~ChromeLogger between two of them; its holder's buffer is the target.
LockDiscipline ==
  /\ \A t \in Threads : lock = t <=> pc[t] \in {"spilling", "exiting"}
  /\ lock = Exiter <=> main \in {"walk", "write"}
  /\ target # NoOne <=> lock \in Threads \/ main = "write"
  /\ lock \in Threads => target = lock

\* A buffer being finalized is still in trace_buffers_ and already marked.
BeingFinalized(t) == pc[t] = "exiting" \/ (main = "write" /\ target = t)
Membership ==
  \A t \in Threads :
    /\ pc[t] = "unborn" => ~finalized[t]
    /\ IF BeingFinalized(t)
         THEN t \in registered /\ finalized[t] /\ pc[t] \notin {"unborn", "exited"}
         ELSE t \in registered <=> pc[t] \notin {"unborn", "exited"} /\ ~finalized[t]

LockInv == TypeInv /\ LockDiscipline /\ Membership

--------------------------------------------------------------------------------
(* The rest is about a program that stops calling before its teardown.     *)

\* How many returned calls of t are still in its buffer.
Stored(t) ==
  IF pc[t] = "fill" THEN Slot(t) - 1
  ELSE IF pc[t] = "grow" THEN Len(slots[t]) - SliceCapacity[t]
  ELSE Length(t)
Held(t) == IF finalized[t] /\ target # t THEN 0 ELSE Stored(t)
\* ... and how many of those the loop in progress has written.
Gone(t) == IF target = t THEN cursor ELSE 0
Written(t) == Completed(t) - Held(t) + Gone(t)

\* The program parks its threads first, and finalization is only ~TraceBuffer's
\* business until ~ChromeLogger has the lock.
Phases ==
  /\ main # "run" => \A t \in Threads : Parked(t)
  /\ \A t \in Threads : main \in {"run", "lock"} /\ finalized[t] => pc[t] \in {"exiting", "exited"}
  /\ main \notin {"run", "lock", "walk", "write"} => registered = {}

\* The indices of t's buffer, between and inside calls.
Shape(t) ==
  /\ pc[t] = "unborn" => /\ recorded[t] = 0 /\ ~finalized[t] /\ ~flushed[t]
                         /\ slice[t] = 0 /\ next[t] = 0
  /\ pc[t] = "exited" => finalized[t]
  /\ Bounded[t] => slice[t] = 0
  /\ next[t] <= SliceCapacity[t]
  /\ FlushImmediately[t] => next[t] = 0
  /\ InCall(t) => recorded[t] >= 1
  /\ pc[t] \notin {"unborn", "exited", "grow"} =>
       Len(slots[t]) = slice[t] * SliceCapacity[t] + SliceCapacity[t]
  /\ pc[t] \notin {"grow", "fill"} => pending[t] = {}
  /\ pc[t] = "grow" =>
       /\ ~Bounded[t]
       /\ pending[t] \subseteq {"slice", "next"}
       /\ Len(slots[t]) = slice[t] * SliceCapacity[t] + SliceCapacity[t]
                            + IF "slice" \in pending[t] THEN SliceCapacity[t] ELSE 0
       /\ next[t] = IF "next" \in pending[t] THEN SliceCapacity[t] ELSE 0
  /\ pc[t] \in {"spill", "spilling"} => next[t] = SliceCapacity[t] /\ Bounded[t]
  /\ pc[t] = "fill" =>
       /\ pending[t] \subseteq {"record", "index", "flag"}
       /\ FlushImmediately[t] => pending[t] \subseteq {"record"}
       /\ "index" \in pending[t] => next[t] < SliceCapacity[t]
       /\ ~FlushImmediately[t] /\ "index" \notin pending[t] => next[t] >= 1
       /\ ~FlushImmediately[t] /\ "flag" \notin pending[t] => ~flushed[t]
  /\ pc[t] = "emit" => FlushImmediately[t]
  /\ ~finalized[t] /\ flushed[t] => Held(t) = 0
  /\ target = t => ~flushed[t] /\ cursor <= Length(t)

\* The buffered events are the newest ones, in call order; the event being
\* recorded is in its slot as soon as its store has been made.
Contents(t) ==
  /\ Written(t) >= 0
  /\ \A k \in (Gone(t) + 1)..Held(t) :
       k \in DOMAIN slots[t] /\ slots[t][k] = Call(t, Completed(t) - Held(t) + k)
  /\ pc[t] = "fill" /\ "record" \notin pending[t] => slots[t][Slot(t)] = Call(t, recorded[t])
  /\ pc[t] = "emit" => slots[t][1] = Call(t, recorded[t])

\* The file holds the oldest Written(t) calls of each thread, once each and in
\* order, and the footer at most at its end.
FileInv ==
  /\ \A i \in DOMAIN file :
       \/ \E t \in Threads : \E n \in 1..Written(t) : file[i] = Call(t, n)
       \/ file[i] = Footer /\ i = Len(file) /\ main \in {"delete", "stored"}
  /\ \A t \in Threads : \A n \in 1..Written(t) : InFile(Call(t, n))
  /\ \A i, j \in DOMAIN file :
       i < j /\ file[i].thread = file[j].thread => file[i].call < file[j].call

BufferInv ==
  /\ LockInv
  /\ Phases
  /\ \A t \in Threads : Shape(t) /\ Contents(t)
  /\ FileInv

\* Nothing is written between the position check and what follows from it.
Position ==
  /\ main = "footer" => file # <<>>
  /\ main = "remove" => file = <<>>
================================================================================
