------------------------------- MODULE TraceFile -------------------------------
(***************************************************************************)
(* What the Chrome trace promises its reader, with no buffers, locks or    *)
(* slots in it.  Threads record calls; each recorded call is written to    *)
(* the trace file once, a thread's calls in the order it made them; the    *)
(* file is closed only when every recorded call has been written, and then *)
(* it ends with one footer (or, when nothing was recorded, is dropped) and *)
(* never changes again.  TraceBuffer.tla is shown to implement this.       *)
(***************************************************************************)
EXTENDS Integers, Sequences

CONSTANTS
  Threads,      \* the threads that make instrumented calls
  Exiter        \* the thread that runs the library's destructor

VARIABLES
  recorded,     \* recorded[t]: how many calls of t have been recorded
  file,         \* the records written after the header, in file order
  closed        \* the footer has been written, or the empty file dropped

vars == <<recorded, file, closed>>

Call(t, n) == [thread |-> t, call |-> n]
Footer == [thread |-> Exiter, call |-> 0]

InFile(e) == \E i \in DOMAIN file : file[i] = e

Init ==
  /\ recorded = [t \in Threads |-> 0]
  /\ file = <<>>
  /\ closed = FALSE

Record(t) ==
  /\ ~closed
  /\ recorded' = [recorded EXCEPT ![t] = @ + 1]
  /\ UNCHANGED <<file, closed>>

\* The oldest call of t that is not in the file yet goes to its end.
Write(t) ==
  /\ ~closed
  /\ \E n \in 1..recorded[t] :
       /\ ~InFile(Call(t, n))
       /\ \A m \in 1..(n - 1) : InFile(Call(t, m))
       /\ file' = Append(file, Call(t, n))
  /\ UNCHANGED <<recorded, closed>>

Close ==
  /\ ~closed
  /\ \A t \in Threads : \A n \in 1..recorded[t] : InFile(Call(t, n))
  /\ file' = IF file = <<>> THEN <<>> ELSE Append(file, Footer)
  /\ closed' = TRUE
  /\ UNCHANGED recorded

Next == Close \/ \E t \in Threads : Record(t) \/ Write(t)

Spec == Init /\ [][Next]_vars
================================================================================
