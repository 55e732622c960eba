-------------------------------- MODULE IttTasks -------------------------------
(***************************************************************************)
(* itt_collector.h, the task calls of one thread: __itt_task_begin, the    *)
(* three calls that end a task, the two that attach metadata, markers, and *)
(* what becomes of a task's metadata when its record is written            *)
(* (chromelogger.h, StringifyHostEvent).                                   *)
(*                                                                         *)
(* task_desc is thread_local, so threads meet only at the collection gate, *)
(* which any thread and the program's setenv may move between two calls    *)
(* (UniControl.tla).  The buffer between a logged task and the file is a   *)
(* queue here; TraceBuffer.tla shows that it is one.                       *)
(***************************************************************************)
EXTENDS UniControl, Sequences

CONSTANTS
  Domains,      \* the program's domains, by name
  NoDomain,     \* a null domain: its task gets the domain ""
  Ccl,          \* is_itt_ccl_summary_
  Chrome,       \* is_itt_chrome_logging_on_
  Types,        \* types of metadata the program attaches
  TaskBound,    \* bound: tasks the program begins and markers it sets
  ItemBound     \* bound: metadata items it attaches

ASSUME ModeAssumption == Ccl \in BOOLEAN /\ Chrome \in BOOLEAN
ASSUME DomainAssumption == NoDomain \notin Domains
ASSUME TypesAssumption == Types \subseteq {"small", "large", "double"}

VARIABLES
  clock,        \* GetHostTimestamp, which advances at every call that reads it
  open,         \* history: the tasks the program has begun and not ended
  given,        \* history: the items attached to each task; markers have none
  attached,     \* history: the types of the items it attached; numbers the items
  missed,       \* history: some call of the program had no effect here
  task_desc,    \* the stack of task descriptors, its top last
  queue,        \* logged records that are still in the trace buffer
  written,      \* records in the file
  heap,         \* live metadata blocks
  dropped       \* history: blocks of tasks that were popped and not logged

taskVars == <<clock, open, given, attached, missed, task_desc, queue, written, heap, dropped>>
vars == <<controlVars, taskVars>>

\* An item is identified by its number.  "inline" data is in the descriptor,
\* "indirect" data in a block of its own, "chained" data in its list node, the
\* block that holds it.  (Where the data of a node is read from depends on a flag
\* that nobody initialises, isIndirectData; what is freed does not.)
Item(n, place) == [item |-> n, place |-> place]

\* The blocks a chain of items occupies.
Blocks(args) == {args[i].item : i \in {j \in DOMAIN args : args[j].place # "inline"}}

Active == IsCollectionEnabled /\ (Ccl \/ Chrome)
Empty == task_desc = <<>>
Top == task_desc[Len(task_desc)]

\* Variant for the mutation runs: the oldest task is popped.
PopOldest == task_desc' = Tail(task_desc)

Pop == task_desc' = SubSeq(task_desc, 1, Len(task_desc) - 1)

\* GetHostTimestamp reads a clock that only goes forward.
Tick == clock' = clock + 1

begun == Len(given)

TaskInit ==
  /\ clock = 1
  /\ open = <<>>
  /\ given = <<>>
  /\ attached = <<>>
  /\ missed = FALSE
  /\ task_desc = <<>>
  /\ queue = <<>>
  /\ written = <<>>
  /\ heap = {}
  /\ dropped = {}

--------------------------------------------------------------------------------
\* The program's own account of the call.
ProgramBegins(d) ==
  /\ begun < TaskBound
  /\ open' = Append(open, [task |-> begun + 1, domain |-> d])
  /\ given' = Append(given, {})
  /\ UNCHANGED attached

Ignored == UNCHANGED <<clock, task_desc, queue, written, heap, dropped>>

TaskBegin(d) ==
  /\ ProgramBegins(d)
  /\ \/ /\ Active
        /\ task_desc' = Append(task_desc,
             [task |-> begun + 1, domain |-> d, start |-> clock, args |-> <<>>])
        /\ Tick
        /\ UNCHANGED <<missed, queue, written, heap, dropped>>
     \/ /\ ~Active
        /\ Ignored
        /\ missed' = TRUE

\* strcmp(task_desc.top().domain, domain->nameA)
Matches(d) == ~Empty /\ d # NoDomain /\ Top.domain = d

Log == queue' = Append(queue, [task |-> Top.task, start |-> Top.start, end |-> clock, args |-> Top.args])

\* The record is not logged: nothing refers to the metadata any more.
Drop == dropped' = dropped \cup Blocks(Top.args) /\ UNCHANGED queue

\* The innermost task of the domain ends.
ProgramEnds(d) ==
  /\ \E i \in DOMAIN open :
       /\ open[i].domain = d
       /\ \A j \in (i + 1)..Len(open) : open[j].domain # d
       /\ open' = SubSeq(open, 1, i - 1) \o SubSeq(open, i + 1, Len(open))
  /\ UNCHANGED <<given, attached>>

\* __itt_task_end.  (AddFunctionTime: CclSummary.tla.)
TaskEnd(d) ==
  /\ ProgramEnds(d)
  /\ \/ /\ Active /\ Matches(d)
        /\ IF Chrome THEN Log /\ UNCHANGED dropped ELSE Drop
        /\ Pop
        /\ Tick
        /\ UNCHANGED <<missed, written, heap>>
     \/ /\ ~(Active /\ Matches(d))
        /\ Ignored
        /\ missed' = TRUE

\* __itt_task_end_internal_ex_info and ..._callback_info: no callback is ever
\* set for them, so the task is popped and nothing is logged.
TaskEndMpi(d) ==
  /\ d # NoDomain
  /\ ProgramEnds(d)
  /\ \/ /\ IsCollectionEnabled /\ Chrome /\ Matches(d)
        /\ Drop
        /\ Pop
        /\ Tick
        /\ UNCHANGED <<missed, written, heap>>
     \/ /\ ~(IsCollectionEnabled /\ Chrome /\ Matches(d))
        /\ Ignored
        /\ missed' = TRUE

\* __itt_marker: a record of its own, of no duration; no task is begun.
Marker ==
  /\ begun < TaskBound
  /\ given' = Append(given, {})
  /\ \/ /\ IsCollectionEnabled /\ Chrome
        /\ queue' = Append(queue, [task |-> begun + 1, start |-> clock, end |-> clock, args |-> <<>>])
        /\ Tick
        /\ UNCHANGED <<task_desc, written, heap, dropped>>
     \/ /\ ~(IsCollectionEnabled /\ Chrome)
        /\ Ignored
  /\ UNCHANGED <<open, attached, missed>>

--------------------------------------------------------------------------------
\* The guard of __itt_metadata_add leaves doubles out.  "small" data fits in a
\* pointer, "large" data does not; strings (__itt_metadata_str_add) are either.
Accepted(type) == type # "double"

\* Variant: a later item replaces the first one.
AttachOver(args, n, type) ==
  <<Item(n, IF type = "small" THEN "inline" ELSE "indirect")>>

\* Where an item goes: the first one into the descriptor, or into a block if it
\* is large; a later one into a list node right after the first.
Attach(args, n, type) ==
  IF args = <<>>
    THEN <<Item(n, IF type = "small" THEN "inline" ELSE "indirect")>>
    ELSE <<args[1], Item(n, "chained")>> \o SubSeq(args, 2, Len(args))

\* The program describes its innermost task.
MetadataAdd(type) ==
  LET n == Len(attached) + 1 IN
  /\ open # <<>>
  /\ n <= ItemBound
  /\ attached' = Append(attached, type)
  /\ given' = [given EXCEPT ![open[Len(open)].task] = @ \cup {n}]
  /\ UNCHANGED <<clock, open, queue, written, dropped>>
  /\ \/ /\ Active /\ ~Empty /\ Accepted(type)
        /\ LET args == Attach(Top.args, n, type) IN
             /\ task_desc' = [task_desc EXCEPT ![Len(task_desc)].args = args]
             /\ heap' = heap \cup (Blocks(args) \cap {n})
        /\ UNCHANGED missed
     \/ /\ ~(Active /\ ~Empty /\ Accepted(type))
        /\ missed' = (missed \/ ~Active \/ Empty)
        /\ UNCHANGED <<task_desc, heap>>

\* Variant: only the data of the first item is freed.
FreedIndirect(args) == {args[i].item : i \in {j \in DOMAIN args : args[j].place = "indirect"}}

Freed(args) == Blocks(args)

\* The trace buffer writes its oldest record and frees the metadata.
Write ==
  /\ queue # <<>>
  /\ LET rec == queue[1] IN
       /\ written' = Append(written, rec)
       /\ heap' = heap \ Freed(rec.args)
  /\ queue' = Tail(queue)
  /\ UNCHANGED <<clock, open, given, attached, missed, task_desc, dropped>>

TaskNext ==
  \/ \E d \in Domains \cup {NoDomain} : TaskBegin(d) \/ TaskEnd(d) \/ TaskEndMpi(d)
  \/ \E type \in Types : MetadataAdd(type)
  \/ Marker \/ Write

Init == ControlInit /\ TaskInit

Next ==
  \/ TaskNext /\ UNCHANGED controlVars
  \/ ControlNext /\ UNCHANGED taskVars

Spec == Init /\ [][Next]_vars

--------------------------------------------------------------------------------
Logged == written \o queue
Items(args) == {args[i].item : i \in DOMAIN args}
Tasks(seq) == [i \in DOMAIN seq |-> seq[i].task]

\* No task is logged twice, and none that is logged can be ended again; the
\* complete events of one thread nest, as a trace viewer requires, even when
\* pauses left stale tasks on the stack and ends pop the wrong one; a marker is in
\* the tasks around it.
LoggedOnceNested ==
  /\ \A i, j \in DOMAIN Logged :
       /\ i # j => Logged[i].task # Logged[j].task
       /\ Logged[i].start <= Logged[i].end
       /\ i < j => \/ Logged[i].end < Logged[j].start
                   \/ Logged[j].start < Logged[i].start /\ Logged[i].end < Logged[j].end
  /\ \A i \in DOMAIN Logged : \A k \in DOMAIN task_desc : Logged[i].task # task_desc[k].task

\* Every metadata block that a descriptor or a buffered record refers to is live
\* and nothing else refers to it: it is freed once and not used afterwards.  Blocks
\* are lost track of in one way only, when a task ends without a record, in the
\* MPI library's own calls and where no Chrome trace is written.
SingleOwner ==
  LET owners == task_desc \o queue IN
  /\ \A i, j \in DOMAIN owners :
       i # j => Blocks(owners[i].args) \cap Blocks(owners[j].args) = {}
  /\ heap \ dropped = UNION {Blocks(owners[i].args) : i \in DOMAIN owners}

\* As long as no call of the program was ignored, the stack is the program's
\* own stack of open tasks, so each end logs the task it ends, and a record
\* carries exactly the metadata that the program attached to the task while it was
\* open, but for the doubles, which the guard drops.
Paired ==
  ~missed =>
    /\ Tasks(task_desc) = Tasks(open)
    /\ \A i \in DOMAIN Logged :
         Items(Logged[i].args) = {n \in given[Logged[i].task] : attached[n] # "double"}
================================================================================
