--------------------------- MODULE IttCollectorProofs -------------------------
(***************************************************************************)
(* Proofs about the parts of the collector that the program calls: about   *)
(* UniControl.tla, for any set of threads that pause and resume; about     *)
(* IttTasks.tla, which moves between its steps, for any number of tasks    *)
(* and items, domains and modes; and about IttRegistry.tla, for any number *)
(* of threads, names and events, and any kinds of lists.                   *)
(***************************************************************************)
EXTENDS IttTasks, IttRegistry, SequenceTheorems, TLAPS

--------------------------------------------------------------------------------
(* The collection gate.                                                    *)

\* While no other call has overlapped the last one, what the calls have left in
\* the flag is what the one call that counts wrote: the call in progress, which
\* alone is in progress, or the one that returned last.
OneCallCounts ==
  calm =>
    /\ \A c, d \in Controllers : Busy(c) /\ Busy(d) => c = d
    /\ \A c \in Controllers : Busy(c) => itt_paused = (doing[c] = "pause")
    /\ Quiet => itt_paused = (lastCall = "pause")

ControlInv ==
  /\ itt_paused \in BOOLEAN
  /\ calm \in BOOLEAN
  /\ doing \in [Controllers -> {"nothing", "pause", "resume"}]
  /\ OneCallCounts

LEMMA ControlInvInit == ControlInit => ControlInv
BY DEF ControlInit, ControlInv, OneCallCounts, Busy, Quiet

LEMMA ControlInvNext == ControlInv /\ [ControlNext]_controlVars => ControlInv'
<1> SUFFICES ASSUME ControlInv, [ControlNext]_controlVars PROVE ControlInv'
  OBVIOUS
<1> USE ConditionalAssumption DEF ControlInv, OneCallCounts, Busy, Quiet
<1>1. ASSUME NEW c \in Controllers, PauseFlag(c) PROVE ControlInv'
  BY <1>1 DEF PauseFlag, BeginCall
<1>2. ASSUME NEW c \in Controllers, PauseEnv(c) PROVE ControlInv'
  BY <1>2 DEF PauseEnv, EndCall
<1>3. ASSUME NEW c \in Controllers, ResumeFlag(c) PROVE ControlInv'
  BY <1>3 DEF ResumeFlag, BeginCall
<1>4. ASSUME NEW c \in Controllers, ResumeEnv(c) PROVE ControlInv'
  BY <1>4 DEF ResumeEnv, EndCall
<1>5. ASSUME NEW v \in EnvStates, ProgramWrites(v) PROVE ControlInv'
  BY <1>5 DEF ProgramWrites
<1>6. CASE UNCHANGED controlVars
  BY <1>6 DEF controlVars, gate
<1> QED
  BY <1>1, <1>2, <1>3, <1>4, <1>5, <1>6 DEF ControlNext

LEMMA ControlInvariant == ControlSpec => []ControlInv
<1> QED
  BY ControlInvInit, ControlInvNext, PTL DEF ControlSpec

\* The steps of the tasks leave the gate alone.
LEMMA GateControlled == Spec => ControlSpec
<1>1. Init => ControlInit
  BY DEF Init
<1>2. [Next]_vars => [ControlNext]_controlVars
  BY DEF Next, vars
<1> QED
  BY <1>1, <1>2, PTL DEF Spec, ControlSpec

\* A pause that no other call overlaps closes the gate until the next call,
\* whatever the program writes to its environment and does with its tasks
\* (unicontrol.h, IttPause).
THEOREM PauseCorrect == Spec => []PausePrecedes
<1>1. ControlInv => PausePrecedes
  BY DEF ControlInv, OneCallCounts, PausePrecedes, Quiet, Busy, IsCollectionEnabled
<1> QED
  BY <1>1, ControlInvariant, GateControlled, PTL

\* A resume that no other call overlaps opens the gate at its last store, though
\* the environment is the last of two (unicontrol.h, IttResume).
THEOREM ResumeCorrect == Spec => ResumeOpens
<1>1. ControlInv /\ [ControlNext]_controlVars
        => [\A c \in Controllers : ResumeEnv(c) /\ calm => IsCollectionEnabled']_controlVars
  BY DEF ControlInv, OneCallCounts, Busy, ResumeEnv, EndCall, IsCollectionEnabled
<1> QED
  BY <1>1, ControlInvariant, GateControlled, PTL DEF ControlSpec, ResumeOpens

--------------------------------------------------------------------------------
(* The types of the variables the properties are about.                    *)

ItemRecord == [item : Nat, place : {"inline", "indirect", "chained"}]
Args == Seq(ItemRecord)
TaskRecord == [task : Nat \ {0}, domain : Domains \cup {NoDomain}, start : Nat, args : Args]
LogRecord == [task : Nat \ {0}, start : Nat, end : Nat, args : Args]

TasksTyped ==
  /\ clock \in Nat
  /\ given \in Seq(SUBSET Nat) /\ attached \in Seq(Types)
  /\ task_desc \in Seq(TaskRecord)
  /\ queue \in Seq(LogRecord) /\ written \in Seq(LogRecord)

LEMMA Elements ==
  ASSUME TasksTyped
  PROVE  /\ begun \in Nat /\ Len(attached) \in Nat
         /\ DOMAIN task_desc = 1..Len(task_desc) /\ Len(task_desc) \in Nat
         /\ \A k \in DOMAIN task_desc : task_desc[k] \in TaskRecord
         /\ DOMAIN queue = 1..Len(queue) /\ Len(queue) \in Nat
         /\ \A i \in DOMAIN queue : queue[i] \in LogRecord
         /\ Logged \in Seq(LogRecord) /\ Len(Logged) \in Nat /\ DOMAIN Logged = 1..Len(Logged)
         /\ \A i \in DOMAIN Logged : Logged[i] \in LogRecord
<1>1. /\ given \in Seq(SUBSET Nat) /\ attached \in Seq(Types)
      /\ task_desc \in Seq(TaskRecord) /\ queue \in Seq(LogRecord) /\ written \in Seq(LogRecord)
  BY DEF TasksTyped
<1>2. Logged \in Seq(LogRecord)
  BY <1>1, ConcatProperties DEF Logged
<1> QED
  BY <1>1, <1>2, LenProperties, ElementOfSeq DEF begun

\* A task goes on top of the stack, and the top leaves it.
LEMMA PushTask ==
  ASSUME TasksTyped, NEW r \in TaskRecord, task_desc' = Append(task_desc, r)
  PROVE  /\ task_desc' \in Seq(TaskRecord)
         /\ DOMAIN task_desc' = 1..(Len(task_desc) + 1)
         /\ \A k \in DOMAIN task_desc : task_desc'[k] = task_desc[k]
         /\ task_desc'[Len(task_desc) + 1] = r
<1>1. task_desc \in Seq(TaskRecord)
  BY DEF TasksTyped
<1>2. task_desc' \in Seq(TaskRecord) /\ Len(task_desc') = Len(task_desc) + 1
  BY <1>1, AppendProperties
<1> QED
  BY <1>1, <1>2, AppendProperties, LenProperties

LEMMA PopTask ==
  ASSUME TasksTyped, ~Empty, Pop
  PROVE  /\ task_desc' \in Seq(TaskRecord)
         /\ DOMAIN task_desc' = 1..(Len(task_desc) - 1)
         /\ Len(task_desc') = Len(task_desc) - 1
         /\ \A k \in DOMAIN task_desc' : task_desc'[k] = task_desc[k]
         /\ Len(task_desc) \in DOMAIN task_desc /\ Top \in TaskRecord
<1>1. /\ task_desc \in Seq(TaskRecord) /\ Len(task_desc) \in Nat \ {0}
      /\ DOMAIN task_desc = 1..Len(task_desc)
      /\ \A k \in 1..Len(task_desc) : task_desc[k] \in TaskRecord
  BY EmptySeq, LenProperties, ElementOfSeq DEF TasksTyped, Empty
<1> DEFINE n == Len(task_desc) - 1
<1>2. n \in Nat /\ Len(task_desc) = n + 1
  BY <1>1
<1> HIDE DEF n
<1>3. \A k \in 1..n : task_desc[k] \in TaskRecord
  BY <1>1, <1>2
<1>4. /\ SubSeq(task_desc, 1, n) \in Seq(TaskRecord) /\ Len(SubSeq(task_desc, 1, n)) = n
      /\ \A k \in 1..n : SubSeq(task_desc, 1, n)[k] = task_desc[k]
  BY <1>2, <1>3, SubSeqProperties
<1>5. task_desc' = SubSeq(task_desc, 1, n)
  BY DEF Pop, n
<1>6. DOMAIN task_desc' = 1..n
  BY <1>4, <1>5, LenProperties
<1> QED
  BY <1>1, <1>2, <1>4, <1>5, <1>6 DEF Top, n

LEMMA LogTask ==
  ASSUME TasksTyped, NEW r \in LogRecord, queue' = Append(queue, r), written' = written
  PROVE  /\ queue' \in Seq(LogRecord) /\ DOMAIN queue' = 1..(Len(queue) + 1)
         /\ \A i \in DOMAIN queue : queue'[i] = queue[i]
         /\ queue'[Len(queue) + 1] = r
         /\ DOMAIN Logged' = 1..(Len(Logged) + 1)
         /\ \A i \in DOMAIN Logged : Logged'[i] = Logged[i]
         /\ Logged'[Len(Logged) + 1] = r
<1>1. queue \in Seq(LogRecord) /\ written \in Seq(LogRecord) /\ <<r>> \in Seq(LogRecord)
  BY DEF TasksTyped
<1>2. queue' \in Seq(LogRecord) /\ queue' = queue \o <<r>> /\ Len(queue') = Len(queue) + 1
  BY <1>1, AppendProperties, AppendIsConcat
<1>3. Logged' = Logged \o <<r>>
  BY <1>1, <1>2, ConcatAssociative DEF Logged
<1>4. Logged \in Seq(LogRecord)
  BY Elements
<1>5. Logged' = Append(Logged, r)
  BY <1>1, <1>3, <1>4, AppendIsConcat
<1>6. Append(Logged, r) \in Seq(LogRecord) /\ Len(Append(Logged, r)) = Len(Logged) + 1
  BY <1>4, AppendProperties
<1> QED
  BY <1>1, <1>2, <1>4, <1>5, <1>6, AppendProperties, LenProperties

LEMMA WriteFacts ==
  ASSUME TasksTyped, Write
  PROVE  /\ queue' \in Seq(LogRecord) /\ written' \in Seq(LogRecord)
         /\ Logged' = Logged
         /\ Len(queue) \in Nat \ {0} /\ DOMAIN queue' = 1..(Len(queue) - 1)
         /\ \A i \in DOMAIN queue' : queue'[i] = queue[i + 1]
<1>1. queue \in Seq(LogRecord) /\ written \in Seq(LogRecord) /\ queue # <<>>
  BY DEF TasksTyped, Write
<1>2. /\ Len(queue) \in Nat \ {0} /\ queue' = Tail(queue) /\ written' = Append(written, queue[1])
  BY <1>1, EmptySeq DEF Write
<1>3. /\ queue' \in Seq(LogRecord) /\ Len(queue') = Len(queue) - 1
      /\ \A i \in 1..Len(queue') : queue'[i] = queue[i + 1]
  BY <1>1, <1>2, HeadTailProperties
<1>4. queue[1] \in LogRecord
  BY <1>1, <1>2, ElementOfSeq
<1>5. written' \in Seq(LogRecord) /\ written' = written \o <<queue[1]>> /\ <<queue[1]>> \in Seq(LogRecord)
  BY <1>1, <1>2, <1>4, AppendProperties, AppendIsConcat
<1>6. Logged' = written \o (<<queue[1]>> \o queue')
  BY <1>1, <1>3, <1>5, ConcatAssociative DEF Logged
<1>7. <<queue[1]>> \o queue' = queue
  <2>1. SubSeq(queue, 1, Len(queue)) = <<queue[1]>> \o SubSeq(queue, 2, Len(queue))
    BY <1>1, <1>2, SubSeqRecursiveFirst
  <2> QED
    BY <1>1, <1>2, <2>1, SubSeqFull, TailIsSubSeq
<1> QED
  BY <1>2, <1>3, <1>5, <1>6, <1>7, LenProperties DEF Logged

\* The chain of items after a later one was put right behind the first.
LEMMA AttachShape ==
  ASSUME NEW args \in Args, NEW n \in Nat, NEW type \in Types, args # <<>>
  PROVE  \E len \in Nat \ {0} :
           LET new == Attach(args, n, type) IN
           /\ DOMAIN args = 1..len /\ DOMAIN new = 1..(len + 1)
           /\ new \in Args /\ new[1] = args[1] /\ new[2] = Item(n, "chained")
           /\ \A i \in 3..(len + 1) : new[i] = args[i - 1]
<1> DEFINE new == Attach(args, n, type)
           len == Len(args)
           front == <<args[1], Item(n, "chained")>>
           rest == SubSeq(args, 2, len)
<1>1. /\ len \in Nat \ {0} /\ DOMAIN args = 1..len
      /\ \A i \in 1..len : args[i] \in ItemRecord
  BY EmptySeq, LenProperties, ElementOfSeq DEF Args
<1>2. Item(n, "chained") \in ItemRecord /\ Item(n, "chained").item = n
  BY DEF Item, ItemRecord
<1>3. args[1] \in ItemRecord
  BY <1>1
<1>4. /\ front \in Seq(ItemRecord) /\ Len(front) = 2
      /\ front[1] = args[1] /\ front[2] = Item(n, "chained")
  BY <1>2, <1>3
<1>5. /\ rest \in Seq(ItemRecord) /\ Len(rest) = len - 1
      /\ \A i \in 1..(len - 1) : rest[i] = args[i + 1]
  <2>1. len \in Nat \ {0} /\ \A i \in 2..len : args[i] \in ItemRecord
    BY <1>1
  <2> HIDE DEF len
  <2>2. /\ SubSeq(args, 2, len) \in Seq(ItemRecord)
        /\ Len(SubSeq(args, 2, len)) = IF 2 <= len THEN len - 2 + 1 ELSE 0
        /\ \A i \in 1..(len - 2 + 1) : SubSeq(args, 2, len)[i] = args[2 + i - 1]
    BY <2>1, SubSeqProperties
  <2> QED
    BY <2>1, <2>2
<1>6. new = front \o rest
  BY DEF Attach
<1> HIDE DEF new, front, rest, len
<1>7. /\ new \in Seq(ItemRecord) /\ Len(new) = len + 1
      /\ \A i \in 1..(len + 1) : new[i] = IF i <= 2 THEN front[i] ELSE rest[i - 2]
  <2>1. /\ new \in Seq(ItemRecord) /\ Len(new) = Len(front) + Len(rest)
        /\ \A i \in 1..(Len(front) + Len(rest)) :
             new[i] = IF i <= Len(front) THEN front[i] ELSE rest[i - Len(front)]
    BY <1>4, <1>5, <1>6, ConcatProperties
  <2>2. len \in Nat /\ Len(front) = 2 /\ Len(rest) = len - 1 /\ Len(front) + Len(rest) = len + 1
    BY <1>1, <1>4, <1>5
  <2> QED
    BY <2>1, <2>2
<1>8. DOMAIN new = 1..(len + 1)
  BY <1>7, LenProperties
<1>9. /\ new[1] = args[1] /\ new[2] = Item(n, "chained")
      /\ \A i \in 3..(len + 1) : new[i] = args[i - 1]
  <2>1. len \in Nat \ {0}
    BY <1>1
  <2>2. 1 \in 1..(len + 1) /\ 2 \in 1..(len + 1)
    BY <2>1
  <2>3. ASSUME NEW i \in 3..(len + 1) PROVE new[i] = args[i - 1]
    <3>1. i - 2 \in 1..(len - 1) /\ i \in 1..(len + 1) /\ ~(i <= 2)
      BY <2>1
    <3>2. new[i] = rest[i - 2]
      BY <1>7, <3>1
    <3>3. rest[i - 2] = args[i - 2 + 1]
      BY <1>5, <3>1
    <3> QED
      BY <2>1, <3>1, <3>2, <3>3
  <2> QED
    BY <1>4, <1>7, <2>2, <2>3
<1> QED
  BY <1>1, <1>7, <1>8, <1>9 DEF new, Args

\* Where a new item goes, and what the chain of items was before.
LEMMA AttachFacts ==
  ASSUME NEW args \in Args, NEW n \in Nat, NEW type \in Types
  PROVE  /\ Attach(args, n, type) \in Args
         /\ Blocks(args) \subseteq Blocks(Attach(args, n, type))
         /\ Blocks(Attach(args, n, type)) \subseteq Blocks(args) \cup {n}
<1> DEFINE new == Attach(args, n, type)
<1>1. CASE args = <<>>
  <2>1. PICK place \in {"inline", "indirect"} : new = <<Item(n, place)>>
    BY <1>1 DEF Attach
  <2>2. Item(n, place) \in ItemRecord /\ Item(n, place).item = n
    BY DEF Item, ItemRecord
  <2>3. new \in Args
    BY <2>1, <2>2 DEF Args
  <2>4. DOMAIN args = {} /\ DOMAIN new = {1} /\ new[1].item = n
    BY <1>1, <2>1, <2>2
  <2> QED
    BY <2>3, <2>4 DEF Blocks
<1>2. CASE args # <<>>
  <2>1. PICK len \in Nat \ {0} :
          /\ DOMAIN args = 1..len /\ DOMAIN new = 1..(len + 1)
          /\ new \in Args /\ new[1] = args[1] /\ new[2] = Item(n, "chained")
          /\ \A i \in 3..(len + 1) : new[i] = args[i - 1]
    BY <1>2, AttachShape
  <2>2. Item(n, "chained").item = n
    BY DEF Item
  <2> HIDE DEF new
  <2>3. Blocks(args) \subseteq Blocks(new)
    <3> SUFFICES ASSUME NEW i \in 1..len, args[i].place # "inline"
                 PROVE  args[i].item \in Blocks(new)
      BY <2>1 DEF Blocks
    <3>1. CASE i = 1
      BY <2>1, <3>1 DEF Blocks
    <3>2. CASE i # 1
      <4>1. i + 1 \in 3..(len + 1) /\ new[i + 1] = args[i] /\ i + 1 \in DOMAIN new
        BY <2>1, <3>2
      <4> QED
        BY <4>1 DEF Blocks
    <3> QED
      BY <3>1, <3>2
  <2>4. Blocks(new) \subseteq Blocks(args) \cup {n}
    <3> SUFFICES ASSUME NEW i \in 1..(len + 1), new[i].place # "inline"
                 PROVE  new[i].item \in Blocks(args) \cup {n}
      BY <2>1 DEF Blocks
    <3>1. CASE i = 1
      BY <2>1, <3>1 DEF Blocks
    <3>2. CASE i = 2
      BY <2>2, <2>1, <3>2
    <3>3. CASE i > 2
      <4>1. i - 1 \in DOMAIN args /\ new[i] = args[i - 1]
        BY <2>1, <3>3
      <4> QED
        BY <4>1 DEF Blocks
    <3> QED
      BY <3>1, <3>2, <3>3
  <2> QED
    BY <2>1, <2>3, <2>4 DEF new
<1> QED
  BY <1>1, <1>2

\* The top task gets other items.
LEMMA ChangeTop ==
  ASSUME TasksTyped, ~Empty, NEW args \in Args,
         task_desc' = [task_desc EXCEPT ![Len(task_desc)].args = args]
  PROVE  /\ task_desc' \in Seq(TaskRecord) /\ DOMAIN task_desc' = DOMAIN task_desc
         /\ Len(task_desc) \in DOMAIN task_desc /\ Len(task_desc') = Len(task_desc)
         /\ \A k \in DOMAIN task_desc :
              /\ task_desc'[k].task = task_desc[k].task /\ task_desc'[k].start = task_desc[k].start
              /\ task_desc'[k].domain = task_desc[k].domain
              /\ task_desc'[k].args = IF k = Len(task_desc) THEN args ELSE task_desc[k].args
<1> DEFINE n == Len(task_desc)
           r == [task_desc[n] EXCEPT !.args = args]
<1>1. /\ task_desc \in Seq(TaskRecord) /\ n \in 1..Len(task_desc) /\ DOMAIN task_desc = 1..n
      /\ n \in Nat
  BY EmptySeq, LenProperties DEF TasksTyped, Empty
<1>2. \A k \in 1..n : task_desc[k] \in TaskRecord
  BY <1>1, ElementOfSeq
<1>3. /\ r \in TaskRecord /\ r.args = args /\ r.task = task_desc[n].task
      /\ r.start = task_desc[n].start /\ r.domain = task_desc[n].domain
  BY <1>1, <1>2 DEF TaskRecord
<1>4. task_desc' = [task_desc EXCEPT ![n] = r]
  OBVIOUS
<1> HIDE DEF n, r
<1>5. [task_desc EXCEPT ![n] = r] \in Seq(TaskRecord) /\ Len([task_desc EXCEPT ![n] = r]) = Len(task_desc)
  BY <1>1, <1>3, ExceptSeq
<1>6. DOMAIN task_desc' = 1..n /\ \A k \in 1..n : task_desc'[k] = IF k = n THEN r ELSE task_desc[k]
  BY <1>1, <1>4
<1> QED
  BY <1>1, <1>3, <1>4, <1>5, <1>6 DEF n

\* The program's account of its tasks and items.
LEMMA AnotherTask ==
  ASSUME TasksTyped, given' = Append(given, {})
  PROVE  given' \in Seq(SUBSET Nat) /\ begun' = begun + 1 /\ begun \in Nat
<1>1. given \in Seq(SUBSET Nat) /\ {} \in SUBSET Nat
  BY DEF TasksTyped
<1> QED
  BY <1>1, AppendProperties, LenProperties DEF begun

LEMMA AnotherItem ==
  ASSUME TasksTyped, NEW type \in Types, NEW task,
         attached' = Append(attached, type),
         given' = [given EXCEPT ![task] = @ \cup {Len(attached) + 1}]
  PROVE  /\ given' \in Seq(SUBSET Nat) /\ begun' = begun
         /\ attached' \in Seq(Types) /\ Len(attached') = Len(attached) + 1
<1>1. given \in Seq(SUBSET Nat) /\ attached \in Seq(Types)
  BY DEF TasksTyped
<1>2. attached' \in Seq(Types) /\ Len(attached') = Len(attached) + 1 /\ Len(attached) \in Nat
  BY <1>1, AppendProperties, LenProperties
<1>3. CASE task \in 1..Len(given)
  <2> DEFINE items == given[task] \cup {Len(attached) + 1}
  <2>1. given[task] \in SUBSET Nat
    BY <1>1, <1>3, ElementOfSeq
  <2>2. items \in SUBSET Nat
    BY <1>2, <2>1
  <2>3. given' = [given EXCEPT ![task] = items]
    OBVIOUS
  <2> HIDE DEF items
  <2>4. [given EXCEPT ![task] = items] \in Seq(SUBSET Nat) /\ Len([given EXCEPT ![task] = items]) = Len(given)
    BY <1>1, <1>3, <2>2, ExceptSeq
  <2> QED
    BY <1>2, <2>3, <2>4 DEF begun
<1>4. CASE task \notin 1..Len(given)
  <2>1. given \in [1..Len(given) -> SUBSET Nat]
    BY <1>1, LenProperties
  <2>2. given' = given
    BY <1>4, <2>1
  <2> QED
    BY <1>1, <1>2, <2>2 DEF begun
<1> QED
  BY <1>3, <1>4

LEMMA TypedNext == TasksTyped /\ [Next]_vars => TasksTyped'
<1> SUFFICES ASSUME TasksTyped, [Next]_vars PROVE TasksTyped'
  OBVIOUS
<1>1. /\ clock \in Nat /\ given \in Seq(SUBSET Nat) /\ attached \in Seq(Types)
      /\ task_desc \in Seq(TaskRecord) /\ queue \in Seq(LogRecord) /\ written \in Seq(LogRecord)
      /\ begun \in Nat /\ Len(attached) \in Nat
  BY Elements DEF TasksTyped
<1>2. ASSUME NEW d \in Domains \cup {NoDomain}, TaskBegin(d) PROVE TasksTyped'
  <2>1. given' \in Seq(SUBSET Nat) /\ attached' = attached
    BY <1>2, AnotherTask DEF TaskBegin, ProgramBegins
  <2>2. CASE Active /\ clock' = clock + 1
    <3> DEFINE r == [task |-> begun + 1, domain |-> d, start |-> clock, args |-> <<>>]
    <3>1. r \in TaskRecord
      BY <1>1, EmptySeq DEF TaskRecord, Args
    <3>2. CASE task_desc' = Append(task_desc, r)
      BY <1>1, <1>2, <2>1, <2>2, <3>1, <3>2, PushTask DEF TasksTyped, TaskBegin, Ignored
    <3> QED
      BY <1>2, <2>2, <3>2 DEF TaskBegin
  <2> QED
    BY <1>1, <1>2, <2>1, <2>2 DEF TaskBegin, Ignored, Tick, TasksTyped
<1>3. ASSUME ~Empty, Log, Pop, Tick, UNCHANGED <<given, attached, written>> PROVE TasksTyped'
  <2> DEFINE r == [task |-> Top.task, start |-> Top.start, end |-> clock, args |-> Top.args]
  <2>1. r \in LogRecord
    BY <1>1, <1>3, PopTask DEF TaskRecord, LogRecord
  <2> QED
    BY <1>1, <1>3, <2>1, PopTask, LogTask DEF TasksTyped, Log, Tick
<1>4. ASSUME ~Empty, Pop, clock' = clock + 1, UNCHANGED <<given, attached, written, queue>> PROVE TasksTyped'
  BY <1>1, <1>4, PopTask DEF TasksTyped
<1>5. ASSUME UNCHANGED taskVars PROVE TasksTyped'
  BY <1>1, <1>5 DEF TasksTyped, taskVars
<1>6. ASSUME NEW d \in Domains \cup {NoDomain}, TaskEnd(d) PROVE TasksTyped'
  BY <1>1, <1>3, <1>4, <1>6 DEF TaskEnd, ProgramEnds, Matches, Drop, Ignored, Tick, TasksTyped
<1>7. ASSUME NEW d \in Domains \cup {NoDomain}, TaskEndMpi(d) PROVE TasksTyped'
  BY <1>1, <1>4, <1>7 DEF TaskEndMpi, ProgramEnds, Matches, Drop, Ignored, Tick, TasksTyped
<1>8. CASE Marker
  <2> DEFINE r == [task |-> begun + 1, start |-> clock, end |-> clock, args |-> <<>>]
  <2>1. r \in LogRecord
    BY <1>1, EmptySeq DEF LogRecord, Args
  <2>2. given' \in Seq(SUBSET Nat) /\ attached' = attached
    BY <1>8, AnotherTask DEF Marker
  <2>3. CASE queue' = Append(queue, r) /\ clock' = clock + 1 /\ UNCHANGED <<task_desc, written>>
    BY <1>1, <2>1, <2>2, <2>3, LogTask DEF TasksTyped
  <2>4. CASE UNCHANGED <<task_desc, written, queue, clock>>
    BY <1>1, <2>2, <2>4 DEF TasksTyped
  <2> QED
    BY <1>8, <2>3, <2>4 DEF Marker, Tick, Ignored
<1>9. ASSUME NEW type \in Types, MetadataAdd(type) PROVE TasksTyped'
  <2>1. /\ given' \in Seq(SUBSET Nat) /\ attached' \in Seq(Types)
        /\ UNCHANGED <<clock, queue, written>>
    BY <1>9, AnotherItem DEF MetadataAdd
  <2>2. CASE UNCHANGED task_desc
    BY <1>1, <2>1, <2>2 DEF TasksTyped
  <2>3. CASE /\ ~Empty
             /\ task_desc' = [task_desc EXCEPT ![Len(task_desc)].args = Attach(Top.args, Len(attached) + 1, type)]
    <3>1. Top \in TaskRecord
      BY <2>3, EmptySeq, ElementOfSeq DEF TasksTyped, Empty, Top
    <3>2. Attach(Top.args, Len(attached) + 1, type) \in Args
      BY <1>1, <3>1, AttachFacts DEF TaskRecord
    <3> QED
      BY <1>1, <2>1, <2>3, <3>2, ChangeTop DEF TasksTyped
  <2> QED
    BY <1>9, <2>2, <2>3 DEF MetadataAdd
<1>10. CASE Write
  BY <1>1, <1>10, WriteFacts DEF TasksTyped, Write
<1> QED
  BY <1>2, <1>5, <1>6, <1>7, <1>8, <1>9, <1>10 DEF Next, TaskNext, vars

--------------------------------------------------------------------------------
(* Records of the tasks nest.                                              *)

\* An open task began before now, after or inside what was logged; both are
\* numbered by the program's calls.
Nested ==
  /\ LoggedOnceNested
  /\ \A i \in DOMAIN Logged : Logged[i].end < clock /\ Logged[i].task <= begun
  /\ \A k \in DOMAIN task_desc : task_desc[k].start < clock /\ task_desc[k].task <= begun
  /\ \A k, l \in DOMAIN task_desc :
       k < l => task_desc[k].start < task_desc[l].start /\ task_desc[k].task # task_desc[l].task
  /\ \A i \in DOMAIN Logged : \A k \in DOMAIN task_desc :
       Logged[i].end < task_desc[k].start \/ task_desc[k].start < Logged[i].start

\* Nothing is logged, and no task begins.
LEMMA NestedKept ==
  ASSUME TasksTyped, Nested, Logged' = Logged,
         clock' \in Nat, clock' >= clock, begun' \in Nat, begun' >= begun,
         DOMAIN task_desc' \subseteq DOMAIN task_desc,
         \A k \in DOMAIN task_desc' :
           task_desc'[k].task = task_desc[k].task /\ task_desc'[k].start = task_desc[k].start
  PROVE  Nested'
<1>1. /\ \A i \in DOMAIN Logged : Logged[i] \in LogRecord
      /\ \A k \in DOMAIN task_desc : task_desc[k] \in TaskRecord
      /\ clock \in Nat /\ begun \in Nat
  BY Elements DEF TasksTyped
<1>2. LoggedOnceNested'
  BY DEF Nested, LoggedOnceNested
<1>3. \A i \in DOMAIN Logged' : Logged'[i].end < clock' /\ Logged'[i].task <= begun'
  BY <1>1 DEF Nested, LogRecord
<1>4. \A k \in DOMAIN task_desc' : task_desc'[k].start < clock' /\ task_desc'[k].task <= begun'
  BY <1>1 DEF Nested, TaskRecord
<1>5. \A k, l \in DOMAIN task_desc' :
        k < l => task_desc'[k].start < task_desc'[l].start /\ task_desc'[k].task # task_desc'[l].task
  BY DEF Nested
<1>6. \A i \in DOMAIN Logged' : \A k \in DOMAIN task_desc' :
        Logged'[i].end < task_desc'[k].start \/ task_desc'[k].start < Logged'[i].start
  BY DEF Nested
<1> QED
  BY <1>2, <1>3, <1>4, <1>5, <1>6 DEF Nested

LEMMA NestedBegin ==
  ASSUME TasksTyped, Nested, NEW r \in TaskRecord,
         r.task = begun + 1, r.start = clock, task_desc' = Append(task_desc, r),
         Logged' = Logged, clock' = clock + 1, begun' = begun + 1
  PROVE  Nested'
<1> DEFINE n == Len(task_desc) + 1
<1>1. /\ \A i \in DOMAIN Logged : Logged[i] \in LogRecord
      /\ \A k \in DOMAIN task_desc : task_desc[k] \in TaskRecord
      /\ clock \in Nat /\ begun \in Nat
      /\ DOMAIN task_desc = 1..Len(task_desc) /\ Len(task_desc) \in Nat
  BY Elements DEF TasksTyped
<1>2. /\ DOMAIN task_desc' = 1..n /\ task_desc'[n] = r
      /\ \A k \in DOMAIN task_desc : task_desc'[k] = task_desc[k]
  BY PushTask
<1>3. \A k \in DOMAIN task_desc' : k = n \/ (k \in DOMAIN task_desc /\ k < n)
  BY <1>1, <1>2
<1>4. n \notin DOMAIN task_desc
  BY <1>1
<1> HIDE DEF n
<1>5. LoggedOnceNested'
  BY <1>1, <1>2, <1>3 DEF Nested, LoggedOnceNested, LogRecord
<1>6. \A i \in DOMAIN Logged' : Logged'[i].end < clock' /\ Logged'[i].task <= begun'
  BY <1>1 DEF Nested, LogRecord
<1>7. \A k \in DOMAIN task_desc' : task_desc'[k].start < clock' /\ task_desc'[k].task <= begun'
  BY <1>1, <1>2, <1>3 DEF Nested, TaskRecord
<1>8. ASSUME NEW k \in DOMAIN task_desc', NEW l \in DOMAIN task_desc', k < l
      PROVE  task_desc'[k].start < task_desc'[l].start /\ task_desc'[k].task # task_desc'[l].task
  <2>1. k \in DOMAIN task_desc
    <3>1. k # n
      BY <1>1, <1>2, <1>8 DEF n
    <3> QED
      BY <1>3, <3>1
  <2>2. CASE l \in DOMAIN task_desc
    BY <1>2, <1>8, <2>1, <2>2 DEF Nested
  <2>3. CASE l = n
    BY <1>1, <1>2, <2>1, <2>3 DEF Nested, TaskRecord
  <2> QED
    BY <1>3, <2>2, <2>3
<1>9. \A i \in DOMAIN Logged' : \A k \in DOMAIN task_desc' :
        Logged'[i].end < task_desc'[k].start \/ task_desc'[k].start < Logged'[i].start
  BY <1>2, <1>3 DEF Nested
<1> QED
  BY <1>5, <1>6, <1>7, <1>8, <1>9 DEF Nested

\* One record is logged that ends now: of a task that leaves the stack, or of a
\* marker.
LEMMA NestedLog ==
  ASSUME TasksTyped, Nested, NEW r \in LogRecord, r.end = clock, r.start <= clock,
         queue' = Append(queue, r), written' = written,
         clock' = clock + 1, begun' \in Nat, begun' >= begun, r.task <= begun',
         DOMAIN task_desc' \subseteq DOMAIN task_desc,
         \A k \in DOMAIN task_desc' :
           task_desc'[k] = task_desc[k] /\ task_desc[k].task # r.task /\ task_desc[k].start < r.start,
         \A i \in DOMAIN Logged :
           Logged[i].task # r.task /\ (Logged[i].end < r.start \/ r.start < Logged[i].start)
  PROVE  Nested'
<1> DEFINE n == Len(Logged) + 1
<1>1. /\ \A i \in DOMAIN Logged : Logged[i] \in LogRecord
      /\ \A k \in DOMAIN task_desc : task_desc[k] \in TaskRecord
      /\ clock \in Nat /\ begun \in Nat
      /\ DOMAIN Logged = 1..Len(Logged) /\ Len(Logged) \in Nat
  BY Elements DEF TasksTyped
<1>2. /\ DOMAIN Logged' = 1..n /\ Logged'[n] = r
      /\ \A i \in DOMAIN Logged : Logged'[i] = Logged[i]
  BY LogTask
<1>3. \A i \in DOMAIN Logged' : i = n \/ (i \in DOMAIN Logged /\ i < n)
  BY <1>1, <1>2
<1>4. n \in Nat /\ DOMAIN Logged' \subseteq Nat
  BY <1>1, <1>2
<1> HIDE DEF n
<1>5. LoggedOnceNested'
  <2>1. ASSUME NEW i \in DOMAIN Logged' PROVE Logged'[i].start <= Logged'[i].end
    BY <1>2, <1>3 DEF Nested, LoggedOnceNested
  <2>2. ASSUME NEW i \in DOMAIN Logged', NEW j \in DOMAIN Logged', i # j
        PROVE  Logged'[i].task # Logged'[j].task
    BY <1>2, <1>3, <2>2 DEF Nested, LoggedOnceNested
  <2>3. ASSUME NEW i \in DOMAIN Logged', NEW j \in DOMAIN Logged', i < j
        PROVE  \/ Logged'[i].end < Logged'[j].start
               \/ Logged'[j].start < Logged'[i].start /\ Logged'[i].end < Logged'[j].end
    <3>1. i \in DOMAIN Logged
      BY <1>2, <1>3, <1>4, <2>3
    <3>2. CASE j = n
      BY <1>2, <3>1, <3>2 DEF Nested
    <3>3. CASE j \in DOMAIN Logged
      BY <1>2, <2>3, <3>1, <3>3 DEF Nested, LoggedOnceNested
    <3> QED
      BY <1>3, <3>2, <3>3
  <2>4. ASSUME NEW i \in DOMAIN Logged', NEW k \in DOMAIN task_desc'
        PROVE  Logged'[i].task # task_desc'[k].task
    BY <1>2, <1>3 DEF Nested, LoggedOnceNested
  <2> QED
    BY <2>1, <2>2, <2>3, <2>4 DEF LoggedOnceNested
<1>6. \A i \in DOMAIN Logged' : Logged'[i].end < clock' /\ Logged'[i].task <= begun'
  BY <1>1, <1>2, <1>3 DEF Nested, LogRecord
<1>7. \A k \in DOMAIN task_desc' : task_desc'[k].start < clock' /\ task_desc'[k].task <= begun'
  BY <1>1 DEF Nested, TaskRecord
<1>8. \A k, l \in DOMAIN task_desc' :
        k < l => task_desc'[k].start < task_desc'[l].start /\ task_desc'[k].task # task_desc'[l].task
  BY DEF Nested
<1>9. \A i \in DOMAIN Logged' : \A k \in DOMAIN task_desc' :
        Logged'[i].end < task_desc'[k].start \/ task_desc'[k].start < Logged'[i].start
  BY <1>2, <1>3 DEF Nested
<1> QED
  BY <1>5, <1>6, <1>7, <1>8, <1>9 DEF Nested

\* The top of the stack leaves it, and is logged.
LEMMA NestedEnd ==
  ASSUME TasksTyped, Nested, ~Empty, Log, Pop, Tick, UNCHANGED <<given, written>>
  PROVE  Nested'
<1> DEFINE n == Len(task_desc)
           r == [task |-> Top.task, start |-> Top.start, end |-> clock, args |-> Top.args]
<1>1. /\ clock \in Nat /\ begun \in Nat /\ n \in Nat /\ n \in DOMAIN task_desc
      /\ DOMAIN task_desc = 1..n /\ DOMAIN task_desc' = 1..(n - 1)
      /\ \A k \in DOMAIN task_desc' : task_desc'[k] = task_desc[k]
      /\ Top \in TaskRecord /\ Top = task_desc[n]
  BY PopTask, Elements DEF TasksTyped, Top
<1>2. r \in LogRecord /\ r.end = clock /\ r.start = Top.start /\ r.task = Top.task
  BY <1>1 DEF TaskRecord, LogRecord
<1>3. queue' = Append(queue, r) /\ clock' = clock + 1 /\ begun' = begun /\ written' = written
  BY DEF Log, Tick, begun
<1> HIDE DEF r, n
<1>4. r.start <= clock /\ r.task <= begun'
  BY <1>1, <1>2, <1>3 DEF Nested, TaskRecord
<1>5. ASSUME NEW k \in DOMAIN task_desc'
      PROVE  task_desc'[k] = task_desc[k] /\ task_desc[k].task # r.task /\ task_desc[k].start < r.start
  <2>1. k \in DOMAIN task_desc /\ k < n
    BY <1>1
  <2> QED
    BY <1>1, <1>2, <2>1 DEF Nested
<1>6. \A i \in DOMAIN Logged :
        Logged[i].task # r.task /\ (Logged[i].end < r.start \/ r.start < Logged[i].start)
  BY <1>1, <1>2 DEF Nested, LoggedOnceNested
<1>7. DOMAIN task_desc' \subseteq DOMAIN task_desc
  BY <1>1
<1> QED
  BY <1>1, <1>2, <1>3, <1>4, <1>5, <1>6, <1>7, NestedLog

\* It leaves it and is not logged.
LEMMA NestedDrop ==
  ASSUME TasksTyped, Nested, ~Empty, Pop, clock' = clock + 1, UNCHANGED <<given, queue, written>>
  PROVE  Nested'
<1>1. /\ clock \in Nat /\ begun \in Nat /\ Len(task_desc) \in Nat
      /\ DOMAIN task_desc = 1..Len(task_desc) /\ DOMAIN task_desc' = 1..(Len(task_desc) - 1)
      /\ \A k \in DOMAIN task_desc' : task_desc'[k] = task_desc[k]
  BY PopTask, Elements DEF TasksTyped
<1>2. clock' \in Nat /\ clock' >= clock /\ begun' \in Nat /\ begun' >= begun /\ Logged' = Logged
      /\ DOMAIN task_desc' \subseteq DOMAIN task_desc
  BY <1>1 DEF begun, Logged
<1> QED
  BY <1>1, <1>2, NestedKept

LEMMA NestedNext == TasksTyped /\ Nested /\ [Next]_vars => Nested'
<1> SUFFICES ASSUME TasksTyped, Nested, [Next]_vars PROVE Nested'
  OBVIOUS
<1>1. clock \in Nat /\ begun \in Nat
  BY Elements DEF TasksTyped
<1>2. ASSUME UNCHANGED <<clock, task_desc>>, Logged' = Logged, begun' \in {begun, begun + 1}
      PROVE  Nested'
  BY <1>1, <1>2, NestedKept
<1>3. ASSUME NEW d \in Domains \cup {NoDomain}, TaskBegin(d) PROVE Nested'
  <2>1. begun' = begun + 1
    BY <1>3, AnotherTask DEF TaskBegin, ProgramBegins
  <2> DEFINE r == [task |-> begun + 1, domain |-> d, start |-> clock, args |-> <<>>]
  <2>2. r \in TaskRecord /\ r.task = begun + 1 /\ r.start = clock
    BY <1>1, EmptySeq DEF TaskRecord, Args
  <2>3. CASE task_desc' = Append(task_desc, r) /\ clock' = clock + 1 /\ UNCHANGED <<queue, written>>
    <3>1. Logged' = Logged
      BY <2>3 DEF Logged
    <3> HIDE DEF r
    <3> QED
      BY <2>1, <2>2, <2>3, <3>1, NestedBegin
  <2>4. CASE UNCHANGED <<clock, task_desc, queue, written>>
    BY <1>2, <2>1, <2>4 DEF Logged
  <2> QED
    BY <1>3, <2>3, <2>4 DEF TaskBegin, Ignored, Tick
<1>4. ASSUME UNCHANGED taskVars PROVE Nested'
  BY <1>2, <1>4 DEF taskVars, Logged, begun
<1>5. ASSUME UNCHANGED <<clock, task_desc, queue, written, given>> PROVE Nested'
  BY <1>2, <1>5 DEF Logged, begun
<1>6. ASSUME NEW d \in Domains \cup {NoDomain}, TaskEnd(d) PROVE Nested'
  BY <1>5, <1>6, NestedEnd, NestedDrop DEF TaskEnd, ProgramEnds, Matches, Drop, Ignored, Tick
<1>7. ASSUME NEW d \in Domains \cup {NoDomain}, TaskEndMpi(d) PROVE Nested'
  BY <1>5, <1>7, NestedDrop DEF TaskEndMpi, ProgramEnds, Matches, Drop, Ignored, Tick
<1>8. CASE Marker
  <2> DEFINE r == [task |-> begun + 1, start |-> clock, end |-> clock, args |-> <<>>]
  <2>1. r \in LogRecord /\ r.task = begun + 1 /\ r.start = clock /\ r.end = clock
    BY <1>1, EmptySeq DEF LogRecord, Args
  <2>2. begun' = begun + 1
    BY <1>8, AnotherTask DEF Marker
  <2>3. CASE queue' = Append(queue, r) /\ clock' = clock + 1 /\ UNCHANGED <<task_desc, written>>
    <3> HIDE DEF r
    <3>1. /\ \A k \in DOMAIN task_desc : task_desc[k] \in TaskRecord
          /\ \A i \in DOMAIN Logged : Logged[i] \in LogRecord
      BY Elements
    <3>2. \A k \in DOMAIN task_desc : task_desc[k].task # r.task /\ task_desc[k].start < r.start
      BY <1>1, <2>1, <3>1 DEF Nested, TaskRecord
    <3>3. \A i \in DOMAIN Logged : Logged[i].task # r.task /\ Logged[i].end < r.start
      BY <1>1, <2>1, <3>1 DEF Nested, LogRecord
    <3> QED
      BY <1>1, <2>1, <2>2, <2>3, <3>2, <3>3, NestedLog
  <2>4. CASE UNCHANGED <<task_desc, written, queue, clock>>
    BY <1>2, <2>2, <2>4 DEF Logged
  <2> QED
    BY <1>8, <2>3, <2>4 DEF Marker, Tick, Ignored
<1>9. ASSUME NEW type \in Types, MetadataAdd(type) PROVE Nested'
  <2>1. begun' = begun /\ Logged' = Logged /\ clock' = clock
    BY <1>9, AnotherItem DEF MetadataAdd, Logged
  <2>2. CASE UNCHANGED task_desc
    BY <1>2, <2>1, <2>2
  <2>3. CASE /\ ~Empty
             /\ task_desc' = [task_desc EXCEPT ![Len(task_desc)].args = Attach(Top.args, Len(attached) + 1, type)]
    <3>1. Top \in TaskRecord /\ Len(attached) \in Nat
      BY <2>3, Elements, EmptySeq, ElementOfSeq DEF TasksTyped, Empty, Top
    <3>2. Attach(Top.args, Len(attached) + 1, type) \in Args
      BY <3>1, AttachFacts DEF TaskRecord
    <3>3. /\ DOMAIN task_desc' = DOMAIN task_desc
          /\ \A k \in DOMAIN task_desc :
               task_desc'[k].task = task_desc[k].task /\ task_desc'[k].start = task_desc[k].start
      BY <2>3, <3>2, ChangeTop
    <3> QED
      BY <1>1, <2>1, <3>3, NestedKept
  <2> QED
    BY <1>9, <2>2, <2>3 DEF MetadataAdd
<1>10. CASE Write
  <2>1. Logged' = Logged
    BY <1>10, WriteFacts
  <2> QED
    BY <1>2, <1>10, <2>1 DEF Write, begun
<1> QED
  BY <1>3, <1>4, <1>6, <1>7, <1>8, <1>9, <1>10 DEF Next, TaskNext, vars

LEMMA TasksInit == Init => TasksTyped /\ Nested
<1> SUFFICES ASSUME Init PROVE TasksTyped /\ Nested
  OBVIOUS
<1>1. /\ task_desc = <<>> /\ queue = <<>> /\ written = <<>> /\ given = <<>> /\ attached = <<>>
      /\ clock = 1
  BY DEF Init, TaskInit
<1>2. TasksTyped
  BY <1>1, EmptySeq DEF TasksTyped
<1>3. Logged = <<>>
  BY <1>1, EmptySeq, ConcatEmptySeq DEF Logged
<1>4. DOMAIN Logged = {} /\ DOMAIN task_desc = {}
  BY <1>1, <1>3
<1> QED
  BY <1>2, <1>4 DEF Nested, LoggedOnceNested

\* However pauses, null domains and ends in the wrong order mix the stack up, the
\* records of a thread's tasks nest, no task is logged twice, and none that was
\* logged is still open (itt_collector.h, __itt_task_begin and __itt_task_end).
THEOREM LoggedOnceNestedCorrect == Spec => []LoggedOnceNested
<1>1. Nested => LoggedOnceNested
  BY DEF Nested
<1> QED
  BY <1>1, TasksInit, TypedNext, NestedNext, PTL DEF Spec

--------------------------------------------------------------------------------
(* Metadata blocks have one owner.                                         *)

Apart(a, b) == Blocks(a) \cap Blocks(b) = {}
Has(seq, x) == \E i \in DOMAIN seq : x \in Blocks(seq[i].args)

\* A new item is none of the blocks there are.
Owned ==
  /\ \A k, l \in DOMAIN task_desc : k # l => Apart(task_desc[k].args, task_desc[l].args)
  /\ \A i, j \in DOMAIN queue : i # j => Apart(queue[i].args, queue[j].args)
  /\ \A k \in DOMAIN task_desc : \A i \in DOMAIN queue : Apart(task_desc[k].args, queue[i].args)
  /\ \A x : x \in heap /\ x \notin dropped <=> Has(task_desc, x) \/ Has(queue, x)
  /\ \A x \in heap \cup dropped : x \in 1..Len(attached)

LEMMA NoBlocks == Blocks(<<>>) = {}
BY DEF Blocks

LEMMA OwnedSingle ==
  ASSUME TasksTyped, Owned
  PROVE  SingleOwner
<1> DEFINE n == Len(task_desc)
           m == Len(queue)
           owners == task_desc \o queue
<1>1. /\ task_desc \in Seq(TaskRecord \cup LogRecord) /\ queue \in Seq(TaskRecord \cup LogRecord)
      /\ DOMAIN task_desc = 1..n /\ DOMAIN queue = 1..m /\ n \in Nat /\ m \in Nat
  BY Elements DEF TasksTyped
<1>2. owners \in Seq(TaskRecord \cup LogRecord) /\ Len(owners) = n + m
  BY <1>1, ConcatProperties
<1>3. DOMAIN owners = 1..(n + m)
  BY <1>2, LenProperties
<1>4. \A i \in 1..(n + m) : owners[i] = IF i <= n THEN task_desc[i] ELSE queue[i - n]
  BY <1>1, ConcatProperties
<1> HIDE DEF owners, n, m
<1>5. ASSUME NEW i \in DOMAIN owners
      PROVE  \/ i \in DOMAIN task_desc /\ owners[i] = task_desc[i]
             \/ i - n \in DOMAIN queue /\ owners[i] = queue[i - n] /\ i \notin DOMAIN task_desc
  BY <1>1, <1>3, <1>4
<1>6. ASSUME NEW i \in DOMAIN owners, NEW j \in DOMAIN owners, i # j
      PROVE  Apart(owners[i].args, owners[j].args)
  <2>1. CASE i \in DOMAIN task_desc /\ j \in DOMAIN task_desc
    BY <1>1, <1>5, <1>6, <2>1 DEF Owned
  <2>2. CASE i \notin DOMAIN task_desc /\ j \notin DOMAIN task_desc
    <3>1. i \in Int /\ j \in Int /\ n \in Int
      BY <1>1, <1>3
    <3>2. i - n # j - n
      BY <1>6, <3>1
    <3> QED
      BY <1>5, <2>2, <3>2 DEF Owned
  <2>3. CASE i \in DOMAIN task_desc /\ j \notin DOMAIN task_desc
    BY <1>5, <2>3 DEF Owned
  <2>4. CASE i \notin DOMAIN task_desc /\ j \in DOMAIN task_desc
    BY <1>5, <2>4 DEF Owned, Apart
  <2> QED
    BY <2>1, <2>2, <2>3, <2>4
<1>7. ASSUME NEW x, Has(task_desc, x) \/ Has(queue, x)
      PROVE  Has(owners, x)
  <2>1. CASE Has(task_desc, x)
    <3>1. PICK k \in DOMAIN task_desc : x \in Blocks(task_desc[k].args)
      BY <2>1 DEF Has
    <3>2. k \in DOMAIN owners /\ owners[k] = task_desc[k]
      BY <1>1, <1>3, <1>4
    <3> QED
      BY <3>1, <3>2 DEF Has
  <2>2. CASE Has(queue, x)
    <3>1. PICK i \in DOMAIN queue : x \in Blocks(queue[i].args)
      BY <2>2 DEF Has
    <3>2. n + i \in DOMAIN owners /\ owners[n + i] = queue[i]
      BY <1>1, <1>3, <1>4
    <3> QED
      BY <3>1, <3>2 DEF Has
  <2> QED
    BY <1>7, <2>1, <2>2
<1>8. ASSUME NEW x, Has(owners, x)
      PROVE  Has(task_desc, x) \/ Has(queue, x)
  BY <1>5, <1>8 DEF Has
<1>9. heap \ dropped = UNION {Blocks(owners[i].args) : i \in DOMAIN owners}
  <2>1. \A x : x \in heap \ dropped <=> Has(owners, x)
    BY <1>7, <1>8 DEF Owned
  <2>2. \A x : x \in UNION {Blocks(owners[i].args) : i \in DOMAIN owners} <=> Has(owners, x)
    BY DEF Has
  <2> QED
    BY <2>1, <2>2
<1> QED
  BY <1>6, <1>9 DEF SingleOwner, Apart, owners

\* The owners of blocks stay as they are, but for some that own nothing.
LEMMA OwnedKept ==
  ASSUME Owned, UNCHANGED <<heap, dropped>>,
         Len(attached) \in Nat, Len(attached') \in Nat, Len(attached') >= Len(attached),
         DOMAIN task_desc \subseteq DOMAIN task_desc', DOMAIN queue \subseteq DOMAIN queue',
         \A k \in DOMAIN task_desc : task_desc'[k] = task_desc[k],
         \A i \in DOMAIN queue : queue'[i] = queue[i],
         \A k \in DOMAIN task_desc' \ DOMAIN task_desc : task_desc'[k].args = <<>>,
         \A i \in DOMAIN queue' \ DOMAIN queue : queue'[i].args = <<>>
  PROVE  Owned'
<1>1. \A k \in DOMAIN task_desc' :
        \/ k \in DOMAIN task_desc /\ task_desc'[k] = task_desc[k]
        \/ Blocks(task_desc'[k].args) = {}
  BY NoBlocks
<1>2. \A i \in DOMAIN queue' :
        \/ i \in DOMAIN queue /\ queue'[i] = queue[i]
        \/ Blocks(queue'[i].args) = {}
  BY NoBlocks
<1>3. \A k, l \in DOMAIN task_desc' : k # l => Apart(task_desc'[k].args, task_desc'[l].args)
  BY <1>1 DEF Owned, Apart
<1>4. \A i, j \in DOMAIN queue' : i # j => Apart(queue'[i].args, queue'[j].args)
  BY <1>2 DEF Owned, Apart
<1>5. \A k \in DOMAIN task_desc' : \A i \in DOMAIN queue' : Apart(task_desc'[k].args, queue'[i].args)
  BY <1>1, <1>2 DEF Owned, Apart
<1>6. \A x : (Has(task_desc, x) <=> Has(task_desc', x)) /\ (Has(queue, x) <=> Has(queue', x))
  BY <1>1, <1>2 DEF Has
<1>7. \A x : x \in heap' /\ x \notin dropped' <=> Has(task_desc', x) \/ Has(queue', x)
  BY <1>6 DEF Owned
<1>8. \A x \in heap' \cup dropped' : x \in 1..Len(attached')
  BY DEF Owned
<1> QED
  BY <1>3, <1>4, <1>5, <1>7, <1>8 DEF Owned

\* The top of the stack goes into the queue with what it owns.
LEMMA OwnedLog ==
  ASSUME TasksTyped, Owned, ~Empty, Log, Pop, UNCHANGED <<heap, dropped, attached, written>>
  PROVE  Owned'
<1> DEFINE n == Len(task_desc)
           m == Len(queue) + 1
           r == [task |-> Top.task, start |-> Top.start, end |-> clock, args |-> Top.args]
<1>1. /\ n \in DOMAIN task_desc /\ DOMAIN task_desc = 1..n /\ DOMAIN task_desc' = 1..(n - 1)
      /\ \A k \in DOMAIN task_desc' : task_desc'[k] = task_desc[k]
      /\ Top \in TaskRecord /\ Top = task_desc[n] /\ n \in Nat /\ clock \in Nat
      /\ DOMAIN queue = 1..Len(queue) /\ Len(queue) \in Nat
  BY PopTask, Elements DEF TasksTyped, Top
<1>2. r \in LogRecord /\ r.args = Top.args
  BY <1>1 DEF TaskRecord, LogRecord
<1>3. queue' = Append(queue, r)
  BY DEF Log
<1> HIDE DEF r
<1>4. /\ DOMAIN queue' = 1..m /\ queue'[m] = r
      /\ \A i \in DOMAIN queue : queue'[i] = queue[i]
  BY <1>2, <1>3, LogTask
<1>5. /\ \A i \in DOMAIN queue' : i = m \/ i \in DOMAIN queue
      /\ \A k \in DOMAIN task_desc : k = n \/ k \in DOMAIN task_desc'
      /\ \A k \in DOMAIN task_desc' : k \in DOMAIN task_desc /\ k # n
      /\ m \in DOMAIN queue' /\ DOMAIN queue \subseteq DOMAIN queue'
  BY <1>1, <1>4
<1>6. queue'[m].args = task_desc[n].args
  BY <1>1, <1>2, <1>4
<1> HIDE DEF n, m
<1>7. \A k, l \in DOMAIN task_desc' : k # l => Apart(task_desc'[k].args, task_desc'[l].args)
  BY <1>1, <1>5 DEF Owned
<1>8. ASSUME NEW i \in DOMAIN queue', NEW j \in DOMAIN queue', i # j
      PROVE  Apart(queue'[i].args, queue'[j].args)
  <2>1. CASE i # m /\ j # m
    BY <1>4, <1>5, <1>8, <2>1 DEF Owned
  <2>2. CASE i = m
    <3>1. j \in DOMAIN queue /\ queue'[j] = queue[j]
      BY <1>4, <1>5, <1>8, <2>2
    <3>2. Apart(task_desc[n].args, queue[j].args)
      BY <1>1, <3>1 DEF Owned
    <3> QED
      BY <1>6, <2>2, <3>1, <3>2
  <2>3. CASE j = m
    <3>1. i \in DOMAIN queue /\ queue'[i] = queue[i]
      BY <1>4, <1>5, <1>8, <2>3
    <3>2. Apart(task_desc[n].args, queue[i].args)
      BY <1>1, <3>1 DEF Owned
    <3> QED
      BY <1>6, <2>3, <3>1, <3>2 DEF Apart
  <2> QED
    BY <2>1, <2>2, <2>3
<1>9. \A k \in DOMAIN task_desc' : \A i \in DOMAIN queue' : Apart(task_desc'[k].args, queue'[i].args)
  BY <1>1, <1>4, <1>5, <1>6 DEF Owned
<1>10. ASSUME NEW x
       PROVE  Has(task_desc, x) \/ Has(queue, x) <=> Has(task_desc', x) \/ Has(queue', x)
  <2>1. ASSUME Has(task_desc, x) PROVE Has(task_desc', x) \/ Has(queue', x)
    BY <1>1, <1>5, <1>6, <2>1 DEF Has
  <2>2. ASSUME Has(queue, x) PROVE Has(queue', x)
    BY <1>4, <1>5, <2>2 DEF Has
  <2>3. ASSUME Has(task_desc', x) PROVE Has(task_desc, x)
    BY <1>1, <1>5, <2>3 DEF Has
  <2>4. ASSUME Has(queue', x) PROVE Has(task_desc, x) \/ Has(queue, x)
    BY <1>1, <1>4, <1>5, <1>6, <2>4 DEF Has
  <2> QED
    BY <2>1, <2>2, <2>3, <2>4
<1> QED
  BY <1>7, <1>8, <1>9, <1>10 DEF Owned

\* It is lost track of with what it owns.
LEMMA OwnedDrop ==
  ASSUME TasksTyped, Owned, ~Empty, Drop, Pop, UNCHANGED <<heap, attached>>
  PROVE  Owned'
<1> DEFINE n == Len(task_desc)
<1>1. /\ n \in DOMAIN task_desc /\ DOMAIN task_desc = 1..n /\ DOMAIN task_desc' = 1..(n - 1)
      /\ \A k \in DOMAIN task_desc' : task_desc'[k] = task_desc[k]
      /\ Top = task_desc[n] /\ n \in Nat
  BY PopTask, Elements DEF Top
<1>2. queue' = queue /\ dropped' = dropped \cup Blocks(task_desc[n].args)
  BY <1>1 DEF Drop
<1>3. /\ \A k \in DOMAIN task_desc : k = n \/ k \in DOMAIN task_desc'
      /\ \A k \in DOMAIN task_desc' : k \in DOMAIN task_desc /\ k # n
  BY <1>1
<1> HIDE DEF n
<1>4. \A k, l \in DOMAIN task_desc' : k # l => Apart(task_desc'[k].args, task_desc'[l].args)
  BY <1>1, <1>3 DEF Owned
<1>5. \A k \in DOMAIN task_desc' : \A i \in DOMAIN queue : Apart(task_desc'[k].args, queue[i].args)
  BY <1>1, <1>3 DEF Owned
<1>6. ASSUME NEW x
      PROVE  x \in heap' /\ x \notin dropped' <=> Has(task_desc', x) \/ Has(queue', x)
  <2>1. ASSUME Has(task_desc', x) PROVE Has(task_desc, x) /\ x \notin Blocks(task_desc[n].args)
    BY <1>1, <1>3, <2>1 DEF Has, Owned, Apart
  <2>2. ASSUME Has(queue, x) PROVE x \notin Blocks(task_desc[n].args)
    BY <1>1, <2>2 DEF Has, Owned, Apart
  <2>3. ASSUME Has(task_desc, x), x \notin Blocks(task_desc[n].args) PROVE Has(task_desc', x)
    BY <1>1, <1>3, <2>3 DEF Has
  <2> QED
    BY <1>2, <2>1, <2>2, <2>3 DEF Owned
<1>7. \A x \in Blocks(task_desc[n].args) : x \in heap
  BY <1>1 DEF Owned, Has
<1>8. \A x \in heap' \cup dropped' : x \in 1..Len(attached')
  BY <1>2, <1>7 DEF Owned
<1> QED
  BY <1>2, <1>4, <1>5, <1>6, <1>8 DEF Owned

\* The top of the stack gets one more item, in a block of its own or without one.
LEMMA OwnedAttach ==
  ASSUME TasksTyped, Owned, ~Empty, NEW type \in Types,
         UNCHANGED <<queue, dropped>>, Len(attached') = Len(attached) + 1,
         task_desc' = [task_desc EXCEPT ![Len(task_desc)].args = Attach(Top.args, Len(attached) + 1, type)],
         heap' = heap \cup (Blocks(Attach(Top.args, Len(attached) + 1, type)) \cap {Len(attached) + 1})
  PROVE  Owned'
<1> DEFINE n == Len(task_desc)
           item == Len(attached) + 1
           old == Blocks(Top.args)
           new == Blocks(Attach(Top.args, item, type))
<1>1. Top \in TaskRecord /\ Top = task_desc[n] /\ item \in Nat /\ Len(attached) \in Nat
  BY Elements, EmptySeq, ElementOfSeq DEF TasksTyped, Empty, Top
<1>2. /\ Attach(Top.args, item, type) \in Args
      /\ old \subseteq new /\ new \subseteq old \cup {item}
  BY <1>1, AttachFacts DEF TaskRecord
<1>3. /\ DOMAIN task_desc' = DOMAIN task_desc /\ n \in DOMAIN task_desc
      /\ \A k \in DOMAIN task_desc :
           task_desc'[k].args = IF k = n THEN Attach(Top.args, item, type) ELSE task_desc[k].args
  BY <1>2, ChangeTop
<1>4. item \notin heap /\ item \notin dropped
  BY <1>1 DEF Owned
<1>5. ~Has(task_desc, item) /\ ~Has(queue, item)
  BY <1>4 DEF Owned
<1>6. /\ Blocks(task_desc'[n].args) = new /\ Blocks(task_desc[n].args) = old
      /\ \A k \in DOMAIN task_desc \ {n} : task_desc'[k].args = task_desc[k].args
  BY <1>1, <1>3
<1>7. heap' = heap \cup (new \cap {item})
  OBVIOUS
<1>8. Len(attached') = item
  OBVIOUS
<1> HIDE DEF n, item, old, new
<1>9. ASSUME NEW k \in DOMAIN task_desc', NEW l \in DOMAIN task_desc', k # l
      PROVE  Apart(task_desc'[k].args, task_desc'[l].args)
  <2>1. ASSUME NEW j \in DOMAIN task_desc, j # n PROVE Blocks(task_desc[j].args) \cap new = {}
    <3>1. item \notin Blocks(task_desc[j].args)
      BY <1>5 DEF Has
    <3>2. Blocks(task_desc[j].args) \cap old = {}
      BY <1>3, <1>6, <2>1 DEF Owned, Apart
    <3> QED
      BY <1>2, <3>1, <3>2
  <2> QED
    BY <1>3, <1>6, <1>9, <2>1 DEF Owned, Apart
<1>10. ASSUME NEW k \in DOMAIN task_desc', NEW i \in DOMAIN queue
       PROVE  Apart(task_desc'[k].args, queue[i].args)
  <2>1. Blocks(queue[i].args) \cap new = {}
    <3>1. item \notin Blocks(queue[i].args)
      BY <1>5 DEF Has
    <3>2. Blocks(queue[i].args) \cap old = {}
      BY <1>3, <1>6 DEF Owned, Apart
    <3> QED
      BY <1>2, <3>1, <3>2
  <2> QED
    BY <1>3, <1>6, <2>1 DEF Owned, Apart
<1>11. ASSUME NEW x
       PROVE  x \in heap' /\ x \notin dropped' <=> Has(task_desc', x) \/ Has(queue', x)
  <2>1. Has(task_desc', x) <=> Has(task_desc, x) \/ x \in new
    BY <1>2, <1>3, <1>6 DEF Has
  <2>2. x \in new /\ x # item => Has(task_desc, x)
    BY <1>2, <1>3, <1>6 DEF Has
  <2> QED
    BY <1>4, <1>7, <2>1, <2>2 DEF Owned
<1>12. \A x \in heap' \cup dropped' : x \in 1..Len(attached')
  <2>1. item \in 1..item /\ \A x \in 1..Len(attached) : x \in 1..item
    BY <1>1 DEF item
  <2> QED
    BY <1>7, <1>8, <2>1 DEF Owned
<1> QED
  BY <1>3, <1>9, <1>10, <1>11, <1>12 DEF Owned

\* The oldest record is written and its blocks are freed.
LEMMA OwnedWrite ==
  ASSUME TasksTyped, Owned, Write
  PROVE  Owned'
<1>1. /\ Len(queue) \in Nat \ {0} /\ DOMAIN queue' = 1..(Len(queue) - 1)
      /\ \A i \in DOMAIN queue' : queue'[i] = queue[i + 1]
      /\ DOMAIN queue = 1..Len(queue)
  BY WriteFacts, Elements
<1>2. /\ heap' = heap \ Blocks(queue[1].args)
      /\ UNCHANGED <<task_desc, dropped, attached>>
  BY DEF Write, Freed
<1>3. /\ \A i \in DOMAIN queue' : i + 1 \in DOMAIN queue /\ i + 1 # 1
      /\ \A i \in DOMAIN queue : i # 1 => i - 1 \in DOMAIN queue' /\ queue'[i - 1] = queue[i]
      /\ \A i, j \in DOMAIN queue' : i # j => i + 1 # j + 1
      /\ 1 \in DOMAIN queue
  BY <1>1
<1>4. \A i, j \in DOMAIN queue' : i # j => Apart(queue'[i].args, queue'[j].args)
  BY <1>1, <1>3 DEF Owned
<1>5. \A k \in DOMAIN task_desc : \A i \in DOMAIN queue' : Apart(task_desc[k].args, queue'[i].args)
  BY <1>1, <1>3 DEF Owned
<1>6. ASSUME NEW x
      PROVE  x \in heap' /\ x \notin dropped' <=> Has(task_desc', x) \/ Has(queue', x)
  <2>1. ASSUME Has(queue', x) PROVE Has(queue, x) /\ x \notin Blocks(queue[1].args)
    <3>1. PICK i \in DOMAIN queue' : x \in Blocks(queue'[i].args)
      BY <2>1 DEF Has
    <3>2. i + 1 \in DOMAIN queue /\ i + 1 # 1 /\ x \in Blocks(queue[i + 1].args)
      BY <1>1, <1>3, <3>1
    <3>3. Apart(queue[i + 1].args, queue[1].args)
      BY <1>3, <3>2 DEF Owned
    <3> QED
      BY <3>2, <3>3 DEF Has, Apart
  <2>2. ASSUME Has(task_desc, x) PROVE x \notin Blocks(queue[1].args)
    BY <1>3, <2>2 DEF Has, Owned, Apart
  <2>3. ASSUME Has(queue, x), x \notin Blocks(queue[1].args) PROVE Has(queue', x)
    BY <1>1, <1>3, <2>3 DEF Has
  <2> QED
    BY <1>2, <2>1, <2>2, <2>3 DEF Owned
<1> QED
  BY <1>2, <1>4, <1>5, <1>6 DEF Owned

LEMMA OwnedNext == TasksTyped /\ Owned /\ [Next]_vars => Owned'
<1> SUFFICES ASSUME TasksTyped, Owned, [Next]_vars PROVE Owned'
  OBVIOUS
<1>1. /\ clock \in Nat /\ begun \in Nat /\ Len(attached) \in Nat
      /\ DOMAIN task_desc = 1..Len(task_desc) /\ Len(task_desc) \in Nat
      /\ DOMAIN queue = 1..Len(queue) /\ Len(queue) \in Nat
  BY Elements DEF TasksTyped
<1>2. ASSUME UNCHANGED <<task_desc, queue, heap, dropped>>,
             Len(attached') \in {Len(attached), Len(attached) + 1}
      PROVE  Owned'
  BY <1>1, <1>2, OwnedKept
<1>3. ASSUME NEW d \in Domains \cup {NoDomain}, TaskBegin(d) PROVE Owned'
  <2> DEFINE r == [task |-> begun + 1, domain |-> d, start |-> clock, args |-> <<>>]
  <2>1. r \in TaskRecord /\ r.args = <<>>
    BY <1>1, EmptySeq DEF TaskRecord, Args
  <2>2. CASE task_desc' = Append(task_desc, r) /\ UNCHANGED <<queue, heap, dropped, attached>>
    <3> HIDE DEF r
    <3>1. /\ DOMAIN task_desc' = 1..(Len(task_desc) + 1)
          /\ \A k \in DOMAIN task_desc : task_desc'[k] = task_desc[k]
          /\ task_desc'[Len(task_desc) + 1] = r
      BY <2>1, <2>2, PushTask
    <3>2. /\ DOMAIN task_desc \subseteq DOMAIN task_desc'
          /\ \A k \in DOMAIN task_desc' \ DOMAIN task_desc : k = Len(task_desc) + 1
      BY <1>1, <3>1
    <3> QED
      BY <1>1, <2>1, <2>2, <3>1, <3>2, OwnedKept
  <2>3. CASE UNCHANGED <<task_desc, queue, heap, dropped, attached>>
    BY <1>2, <2>3
  <2> QED
    BY <1>3, <2>2, <2>3 DEF TaskBegin, ProgramBegins, Ignored
<1>4. ASSUME UNCHANGED <<task_desc, queue, heap, dropped, attached>> PROVE Owned'
  BY <1>2, <1>4
<1>5. ASSUME NEW d \in Domains \cup {NoDomain}, TaskEnd(d) PROVE Owned'
  <2>1. CASE UNCHANGED <<task_desc, queue, heap, dropped>>
    BY <1>4, <1>5, <2>1 DEF TaskEnd, ProgramEnds
  <2>2. CASE ~Empty /\ Log /\ Pop /\ UNCHANGED <<heap, dropped, written>>
    BY <1>5, <2>2, OwnedLog DEF TaskEnd, ProgramEnds
  <2>3. CASE ~Empty /\ Drop /\ Pop /\ UNCHANGED heap
    BY <1>5, <2>3, OwnedDrop DEF TaskEnd, ProgramEnds
  <2> QED
    BY <1>5, <2>1, <2>2, <2>3 DEF TaskEnd, Matches, Ignored
<1>6. ASSUME NEW d \in Domains \cup {NoDomain}, TaskEndMpi(d) PROVE Owned'
  <2>1. CASE UNCHANGED <<task_desc, queue, heap, dropped>>
    BY <1>4, <1>6, <2>1 DEF TaskEndMpi, ProgramEnds
  <2>2. CASE ~Empty /\ Drop /\ Pop /\ UNCHANGED heap
    BY <1>6, <2>2, OwnedDrop DEF TaskEndMpi, ProgramEnds
  <2> QED
    BY <1>6, <2>1, <2>2 DEF TaskEndMpi, Matches, Ignored
<1>7. CASE Marker
  <2> DEFINE r == [task |-> begun + 1, start |-> clock, end |-> clock, args |-> <<>>]
  <2>1. r \in LogRecord /\ r.args = <<>>
    BY <1>1, EmptySeq DEF LogRecord, Args
  <2>2. CASE queue' = Append(queue, r) /\ UNCHANGED <<task_desc, written, heap, dropped, attached>>
    <3> HIDE DEF r
    <3>1. /\ DOMAIN queue' = 1..(Len(queue) + 1)
          /\ \A i \in DOMAIN queue : queue'[i] = queue[i]
          /\ queue'[Len(queue) + 1] = r
      BY <2>1, <2>2, LogTask
    <3>2. /\ DOMAIN queue \subseteq DOMAIN queue'
          /\ \A i \in DOMAIN queue' \ DOMAIN queue : i = Len(queue) + 1
      BY <1>1, <3>1
    <3> QED
      BY <1>1, <2>1, <2>2, <3>1, <3>2, OwnedKept
  <2> QED
    BY <1>4, <1>7, <2>2 DEF Marker, Ignored
<1>8. ASSUME NEW type \in Types, MetadataAdd(type) PROVE Owned'
  <2>1. Len(attached') = Len(attached) + 1 /\ UNCHANGED <<queue, dropped>>
    BY <1>8, AnotherItem DEF MetadataAdd
  <2>2. CASE UNCHANGED <<task_desc, heap>>
    BY <1>2, <2>1, <2>2
  <2>3. CASE ~Empty /\ ~UNCHANGED <<task_desc, heap>>
    BY <1>8, <2>1, <2>3, OwnedAttach DEF MetadataAdd
  <2> QED
    BY <1>8, <2>2, <2>3 DEF MetadataAdd
<1>9. CASE Write
  BY <1>9, OwnedWrite
<1>10. CASE UNCHANGED taskVars
  BY <1>4, <1>10 DEF taskVars
<1> QED
  BY <1>3, <1>5, <1>6, <1>7, <1>8, <1>9, <1>10 DEF Next, TaskNext, vars

\* Every block of metadata that a descriptor or a buffered record refers to is
\* live, has one owner, and is freed once, when the record is written; blocks are
\* lost only with tasks that end without a record (itt_collector.h, the metadata
\* calls; chromelogger.h, StringifyHostEvent).
THEOREM SingleOwnerCorrect == Spec => []SingleOwner
<1>1. Init => Owned
  <2> SUFFICES ASSUME Init PROVE Owned
    OBVIOUS
  <2>1. DOMAIN task_desc = {} /\ DOMAIN queue = {} /\ heap = {} /\ dropped = {}
    BY DEF Init, TaskInit
  <2> QED
    BY <2>1 DEF Owned, Has
<1>2. TasksTyped /\ Owned => SingleOwner
  BY OwnedSingle
<1> QED
  BY <1>1, <1>2, TasksInit, TypedNext, OwnedNext, PTL DEF Spec

--------------------------------------------------------------------------------
(* The stack is the program's own, and records carry what it attached.     *)

OpenRecord == [task : Nat, domain : Domains \cup {NoDomain}]

\* What a task of the program is to carry: all its items but the doubles.
Taken(items, types, t) == {n \in items[t] : types[n] # "double"}

SameStack ==
  /\ Len(task_desc) = Len(open)
  /\ \A k \in DOMAIN task_desc :
       task_desc[k].task = open[k].task /\ task_desc[k].domain = open[k].domain

AllCarried ==
  /\ \A k \in DOMAIN task_desc : Items(task_desc[k].args) = Taken(given, attached, task_desc[k].task)
  /\ \A i \in DOMAIN Logged : Items(Logged[i].args) = Taken(given, attached, Logged[i].task)

\* An item is given to one task only, after all others.
Accounted ==
  /\ open \in Seq(OpenRecord)
  /\ \A t \in DOMAIN given : given[t] \subseteq 1..Len(attached)
  /\ ~missed => SameStack /\ AllCarried

LEMMA AttachedItems ==
  ASSUME NEW args \in Args, NEW n \in Nat, NEW type \in Types
  PROVE  Items(Attach(args, n, type)) = Items(args) \cup {n}
<1> DEFINE new == Attach(args, n, type)
<1>1. CASE args = <<>>
  <2>1. PICK place \in {"inline", "indirect"} : new = <<Item(n, place)>>
    BY <1>1 DEF Attach
  <2>2. DOMAIN args = {} /\ DOMAIN new = {1} /\ new[1].item = n
    BY <1>1, <2>1 DEF Item
  <2> QED
    BY <2>2 DEF Items
<1>2. CASE args # <<>>
  <2>1. PICK len \in Nat \ {0} :
          /\ DOMAIN args = 1..len /\ DOMAIN new = 1..(len + 1)
          /\ new[1] = args[1] /\ new[2] = Item(n, "chained")
          /\ \A i \in 3..(len + 1) : new[i] = args[i - 1]
    BY <1>2, AttachShape
  <2> HIDE DEF new
  <2>2. ASSUME NEW i \in DOMAIN args PROVE args[i].item \in Items(new)
    <3>1. CASE i = 1
      BY <2>1, <3>1 DEF Items
    <3>2. CASE i # 1
      <4>1. i + 1 \in DOMAIN new /\ new[i + 1] = args[i]
        BY <2>1, <3>2
      <4> QED
        BY <4>1 DEF Items
    <3> QED
      BY <3>1, <3>2
  <2>3. n \in Items(new)
    <3>1. 2 \in DOMAIN new /\ new[2].item = n
      BY <2>1 DEF Item
    <3> QED
      BY <3>1 DEF Items
  <2>4. ASSUME NEW i \in DOMAIN new PROVE new[i].item \in Items(args) \cup {n}
    <3>1. CASE i = 1
      BY <2>1, <3>1 DEF Items
    <3>2. CASE i = 2
      BY <2>1, <3>2 DEF Item
    <3>3. CASE i \notin {1, 2}
      <4>1. i - 1 \in DOMAIN args /\ new[i] = args[i - 1]
        BY <2>1, <3>3
      <4> QED
        BY <4>1 DEF Items
    <3> QED
      BY <3>1, <3>2, <3>3
  <2>5. Items(args) \cup {n} \subseteq Items(new)
    BY <2>2, <2>3 DEF Items
  <2>6. Items(new) \subseteq Items(args) \cup {n}
    BY <2>4 DEF Items
  <2> QED
    BY <2>5, <2>6 DEF new
<1> QED
  BY <1>1, <1>2

LEMMA Numbered ==
  ASSUME TasksTyped, Nested
  PROVE  /\ DOMAIN given = 1..begun
         /\ \A k \in DOMAIN task_desc : task_desc[k].task \in 1..begun
         /\ \A i \in DOMAIN Logged : Logged[i].task \in 1..begun
<1>1. /\ \A i \in DOMAIN Logged : Logged[i] \in LogRecord
      /\ \A k \in DOMAIN task_desc : task_desc[k] \in TaskRecord
      /\ begun \in Nat
  BY Elements
<1>2. DOMAIN given = 1..begun
  BY LenProperties DEF TasksTyped, begun
<1> QED
  BY <1>1, <1>2 DEF Nested, LogRecord, TaskRecord

\* The program begins another task or sets a marker: nothing is attached to it yet.
LEMMA TakenByAnother ==
  ASSUME TasksTyped, given' = Append(given, {}), attached' = attached
  PROVE  /\ \A t \in 1..begun : Taken(given', attached', t) = Taken(given, attached, t)
         /\ Taken(given', attached', begun + 1) = {}
         /\ (\A t \in DOMAIN given : given[t] \subseteq 1..Len(attached))
              => \A t \in DOMAIN given' : given'[t] \subseteq 1..Len(attached')
<1>1. given \in Seq(SUBSET Nat) /\ {} \in SUBSET Nat
  BY DEF TasksTyped
<1>2. /\ given' \in Seq(SUBSET Nat) /\ Len(given') = begun + 1 /\ begun \in Nat
      /\ \A t \in 1..begun : given'[t] = given[t]
      /\ given'[begun + 1] = {} /\ DOMAIN given = 1..begun
  BY <1>1, AppendProperties, LenProperties DEF begun
<1>3. DOMAIN given' = 1..(begun + 1)
  BY <1>2, LenProperties
<1>4. \A t \in DOMAIN given' : t \in 1..begun \/ given'[t] = {}
  BY <1>2, <1>3
<1>5. \A t \in 1..begun : Taken(given', attached', t) = Taken(given, attached, t)
  BY <1>2 DEF Taken
<1>6. Taken(given', attached', begun + 1) = {}
  BY <1>2 DEF Taken
<1> QED
  BY <1>2, <1>4, <1>5, <1>6

\* The program attaches an item to a task.
LEMMA TakenWithItem ==
  ASSUME TasksTyped, NEW type \in Types, NEW task \in 1..begun,
         \A t \in DOMAIN given : given[t] \subseteq 1..Len(attached),
         attached' = Append(attached, type),
         given' = [given EXCEPT ![task] = @ \cup {Len(attached) + 1}]
  PROVE  /\ \A t \in 1..begun : t # task => Taken(given', attached', t) = Taken(given, attached, t)
         /\ Taken(given', attached', task) = Taken(given, attached, task) \cup (IF Accepted(type) THEN {Len(attached) + 1} ELSE {})
         /\ \A t \in DOMAIN given' : given'[t] \subseteq 1..Len(attached')
<1> DEFINE n == Len(attached) + 1
<1>1. /\ DOMAIN given = 1..begun /\ attached \in Seq(Types)
  BY LenProperties DEF TasksTyped, begun
<1>2. /\ Len(attached) \in Nat /\ Len(attached') = n /\ attached'[n] = type
      /\ \A m \in 1..Len(attached) : attached'[m] = attached[m]
  BY <1>1, AppendProperties, LenProperties
<1>3. /\ DOMAIN given' = 1..begun /\ given'[task] = given[task] \cup {n}
      /\ \A t \in 1..begun : t # task => given'[t] = given[t]
  BY <1>1
<1>4. n \notin 1..Len(attached) /\ n \in 1..n /\ 1..Len(attached) \subseteq 1..n
  BY <1>2
<1> HIDE DEF n
<1>5. ASSUME NEW t \in 1..begun, t # task PROVE Taken(given', attached', t) = Taken(given, attached, t)
  BY <1>1, <1>2, <1>3, <1>5 DEF Taken
<1>6. Taken(given', attached', task) = Taken(given, attached, task) \cup (IF Accepted(type) THEN {n} ELSE {})
  <2>1. \A m : m \in given[task] => m \in 1..Len(attached)
    BY <1>1
  <2>2. \A m : m \in Taken(given', attached', task) <=> m \in given'[task] /\ attached'[m] # "double"
    BY DEF Taken
  <2>3. \A m : m \in Taken(given, attached, task) <=> m \in given[task] /\ attached[m] # "double"
    BY DEF Taken
  <2>4. \A m : m \in Taken(given', attached', task) <=> m \in Taken(given, attached, task) \/ (m = n /\ Accepted(type))
    BY <1>2, <1>3, <2>1, <2>2, <2>3, ZenonT(30) DEF Accepted
  <2> HIDE DEF Taken
  <2> QED
    BY <2>4
<1>7. \A t \in DOMAIN given' : given'[t] \subseteq 1..Len(attached')
  BY <1>1, <1>2, <1>3, <1>4
<1> QED
  BY <1>5, <1>6, <1>7 DEF n

\* Nothing changes but that tasks without items may be begun, in the program's
\* account and on the stack or in neither.
LEMMA AccountedKept ==
  ASSUME TasksTyped, Nested, Accounted, open' = open, attached' = attached,
         given' \in {given, Append(given, {})},
         ~missed' => ~missed, task_desc' = task_desc, Logged' = Logged
  PROVE  Accounted'
<1>1. /\ DOMAIN given = 1..begun
      /\ \A k \in DOMAIN task_desc : task_desc[k].task \in 1..begun
      /\ \A i \in DOMAIN Logged : Logged[i].task \in 1..begun
  BY Numbered
<1>2. \A t \in 1..begun : Taken(given', attached', t) = Taken(given, attached, t)
  BY TakenByAnother DEF Taken
<1>3. \A t \in DOMAIN given' : given'[t] \subseteq 1..Len(attached')
  BY TakenByAnother DEF Accounted
<1>4. SameStack => SameStack'
  BY DEF SameStack
<1>5. AllCarried => AllCarried'
  BY <1>1, <1>2 DEF AllCarried
<1> QED
  BY <1>3, <1>4, <1>5 DEF Accounted

LEMMA OpenPushed ==
  ASSUME Accounted, begun \in Nat, NEW d \in Domains \cup {NoDomain},
         open' = Append(open, [task |-> begun + 1, domain |-> d])
  PROVE  /\ open' \in Seq(OpenRecord) /\ Len(open) \in Nat /\ Len(open') = Len(open) + 1
         /\ \A k \in 1..Len(open) : open'[k] = open[k]
         /\ open'[Len(open) + 1] = [task |-> begun + 1, domain |-> d]
<1>1. open \in Seq(OpenRecord) /\ [task |-> begun + 1, domain |-> d] \in OpenRecord
  BY DEF Accounted, OpenRecord
<1> QED
  BY <1>1, AppendProperties, LenProperties

\* A task leaves the program's own stack, the innermost one of its domain.
LEMMA OpenEnds ==
  ASSUME Accounted, NEW d, ProgramEnds(d)
  PROVE  /\ open' \in Seq(OpenRecord) /\ Len(open) \in Nat \ {0}
         /\ open[Len(open)].domain = d =>
              /\ Len(open') = Len(open) - 1
              /\ \A k \in 1..(Len(open) - 1) : open'[k] = open[k]
<1> DEFINE n == Len(open)
<1>1. open \in Seq(OpenRecord) /\ n \in Nat /\ DOMAIN open = 1..n
  BY LenProperties DEF Accounted
<1>2. \A k \in 1..n : open[k] \in OpenRecord
  BY <1>1, ElementOfSeq
<1>3. PICK i \in 1..n :
        /\ \A j \in (i + 1)..n : open[j].domain # d
        /\ open' = SubSeq(open, 1, i - 1) \o SubSeq(open, i + 1, n)
  BY <1>1 DEF ProgramEnds
<1> HIDE DEF n
<1>4. /\ SubSeq(open, 1, i - 1) \in Seq(OpenRecord) /\ Len(SubSeq(open, 1, i - 1)) = i - 1
      /\ \A k \in 1..(i - 1) : SubSeq(open, 1, i - 1)[k] = open[k]
  <2>1. i - 1 \in Int /\ 1 \in Int /\ \A k \in 1..(i - 1) : open[k] \in OpenRecord
    BY <1>1, <1>2
  <2>2. /\ SubSeq(open, 1, i - 1) \in Seq(OpenRecord)
        /\ Len(SubSeq(open, 1, i - 1)) = IF 1 <= i - 1 THEN (i - 1) - 1 + 1 ELSE 0
        /\ \A k \in 1..((i - 1) - 1 + 1) : SubSeq(open, 1, i - 1)[k] = open[1 + k - 1]
    BY <2>1, SubSeqProperties
  <2> QED
    BY <1>1, <2>2
<1>5. SubSeq(open, i + 1, n) \in Seq(OpenRecord)
  <2>1. i + 1 \in Int /\ n \in Int /\ \A k \in (i + 1)..n : open[k] \in OpenRecord
    BY <1>1, <1>2
  <2> QED
    BY <2>1, SubSeqProperties
<1>6. open' \in Seq(OpenRecord)
  BY <1>3, <1>4, <1>5, ConcatProperties
<1>7. n \in Nat \ {0}
  BY <1>1, <1>3
<1>8. ASSUME open[n].domain = d
      PROVE  Len(open') = n - 1 /\ \A k \in 1..(n - 1) : open'[k] = open[k]
  <2>1. i = n
    BY <1>1, <1>3, <1>8
  <2>2. SubSeq(open, i + 1, n) = <<>>
    BY <1>1, <2>1, SubSeqEmpty
  <2>3. open' = SubSeq(open, 1, i - 1)
    BY <1>3, <1>4, <2>2, ConcatEmptySeq
  <2> QED
    BY <1>4, <2>1, <2>3
<1> QED
  BY <1>6, <1>7, <1>8 DEF n

\* The stack is the program's: what ends is its top.
LEMMA TopEnds ==
  ASSUME TasksTyped, Accounted, ~missed, NEW d, ProgramEnds(d), Matches(d), Pop
  PROVE  SameStack'
<1>1. /\ task_desc' \in Seq(TaskRecord) /\ Len(task_desc) \in DOMAIN task_desc
      /\ DOMAIN task_desc' = 1..(Len(task_desc) - 1)
      /\ \A k \in DOMAIN task_desc' : task_desc'[k] = task_desc[k]
      /\ DOMAIN task_desc = 1..Len(task_desc) /\ Len(task_desc) \in Nat
  BY PopTask, Elements DEF Matches
<1>2. Len(task_desc') = Len(task_desc) - 1
  BY PopTask DEF Matches
<1>3. SameStack
  BY DEF Accounted
<1>4. open[Len(open)].domain = d
  BY <1>1, <1>3 DEF SameStack, Matches, Top
<1>5. Len(open') = Len(open) - 1 /\ \A k \in 1..(Len(open) - 1) : open'[k] = open[k]
  BY <1>4, OpenEnds
<1>6. \A k \in DOMAIN task_desc' : k \in DOMAIN task_desc
  BY <1>1
<1> QED
  BY <1>1, <1>2, <1>3, <1>5, <1>6 DEF SameStack

\* The top of the stack ends with the program's task and is logged with its items,
\* or it is dropped.
LEMMA AccountedEnd ==
  ASSUME TasksTyped, Nested, Accounted, NEW d, ProgramEnds(d), Matches(d), Pop,
         UNCHANGED <<missed, written>>, Log \/ queue' = queue
  PROVE  Accounted'
<1>1. given' = given /\ attached' = attached /\ open' \in Seq(OpenRecord)
  BY OpenEnds DEF ProgramEnds
<1>2. \A t : Taken(given', attached', t) = Taken(given, attached, t)
  BY <1>1 DEF Taken
<1>3. /\ Len(task_desc) \in DOMAIN task_desc /\ Top \in TaskRecord
      /\ DOMAIN task_desc' \subseteq DOMAIN task_desc
      /\ \A k \in DOMAIN task_desc' : task_desc'[k] = task_desc[k]
      /\ clock \in Nat
  <2>1. DOMAIN task_desc = 1..Len(task_desc) /\ Len(task_desc) \in Nat
    BY Elements
  <2> QED
    BY <2>1, PopTask DEF Matches, TasksTyped
<1>4. ASSUME ~missed PROVE SameStack' /\ AllCarried'
  <2>1. SameStack' /\ AllCarried
    BY <1>4, TopEnds DEF Accounted
  <2>2. \A k \in DOMAIN task_desc' : Items(task_desc'[k].args) = Taken(given', attached', task_desc'[k].task)
    BY <1>2, <1>3, <2>1 DEF AllCarried
  <2>3. \A i \in DOMAIN Logged' : Items(Logged'[i].args) = Taken(given', attached', Logged'[i].task)
    <3>1. CASE queue' = queue
      BY <1>2, <2>1, <3>1 DEF AllCarried, Logged
    <3>2. CASE Log
      <4> DEFINE r == [task |-> Top.task, start |-> Top.start, end |-> clock, args |-> Top.args]
      <4>1. r \in LogRecord /\ r.task = Top.task /\ r.args = Top.args
        BY <1>3 DEF TaskRecord, LogRecord
      <4>2. queue' = Append(queue, r)
        BY <3>2 DEF Log
      <4>3. Items(r.args) = Taken(given, attached, r.task)
        BY <1>3, <2>1, <4>1 DEF AllCarried, Top
      <4> HIDE DEF r
      <4>4. /\ DOMAIN Logged' = 1..(Len(Logged) + 1) /\ Logged'[Len(Logged) + 1] = r
            /\ \A i \in DOMAIN Logged : Logged'[i] = Logged[i]
            /\ DOMAIN Logged = 1..Len(Logged) /\ Len(Logged) \in Nat
        BY <4>1, <4>2, LogTask, Elements
      <4>5. \A i \in DOMAIN Logged' : i \in DOMAIN Logged \/ i = Len(Logged) + 1
        BY <4>4
      <4> QED
        BY <1>2, <2>1, <4>3, <4>4, <4>5 DEF AllCarried
    <3> QED
      BY <3>1, <3>2
  <2> QED
    BY <2>1, <2>2, <2>3 DEF AllCarried
<1> QED
  BY <1>1, <1>4 DEF Accounted

\* A call without effect makes the account void.
LEMMA AccountedMissed ==
  ASSUME TasksTyped, Nested, Accounted, open' \in Seq(OpenRecord), attached' = attached,
         given' \in {given, Append(given, {})}, missed'
  PROVE  Accounted'
<1>1. \A t \in DOMAIN given' : given'[t] \subseteq 1..Len(attached')
  BY TakenByAnother DEF Accounted
<1> QED
  BY <1>1 DEF Accounted

LEMMA AccountedBegin ==
  ASSUME TasksTyped, Nested, Accounted, NEW d \in Domains \cup {NoDomain}, TaskBegin(d)
  PROVE  Accounted'
<1> DEFINE r == [task |-> begun + 1, domain |-> d, start |-> clock, args |-> <<>>]
           n == Len(task_desc)
<1>1. /\ begun \in Nat /\ clock \in Nat /\ n \in Nat /\ DOMAIN task_desc = 1..n
      /\ r \in TaskRecord /\ r.args = <<>> /\ r.task = begun + 1 /\ r.domain = d
  BY Elements, EmptySeq DEF TasksTyped, TaskRecord, Args
<1>2. /\ open' = Append(open, [task |-> begun + 1, domain |-> d])
      /\ given' = Append(given, {}) /\ attached' = attached
  BY DEF TaskBegin, ProgramBegins
<1>3. /\ open' \in Seq(OpenRecord) /\ Len(open) \in Nat /\ Len(open') = Len(open) + 1
      /\ \A k \in 1..Len(open) : open'[k] = open[k]
      /\ open'[Len(open) + 1].task = begun + 1 /\ open'[Len(open) + 1].domain = d
  BY <1>1, <1>2, OpenPushed
<1>4. CASE missed'
  BY <1>2, <1>3, <1>4, AccountedMissed
<1>5. CASE missed' = missed /\ task_desc' = Append(task_desc, r) /\ UNCHANGED <<queue, written>>
  <2> HIDE DEF r
  <2>1. /\ task_desc' \in Seq(TaskRecord) /\ DOMAIN task_desc' = 1..(n + 1)
        /\ \A k \in DOMAIN task_desc : task_desc'[k] = task_desc[k]
        /\ task_desc'[n + 1] = r
    BY <1>1, <1>5, PushTask
  <2>2. Len(task_desc') = n + 1 /\ \A k \in DOMAIN task_desc' : k \in DOMAIN task_desc \/ k = n + 1
    BY <1>1, <2>1, LenProperties
  <2>3. /\ \A k \in DOMAIN task_desc : task_desc[k].task \in 1..begun
        /\ \A i \in DOMAIN Logged : Logged[i].task \in 1..begun
    BY Numbered
  <2>4. /\ \A t \in 1..begun : Taken(given', attached', t) = Taken(given, attached, t)
        /\ Taken(given', attached', begun + 1) = {}
        /\ \A t \in DOMAIN given' : given'[t] \subseteq 1..Len(attached')
    BY <1>2, TakenByAnother DEF Accounted
  <2>5. Items(<<>>) = {}
    BY DEF Items
  <2>6. ASSUME ~missed PROVE SameStack'
    <3>1. SameStack
      BY <2>6 DEF Accounted
    <3> QED
      BY <1>1, <1>3, <2>1, <2>2, <3>1 DEF SameStack
  <2>7. ASSUME ~missed PROVE AllCarried'
    <3>1. AllCarried
      BY <2>7 DEF Accounted
    <3>2. \A i \in DOMAIN Logged' : Items(Logged'[i].args) = Taken(given', attached', Logged'[i].task)
      BY <1>5, <2>3, <2>4, <3>1 DEF AllCarried, Logged
    <3>3. ASSUME NEW k \in DOMAIN task_desc'
          PROVE  Items(task_desc'[k].args) = Taken(given', attached', task_desc'[k].task)
      <4>1. CASE k \in DOMAIN task_desc
        BY <2>1, <2>3, <2>4, <3>1, <4>1 DEF AllCarried
      <4>2. CASE k = n + 1
        BY <1>1, <2>1, <2>4, <2>5, <4>2
      <4> QED
        BY <2>2, <4>1, <4>2
    <3> QED
      BY <3>2, <3>3 DEF AllCarried
  <2> QED
    BY <1>3, <1>5, <2>4, <2>6, <2>7 DEF Accounted
<1> QED
  BY <1>4, <1>5 DEF TaskBegin

\* A marker is logged without items, and nothing is ever given to it.
LEMMA AccountedMarker ==
  ASSUME TasksTyped, Nested, Accounted, Marker
  PROVE  Accounted'
<1> DEFINE r == [task |-> begun + 1, start |-> clock, end |-> clock, args |-> <<>>]
<1>1. begun \in Nat /\ r \in LogRecord /\ r.task = begun + 1 /\ r.args = <<>>
  BY Elements, EmptySeq DEF TasksTyped, LogRecord, Args
<1>2. given' = Append(given, {}) /\ UNCHANGED <<open, attached, missed>>
  BY DEF Marker
<1>3. CASE UNCHANGED <<task_desc, queue, written>>
  BY <1>2, <1>3, AccountedKept DEF Logged
<1>4. CASE queue' = Append(queue, r) /\ UNCHANGED <<task_desc, written>>
  <2> HIDE DEF r
  <2>1. /\ DOMAIN Logged' = 1..(Len(Logged) + 1) /\ Logged'[Len(Logged) + 1] = r
        /\ \A i \in DOMAIN Logged : Logged'[i] = Logged[i]
        /\ DOMAIN Logged = 1..Len(Logged) /\ Len(Logged) \in Nat
    BY <1>1, <1>4, LogTask, Elements
  <2>2. \A i \in DOMAIN Logged' : i \in DOMAIN Logged \/ i = Len(Logged) + 1
    BY <2>1
  <2>3. /\ \A k \in DOMAIN task_desc : task_desc[k].task \in 1..begun
        /\ \A i \in DOMAIN Logged : Logged[i].task \in 1..begun
    BY Numbered
  <2>4. /\ \A t \in 1..begun : Taken(given', attached', t) = Taken(given, attached, t)
        /\ Taken(given', attached', begun + 1) = {}
        /\ \A t \in DOMAIN given' : given'[t] \subseteq 1..Len(attached')
    BY <1>2, TakenByAnother DEF Accounted
  <2>5. Items(<<>>) = {}
    BY DEF Items
  <2>6. SameStack => SameStack'
    BY <1>2, <1>4 DEF SameStack
  <2>7. ASSUME AllCarried PROVE AllCarried'
    <3>1. \A k \in DOMAIN task_desc' : Items(task_desc'[k].args) = Taken(given', attached', task_desc'[k].task)
      BY <1>4, <2>3, <2>4, <2>7 DEF AllCarried
    <3>2. ASSUME NEW i \in DOMAIN Logged'
          PROVE  Items(Logged'[i].args) = Taken(given', attached', Logged'[i].task)
      <4>1. CASE i \in DOMAIN Logged
        BY <2>1, <2>3, <2>4, <2>7, <4>1 DEF AllCarried
      <4>2. CASE i = Len(Logged) + 1
        BY <1>1, <2>1, <2>4, <2>5, <4>2
      <4> QED
        BY <2>2, <4>1, <4>2
    <3> QED
      BY <3>1, <3>2 DEF AllCarried
  <2> QED
    BY <1>2, <2>4, <2>6, <2>7 DEF Accounted
<1> QED
  BY <1>3, <1>4 DEF Marker, Ignored

\* What the program attaches goes to its innermost task, which is on top.
LEMMA AccountedItem ==
  ASSUME TasksTyped, Nested, Accounted, NEW type \in Types, MetadataAdd(type)
  PROVE  Accounted'
<1> DEFINE n == Len(task_desc)
           item == Len(attached) + 1
           task == open[Len(open)].task
<1>1. /\ attached' = Append(attached, type) /\ UNCHANGED <<open, queue, written>>
      /\ given' = [given EXCEPT ![task] = @ \cup {item}]
  BY DEF MetadataAdd
<1>2. open' \in Seq(OpenRecord)
  BY <1>1 DEF Accounted
<1>3. CASE missed
  <2>0. missed'
    BY <1>3, Zenon DEF MetadataAdd
  <2>1. CASE task \in 1..begun
    BY <1>1, <1>2, <2>0, <2>1, TakenWithItem DEF Accounted
  <2>2. CASE task \notin 1..begun
    <3>1. /\ given \in Seq(SUBSET Nat) /\ DOMAIN given = 1..begun /\ Len(attached) \in Nat
          /\ attached \in Seq(Types)
      BY Numbered, Elements DEF TasksTyped
    <3>2. given' = given
      BY <1>1, <2>2, <3>1, LenProperties
    <3>3. Len(attached') = Len(attached) + 1
      BY <1>1, <3>1, AppendProperties
    <3>4. 1..Len(attached) \subseteq 1..Len(attached')
      BY <3>1, <3>3
    <3> QED
      BY <1>1, <1>2, <2>0, <3>2, <3>4 DEF Accounted
  <2> QED
    BY <2>1, <2>2
<1>4. CASE ~missed
  <2>1. SameStack /\ AllCarried
    BY <1>4 DEF Accounted
  <2>2. /\ Len(open) = n /\ n \in DOMAIN task_desc /\ task = task_desc[n].task
        /\ n \in Nat /\ DOMAIN task_desc = 1..n /\ Top = task_desc[n] /\ Top \in TaskRecord
        /\ ~Empty
    <3>1. open \in Seq(OpenRecord) /\ open # <<>>
      BY DEF Accounted, MetadataAdd
    <3>2. Len(open) \in Nat \ {0}
      BY <3>1, EmptySeq
    <3>3. n \in DOMAIN task_desc
      BY <2>1, <3>2, Elements DEF SameStack
    <3>4. task_desc # <<>>
      BY <2>1, <3>2, EmptySeq DEF SameStack
    <3> QED
      BY <2>1, <3>3, <3>4, Elements DEF SameStack, Top, Empty
  <2>3. /\ DOMAIN given = 1..begun /\ task \in 1..begun
        /\ \A k \in DOMAIN task_desc : task_desc[k].task \in 1..begun
        /\ \A i \in DOMAIN Logged : Logged[i].task \in 1..begun
    BY <2>2, Numbered
  <2>4. /\ \A t \in 1..begun : t # task => Taken(given', attached', t) = Taken(given, attached, t)
        /\ Taken(given', attached', task) = Taken(given, attached, task) \cup (IF Accepted(type) THEN {item} ELSE {})
        /\ \A t \in DOMAIN given' : given'[t] \subseteq 1..Len(attached')
    BY <1>1, <2>3, TakenWithItem DEF Accounted
  <2>5. /\ \A i \in DOMAIN Logged : Logged[i].task # task
        /\ \A k \in DOMAIN task_desc : k # n => task_desc[k].task # task
    <3>1. \A k \in DOMAIN task_desc : k # n => k < n
      BY <2>2
    <3> QED
      BY <2>2, <3>1 DEF Nested, LoggedOnceNested
  <2>6. Logged' = Logged
    BY <1>1 DEF Logged
  <2>7. \A i \in DOMAIN Logged' : Items(Logged'[i].args) = Taken(given', attached', Logged'[i].task)
    BY <2>1, <2>3, <2>4, <2>5, <2>6 DEF AllCarried
  <2>8. CASE ~Accepted(type) /\ task_desc' = task_desc
    <3>1. \A t \in 1..begun : Taken(given', attached', t) = Taken(given, attached, t)
      BY <2>4, <2>8
    <3>2. \A k \in DOMAIN task_desc' : Items(task_desc'[k].args) = Taken(given', attached', task_desc'[k].task)
      BY <2>1, <2>3, <2>8, <3>1 DEF AllCarried
    <3>3. SameStack'
      BY <1>1, <2>1, <2>8 DEF SameStack
    <3> QED
      BY <1>2, <2>4, <2>7, <3>2, <3>3 DEF Accounted, AllCarried
  <2>9. CASE /\ Accepted(type)
             /\ task_desc' = [task_desc EXCEPT ![n].args = Attach(Top.args, item, type)]
    <3> DEFINE new == Attach(Top.args, item, type)
    <3>1. Top.args \in Args /\ item \in Nat
      BY <2>2, Elements DEF TaskRecord
    <3>2. new \in Args /\ Items(new) = Items(Top.args) \cup {item}
      BY <3>1, AttachFacts, AttachedItems
    <3>3. task_desc' = [task_desc EXCEPT ![n].args = new]
      BY <2>9
    <3> HIDE DEF new
    <3>4. /\ DOMAIN task_desc' = DOMAIN task_desc /\ Len(task_desc') = Len(task_desc)
          /\ \A k \in DOMAIN task_desc :
               /\ task_desc'[k].task = task_desc[k].task
               /\ task_desc'[k].domain = task_desc[k].domain
               /\ task_desc'[k].args = IF k = n THEN new ELSE task_desc[k].args
      BY <2>2, <3>2, <3>3, ChangeTop
    <3>5. SameStack'
      BY <1>1, <2>1, <3>4 DEF SameStack
    <3>6. ASSUME NEW k \in DOMAIN task_desc'
          PROVE  Items(task_desc'[k].args) = Taken(given', attached', task_desc'[k].task)
      <4>1. CASE k = n
        BY <2>1, <2>2, <2>4, <2>9, <3>2, <3>4, <4>1 DEF AllCarried
      <4>2. CASE k # n
        BY <2>1, <2>3, <2>4, <2>5, <3>4, <4>2 DEF AllCarried
      <4> QED
        BY <4>1, <4>2
    <3> QED
      BY <1>2, <2>4, <2>7, <3>5, <3>6 DEF Accounted, AllCarried
  <2>10. CASE missed'
    BY <1>2, <2>4, <2>10 DEF Accounted
  <2> QED
    BY <2>2, <2>8, <2>9, <2>10 DEF MetadataAdd
<1> QED
  BY <1>3, <1>4

LEMMA AccountedNext == TasksTyped /\ Nested /\ Accounted /\ [Next]_vars => Accounted'
<1> SUFFICES ASSUME TasksTyped, Nested, Accounted, [Next]_vars PROVE Accounted'
  OBVIOUS
<1>1. ASSUME NEW d \in Domains \cup {NoDomain}, TaskBegin(d) PROVE Accounted'
  BY <1>1, AccountedBegin
<1>2. ASSUME NEW d, ProgramEnds(d), missed' PROVE Accounted'
  BY <1>2, OpenEnds, AccountedMissed DEF ProgramEnds
<1>3. ASSUME NEW d \in Domains \cup {NoDomain}, TaskEnd(d) PROVE Accounted'
  BY <1>2, <1>3, AccountedEnd DEF TaskEnd, Drop
<1>4. ASSUME NEW d \in Domains \cup {NoDomain}, TaskEndMpi(d) PROVE Accounted'
  BY <1>2, <1>4, AccountedEnd DEF TaskEndMpi, Drop
<1>5. CASE Marker
  BY <1>5, AccountedMarker
<1>6. ASSUME NEW type \in Types, MetadataAdd(type) PROVE Accounted'
  BY <1>6, AccountedItem
<1>7. CASE Write
  <2>1. Logged' = Logged
    BY <1>7, WriteFacts
  <2> QED
    BY <1>7, <2>1, AccountedKept DEF Write
<1>8. CASE UNCHANGED taskVars
  BY <1>8, AccountedKept DEF taskVars, Logged
<1> QED
  BY <1>1, <1>3, <1>4, <1>5, <1>6, <1>7, <1>8 DEF Next, TaskNext, vars

\* As long as no call of the program was ignored, what ends is what the program
\* ends, and each record carries all that the program attached to its task but the
\* doubles (itt_collector.h, __itt_task_begin and _end, __itt_metadata_add).
THEOREM PairedCorrect == Spec => []Paired
<1>1. Init => Accounted
  <2> SUFFICES ASSUME Init PROVE Accounted
    OBVIOUS
  <2>1. task_desc = <<>> /\ open = <<>> /\ given = <<>> /\ queue = <<>> /\ written = <<>>
    BY DEF Init, TaskInit
  <2>2. Logged = <<>> /\ open \in Seq(OpenRecord)
    BY <2>1, EmptySeq, ConcatEmptySeq DEF Logged
  <2>3. DOMAIN Logged = {} /\ DOMAIN task_desc = {} /\ DOMAIN given = {} /\ Len(task_desc) = Len(open)
    BY <2>1, <2>2
  <2> QED
    BY <2>2, <2>3 DEF Accounted, SameStack, AllCarried
<1>2. TasksTyped /\ Accounted => Paired
  <2> SUFFICES ASSUME TasksTyped, Accounted, ~missed
               PROVE  /\ Tasks(task_desc) = Tasks(open)
                      /\ \A i \in DOMAIN Logged : Items(Logged[i].args) = Taken(given, attached, Logged[i].task)
    BY DEF Paired, Taken
  <2>1. SameStack /\ AllCarried /\ open \in Seq(OpenRecord)
    BY DEF Accounted
  <2>2. DOMAIN task_desc = DOMAIN open
    BY <2>1, Elements, LenProperties DEF SameStack
  <2> QED
    BY <2>1, <2>2 DEF SameStack, AllCarried, Tasks
<1> QED
  BY <1>1, <1>2, TasksInit, TypedNext, NestedNext, AccountedNext, PTL DEF Spec

--------------------------------------------------------------------------------
(* The registries and events.                                              *)

\* Who is in the critical section holds the mutex.
MutexHeld ==
  \A t \in Threads : pc[t] \in {"search", "push", "moving", "number"} => mutex = t

\* A search has compared all nodes before h; it and the other calls are about
\* what was asked for.
CallsGoOn ==
  \A t \in Threads :
    /\ pc[t] \notin {"idle", "read"} => call[t] \in [kind : Kinds \cup {"event"}, name : Names]
    /\ pc[t] \in {"push", "moving", "number"} => call[t].kind = "event"
    /\ pc[t] = "search" =>
         /\ call[t].kind \in Kinds
         /\ h[t] \in 1..(Len(MyList(t)) + 1)
         /\ \A i \in 1..(h[t] - 1) : MyList(t)[i] # call[t].name

\* Outside the critical section every event is counted; in it the last one is
\* that of the call.
EventsCounted ==
  /\ (\A t \in Threads : pc[t] # "number") => num_itt_events = Len(itt_events)
  /\ \A t \in Threads : pc[t] = "number" =>
       Len(itt_events) = num_itt_events + 1 /\ itt_events[Len(itt_events)] = call[t].name

ListsDistinct == \A k \in Kinds : \A i, j \in DOMAIN list[k] : i # j => list[k][i] # list[k][j]

\* Nothing that was logged or started is ahead of the timer, and a start that
\* is waiting for its end is later than what was logged for the event.
ClockAhead ==
  /\ \A t \in Threads : \A e \in DOMAIN event_desc[t] : event_desc[t][e] < timer
  /\ \A i \in DOMAIN log :
       /\ log[i].start < log[i].end /\ log[i].end < timer
       /\ log[i].event \in DOMAIN event_desc[log[i].thread] =>
            log[i].end < event_desc[log[i].thread][log[i].event]

\* The event whose name is read was created, is not started, and its times are
\* later than those logged for it.
Readers ==
  \A t \in Threads : pc[t] = "read" =>
    /\ reading[t].start < reading[t].end /\ reading[t].end < timer
    /\ reading[t].event \notin DOMAIN event_desc[t]
    /\ \E r \in handles : r.kind = "event" /\ r.handle = reading[t].event
    /\ \A i \in DOMAIN log :
         log[i].thread = t /\ log[i].event = reading[t].event => log[i].end < reading[t].start

RegistryInv ==
  /\ TypeOK
  /\ MutexHeld /\ CallsGoOn /\ EventsCounted /\ ListsDistinct /\ HandlesUsable
  /\ ClockAhead /\ Readers /\ StartsUsedOnce

USE NoOneAssumption, KindsAssumption, BoundAssumption

\* What the type invariant says of the elements of the sequences.
EventRecord ==
  [thread : Threads, name : Names \cup {Garbage}, event : Nat, start : Nat, end : Nat, torn : BOOLEAN]

LEMMA EventElements ==
  ASSUME TypeOK
  PROVE  /\ log \in Seq(EventRecord)
         /\ \A i \in DOMAIN log : log[i] \in EventRecord
         /\ \A k \in Kinds : list[k] \in Seq(Names) /\ Len(list[k]) \in Nat
         /\ KnownEvents \subseteq Int
<1>1. log \in Seq(EventRecord)
  BY DEF TypeOK, EventRecord
<1>2. \A i \in DOMAIN log : log[i] \in EventRecord
  BY <1>1, ElementOfSeq
<1>3. list \in [Kinds -> Seq(Names)] /\ handles \subseteq [kind : Kinds \cup {"event"}, name : Names, handle : Nat]
  BY DEF TypeOK
<1>4. \A k \in Kinds : list[k] \in Seq(Names) /\ Len(list[k]) \in Nat
  BY <1>3, LenProperties
<1> QED
  BY <1>1, <1>2, <1>3, <1>4 DEF KnownEvents

LEMMA RegistryInvInit == RegistryInit => RegistryInv
<1> SUFFICES ASSUME RegistryInit PROVE RegistryInv
  OBVIOUS
<1> USE DEF RegistryInit
<1>1. /\ log \in Seq([thread : Threads, name : Names \cup {Garbage}, event : Nat, start : Nat, end : Nat,
                      torn : BOOLEAN])
      /\ DOMAIN log = {}
  BY EmptySeq
<1>2. \A t \in Threads : event_desc[t] = <<>>
  OBVIOUS
<1>3. list \in [Kinds -> Seq(Names)] /\ \A k \in Kinds : DOMAIN list[k] = {}
  BY EmptySeq
<1>4. itt_events \in Seq(Names) /\ num_itt_events \in 0..Len(itt_events)
  BY EmptySeq
<1>5. TypeOK
  <2>1. reading \in [Threads -> [event : Nat, start : Nat, end : Nat, torn : BOOLEAN]]
    BY DEF NoReading
  <2> QED
    BY <1>1, <1>2, <1>3, <1>4, <2>1, EmptySeq DEF TypeOK
<1>6. MutexHeld /\ CallsGoOn /\ EventsCounted /\ HandlesUsable
  BY <1>1, EmptySeq DEF MutexHeld, CallsGoOn, EventsCounted, HandlesUsable
<1>7. ListsDistinct
  BY <1>3 DEF ListsDistinct
<1>8. ClockAhead /\ StartsUsedOnce /\ Readers
  BY <1>1, <1>2, EmptySeq DEF ClockAhead, StartsUsedOnce, Readers
<1> QED
  BY <1>5, <1>6, <1>7, <1>8 DEF RegistryInv

\* Starts and ends keep the order of the timer.
LEMMA StartKeepsClock ==
  ASSUME TypeOK, ClockAhead, NEW t \in Threads, NEW event \in KnownEvents, EventStart(t, event)
  PROVE  TypeOK' /\ ClockAhead'
<1>1. event \in Nat /\ timer \in Nat /\ timer' = timer + 1 /\ log' = log
  <2>1. timer' = timer + 1 /\ log' = log /\ InRange(event)
    BY ONLY EventStart(t, event) DEF EventStart
  <2>2. timer \in Nat /\ num_itt_events \in Int
    BY DEF TypeOK
  <2>3. \A r \in handles : r.handle \in Nat
    BY ONLY TypeOK DEF TypeOK
  <2>4. event \in Int
    BY ONLY <2>3, event \in KnownEvents DEF KnownEvents
  <2>5. event >= 0
    BY <2>1 DEF InRange
  <2> QED
    BY ONLY <2>1, <2>2, <2>4, <2>5
<1>2. /\ DOMAIN event_desc' = Threads
      /\ \A u \in Threads : u # t => event_desc'[u] = event_desc[u]
      /\ event_desc'[t] = IF event \in DOMAIN event_desc[t] THEN event_desc[t]
           ELSE [e \in DOMAIN event_desc[t] \cup {event} |-> IF e = event THEN timer ELSE event_desc[t][e]]
  BY DEF EventStart, TypeOK
<1>3. \A u \in Threads : \A e \in DOMAIN event_desc'[u] :
        \/ event_desc'[u][e] = timer /\ e = event
        \/ e \in DOMAIN event_desc[u] /\ event_desc'[u][e] = event_desc[u][e]
  BY <1>2
<1>4. \A u \in Threads : \A e \in DOMAIN event_desc'[u] :
        e \in Nat /\ event_desc'[u][e] \in Nat /\ event_desc'[u][e] < timer'
  <2>1. \A u \in Threads : \A e \in DOMAIN event_desc[u] :
          e \in Nat /\ event_desc[u][e] \in Nat /\ event_desc[u][e] < timer
    BY DEF TypeOK, ClockAhead
  <2>2. ASSUME NEW u \in Threads, NEW e \in DOMAIN event_desc'[u]
        PROVE  e \in Nat /\ event_desc'[u][e] \in Nat /\ event_desc'[u][e] < timer'
    <3>1. CASE event_desc'[u][e] = timer /\ e = event
      BY <3>1, <1>1
    <3>2. CASE e \in DOMAIN event_desc[u] /\ event_desc'[u][e] = event_desc[u][e]
      BY <3>2, <1>1, <2>1
    <3> QED
      BY <1>3, <3>1, <3>2
  <2> QED
    BY <2>2
<1>5. TypeOK'
  <2>1. \A u \in Threads : \A e \in DOMAIN event_desc'[u] : e \in Nat /\ event_desc'[u][e] \in Nat
    BY ONLY <1>4
  <2>2. timer' \in Nat
    BY ONLY <1>1
  <2>3. UNCHANGED <<itt_global, mutex, list, itt_events, num_itt_events, pc, call, h, reading, handles, log>>
    BY DEF EventStart
  <2> QED
    BY <1>2, <2>1, <2>2, <2>3 DEF TypeOK
<1>6. ASSUME NEW i \in DOMAIN log
      PROVE  /\ log[i].start < log[i].end /\ log[i].end < timer'
             /\ log[i].event \in DOMAIN event_desc'[log[i].thread] =>
                  log[i].end < event_desc'[log[i].thread][log[i].event]
  <2>1. log[i].thread \in Threads /\ log[i].end \in Nat
    BY EventElements DEF EventRecord
  <2> QED
    BY <2>1, <1>1, <1>3 DEF ClockAhead
<1> QED
  BY <1>1, <1>4, <1>5, <1>6 DEF ClockAhead

\* What a handle stands for, and what is logged, stay when lists and events only
\* grow; so it is enough to look at a handle that is new.
Means(r) ==
  IF r.kind = "event" THEN InRange(r.handle) /\ itt_events[r.handle + 1] = r.name
  ELSE r.handle \in DOMAIN list[r.kind] /\ list[r.kind][r.handle] = r.name

LEMMA HandlesGrow ==
  ASSUME TypeOK, HandlesUsable, log' = log, handles \subseteq handles',
         num_itt_events' \in Nat, num_itt_events <= num_itt_events',
         \A i \in 1..num_itt_events : itt_events'[i] = itt_events[i],
         \A k \in Kinds : \A i \in DOMAIN list[k] : i \in DOMAIN list'[k] /\ list'[k][i] = list[k][i],
         \A r \in handles' \ handles : Means(r)'
  PROVE  HandlesUsable'
<1>1. ASSUME NEW r \in handles PROVE Means(r)'
  <2>1. Means(r) /\ r.kind \in Kinds \cup {"event"} /\ r.handle \in Nat /\ num_itt_events \in Nat
    <3>1. Means(r)
      BY DEF HandlesUsable, Means
    <3>2. r \in [kind : Kinds \cup {"event"}, name : Names, handle : Nat]
      BY DEF TypeOK
    <3>3. num_itt_events \in Nat
      BY LenProperties DEF TypeOK
    <3> QED
      BY <3>1, <3>2, <3>3
  <2>2. CASE r.kind = "event"
    BY <2>1, <2>2 DEF Means, InRange
  <2>3. CASE r.kind # "event"
    BY <2>1, <2>3 DEF Means
  <2> QED
    BY <2>2, <2>3
<1>2. \A r \in handles' : Means(r)'
  BY <1>1
<1>3. \A i \in DOMAIN log' : log'[i].torn \/
        \E r \in handles' : r.kind = "event" /\ r.handle = log'[i].event /\ r.name = log'[i].name
  BY DEF HandlesUsable
<1> QED
  BY <1>2, <1>3 DEF HandlesUsable, Means

\* What a reader relies on stays when the thread's own events and the clock do.
LEMMA ReadersKept ==
  ASSUME TypeOK, Readers, timer' \in Nat, timer <= timer', log' = log, handles \subseteq handles',
         \A u \in Threads : pc'[u] = "read" =>
           /\ pc[u] = "read" /\ event_desc'[u] = event_desc[u]
           /\ reading'[u].event = reading[u].event /\ reading'[u].start = reading[u].start
           /\ reading'[u].end = reading[u].end
  PROVE  Readers'
<1> SUFFICES ASSUME NEW u \in Threads, pc'[u] = "read"
             PROVE  /\ reading'[u].start < reading'[u].end /\ reading'[u].end < timer'
                    /\ reading'[u].event \notin DOMAIN event_desc'[u]
                    /\ \E r \in handles' : r.kind = "event" /\ r.handle = reading'[u].event
                    /\ \A i \in DOMAIN log' :
                         log'[i].thread = u /\ log'[i].event = reading'[u].event => log'[i].end < reading'[u].start
  BY DEF Readers
<1>1. /\ reading[u].start < reading[u].end /\ reading[u].end < timer
      /\ reading[u].event \notin DOMAIN event_desc[u]
      /\ \E r \in handles : r.kind = "event" /\ r.handle = reading[u].event
      /\ \A i \in DOMAIN log :
           log[i].thread = u /\ log[i].event = reading[u].event => log[i].end < reading[u].start
  BY DEF Readers
<1>2. timer \in Nat /\ reading[u].end \in Nat
  BY DEF TypeOK
<1> QED
  BY <1>1, <1>2

\* The end of an event takes its start away; the clock moves past the end.
LEMMA EndKeepsClock ==
  ASSUME TypeOK, ClockAhead, Readers,
         NEW t \in Threads, NEW event \in KnownEvents, EventEnd(t, event)
  PROVE  TypeOK' /\ ClockAhead' /\ Readers'
<1>1. /\ event \in Nat /\ timer \in Nat /\ timer' = timer + 1 /\ log' = log /\ handles' = handles
      /\ event \in DOMAIN event_desc[t] /\ pc' = [pc EXCEPT ![t] = "read"] /\ pc[t] = "idle"
  BY EventElements DEF EventEnd, InRange, TypeOK, Goto
<1>2. /\ DOMAIN event_desc' = Threads
      /\ \A u \in Threads : u # t => event_desc'[u] = event_desc[u]
      /\ event_desc'[t] = [e \in DOMAIN event_desc[t] \ {event} |-> event_desc[t][e]]
  BY DEF EventEnd, Erased, TypeOK
<1>3. \A u \in Threads : \A e \in DOMAIN event_desc'[u] :
        /\ e \in DOMAIN event_desc[u] /\ event_desc'[u][e] = event_desc[u][e]
        /\ u = t => e # event
  BY <1>2
<1>4. /\ \A u \in Threads : u # t => reading'[u] = reading[u]
      /\ reading'[t].event = event /\ reading'[t].start = event_desc[t][event] /\ reading'[t].end = timer
      /\ reading' \in [Threads -> [event : Nat, start : Nat, end : Nat, torn : BOOLEAN]]
  BY <1>1 DEF EventEnd, TypeOK
<1>5. event_desc[t][event] \in Nat /\ event_desc[t][event] < timer
  BY <1>1 DEF TypeOK, ClockAhead
<1>6. TypeOK'
  <2>1. \A u \in Threads : \A e \in DOMAIN event_desc'[u] : e \in Nat /\ event_desc'[u][e] \in Nat
    BY <1>3 DEF TypeOK
  <2>2. timer' \in Nat /\ DOMAIN event_desc' = Threads
    BY ONLY <1>1, <1>2
  <2>3. pc' \in [Threads -> {"idle", "lock", "search", "push", "moving", "number", "read"}]
    BY <1>1 DEF TypeOK
  <2> QED
    BY <1>4, <2>1, <2>2, <2>3 DEF TypeOK, EventEnd
<1>7. \A i \in DOMAIN log : log[i].thread \in Threads /\ log[i].end \in Nat
  BY EventElements DEF EventRecord
<1>8. ClockAhead'
  <2>1. ASSUME NEW u \in Threads, NEW e \in DOMAIN event_desc'[u] PROVE event_desc'[u][e] < timer'
    <3>1. event_desc[u][e] \in Nat /\ event_desc[u][e] < timer
      BY <1>3 DEF ClockAhead, TypeOK
    <3> QED
      BY <1>1, <1>3, <3>1
  <2>2. ASSUME NEW i \in DOMAIN log
        PROVE  /\ log[i].start < log[i].end /\ log[i].end < timer'
               /\ log[i].event \in DOMAIN event_desc'[log[i].thread] =>
                    log[i].end < event_desc'[log[i].thread][log[i].event]
    BY <1>1, <1>3, <1>7 DEF ClockAhead
  <2> QED
    BY <1>1, <2>1, <2>2 DEF ClockAhead
<1>9. Readers'
  <2> SUFFICES ASSUME NEW u \in Threads, pc'[u] = "read"
               PROVE  /\ reading'[u].start < reading'[u].end /\ reading'[u].end < timer'
                      /\ reading'[u].event \notin DOMAIN event_desc'[u]
                      /\ \E r \in handles : r.kind = "event" /\ r.handle = reading'[u].event
                      /\ \A i \in DOMAIN log :
                           log[i].thread = u /\ log[i].event = reading'[u].event => log[i].end < reading'[u].start
    BY <1>1 DEF Readers
  <2>1. CASE u = t
    <3>1. \E r \in handles : r.kind = "event" /\ r.handle = event
      BY <1>1 DEF KnownEvents
    <3>2. event \notin DOMAIN event_desc'[t]
      BY <1>2
    <3>3. \A i \in DOMAIN log :
            log[i].thread = t /\ log[i].event = event => log[i].end < event_desc[t][event]
      BY <1>1 DEF ClockAhead
    <3> QED
      BY <2>1, <1>1, <1>4, <1>5, <3>1, <3>2, <3>3
  <2>2. CASE u # t
    <3>1. pc[u] = "read" /\ reading'[u] = reading[u] /\ event_desc'[u] = event_desc[u]
      BY <2>2, <1>1, <1>2, <1>4 DEF TypeOK
    <3>2. reading[u].end \in Nat
      BY DEF TypeOK
    <3> QED
      BY <1>1, <3>1, <3>2 DEF Readers
  <2> QED
    BY <2>1, <2>2
<1> QED
  BY <1>6, <1>8, <1>9

\* What is logged is later than what was logged for the event, and has its name
\* unless the names were moved.
LEMMA LogKeepsClock ==
  ASSUME TypeOK, ClockAhead, Readers, StartsUsedOnce, HandlesUsable, NEW t \in Threads, EventLogged(t)
  PROVE  TypeOK' /\ ClockAhead' /\ Readers' /\ StartsUsedOnce' /\ HandlesUsable'
<1> DEFINE d == reading[t]
           n == Len(log)
<1>1. /\ pc[t] = "read" /\ pc' = [pc EXCEPT ![t] = "idle"]
      /\ UNCHANGED <<itt_global, mutex, list, itt_events, num_itt_events, call, h,
                     event_desc, timer, handles>>
      /\ reading' = [reading EXCEPT ![t] = NoReading]
  BY DEF EventLogged, Goto
<1>2. PICK name \in NamesRead(d) :
        log' = Append(log, [thread |-> t, name |-> name, event |-> d.event,
                            start |-> d.start, end |-> d.end, torn |-> d.torn])
  BY DEF EventLogged
<1> DEFINE new == [thread |-> t, name |-> name, event |-> d.event,
                   start |-> d.start, end |-> d.end, torn |-> d.torn]
<1>3. d.event \in Nat /\ d.start \in Nat /\ d.end \in Nat /\ d.torn \in BOOLEAN /\ timer \in Nat
  BY DEF TypeOK
<1>4. /\ d.start < d.end /\ d.end < timer /\ d.event \notin DOMAIN event_desc[t]
      /\ \A i \in DOMAIN log : log[i].thread = t /\ log[i].event = d.event => log[i].end < d.start
  BY <1>1 DEF Readers
<1>5. PICK r \in handles : r.kind = "event" /\ r.handle = d.event
  BY <1>1 DEF Readers
<1>6. InRange(r.handle) /\ itt_events[r.handle + 1] = r.name /\ r.name \in Names
  BY <1>5 DEF HandlesUsable, TypeOK
<1>7. name \in Names \cup {Garbage} /\ (d.torn \/ name = r.name)
  BY <1>2, <1>5, <1>6 DEF NamesRead
<1>8. new \in EventRecord /\ new.thread = t /\ new.event = d.event /\ new.start = d.start /\ new.end = d.end
      /\ new.torn = d.torn /\ new.name = name
  BY <1>3, <1>7 DEF EventRecord
<1> HIDE DEF d, new
<1>9. /\ log' \in Seq(EventRecord) /\ n \in Nat /\ DOMAIN log = 1..n /\ DOMAIN log' = 1..(n + 1)
      /\ log'[n + 1] = new /\ \A i \in 1..n : log'[i] = log[i]
  <2>1. log \in Seq(EventRecord) /\ log' = Append(log, new)
    BY <1>2, EventElements DEF new
  <2> QED
    BY <1>8, <2>1, AppendProperties, LenProperties
<1>10. \A i \in 1..n : /\ log[i].thread \in Threads /\ log[i].end \in Nat /\ log[i].start \in Nat
                       /\ log[i].event \in Nat
  BY <1>9, EventElements DEF EventRecord
<1>11. TypeOK'
  <2>1. log' \in Seq([thread : Threads, name : Names \cup {Garbage}, event : Nat, start : Nat, end : Nat,
                      torn : BOOLEAN])
    BY ONLY <1>9 DEF EventRecord
  <2>2. reading' \in [Threads -> [event : Nat, start : Nat, end : Nat, torn : BOOLEAN]]
    BY <1>1 DEF TypeOK, NoReading
  <2>3. pc' \in [Threads -> {"idle", "lock", "search", "push", "moving", "number", "read"}]
    BY <1>1 DEF TypeOK
  <2> QED
    BY <1>1, <2>1, <2>2, <2>3 DEF TypeOK
<1>12. ClockAhead'
  <2>1. ASSUME NEW i \in 1..(n + 1)
        PROVE  /\ log'[i].start < log'[i].end /\ log'[i].end < timer
               /\ log'[i].event \in DOMAIN event_desc[log'[i].thread] =>
                    log'[i].end < event_desc[log'[i].thread][log'[i].event]
    <3>1. CASE i = n + 1
      BY <3>1, <1>4, <1>8, <1>9
    <3>2. CASE i \in 1..n
      BY <3>2, <1>9 DEF ClockAhead
    <3> QED
      BY <1>9, <3>1, <3>2
  <2> QED
    BY <1>1, <1>9, <2>1 DEF ClockAhead
<1>13. Readers'
  <2> SUFFICES ASSUME NEW u \in Threads, pc'[u] = "read"
               PROVE  /\ reading'[u].start < reading'[u].end /\ reading'[u].end < timer
                      /\ reading'[u].event \notin DOMAIN event_desc[u]
                      /\ \E q \in handles : q.kind = "event" /\ q.handle = reading'[u].event
                      /\ \A i \in DOMAIN log' :
                           log'[i].thread = u /\ log'[i].event = reading'[u].event => log'[i].end < reading'[u].start
    BY <1>1 DEF Readers
  <2>1. u # t /\ pc[u] = "read" /\ reading'[u] = reading[u]
    BY <1>1 DEF TypeOK
  <2>2. \A i \in 1..(n + 1) :
          log'[i].thread = u /\ log'[i].event = reading[u].event => log'[i].end < reading[u].start
    BY <2>1, <1>8, <1>9 DEF Readers
  <2> QED
    BY <1>9, <2>1, <2>2 DEF Readers
<1>14. StartsUsedOnce'
  <2> SUFFICES ASSUME NEW i \in 1..(n + 1), NEW j \in 1..(n + 1)
       PROVE  /\ log'[i].start < log'[i].end
              /\ i < j /\ log'[i].thread = log'[j].thread /\ log'[i].event = log'[j].event
                   => log'[i].end < log'[j].start
    BY <1>9 DEF StartsUsedOnce
  <2>1. CASE i = n + 1
    BY <2>1, <1>4, <1>8, <1>9
  <2>2. CASE i \in 1..n /\ j \in 1..n
    BY <2>2, <1>9 DEF StartsUsedOnce
  <2>3. CASE i \in 1..n /\ j = n + 1
    BY <2>3, <1>4, <1>8, <1>9 DEF StartsUsedOnce
  <2> QED
    BY <1>9, <2>1, <2>2, <2>3
<1>15. HandlesUsable'
  <2>1. \A i \in 1..(n + 1) : log'[i].torn \/
          \E q \in handles : q.kind = "event" /\ q.handle = log'[i].event /\ q.name = log'[i].name
    BY <1>5, <1>7, <1>8, <1>9 DEF HandlesUsable
  <2> QED
    BY <1>1, <1>9, <2>1 DEF HandlesUsable, InRange
<1> QED
  BY <1>11, <1>12, <1>13, <1>14, <1>15

LEMMA RegistryInvNext == RegistryInv /\ [RegistryNext]_registryVars => RegistryInv'
<1> SUFFICES ASSUME RegistryInv, [RegistryNext]_registryVars PROVE RegistryInv'
  OBVIOUS
<1> USE DEF RegistryInv, TypeOK
<1>1. CASE ApiInit
  <2>1. TypeOK' /\ MutexHeld' /\ CallsGoOn' /\ EventsCounted' /\ ListsDistinct'
    BY <1>1 DEF ApiInit, MutexHeld, CallsGoOn, EventsCounted, ListsDistinct, MyList
  <2>2. HandlesUsable' /\ ClockAhead' /\ Readers' /\ StartsUsedOnce'
    BY <1>1 DEF ApiInit, HandlesUsable, InRange, ClockAhead, Readers, StartsUsedOnce
  <2> QED
    BY <2>1, <2>2
<1>2. ASSUME NEW t \in Threads, NEW kind \in Kinds \cup {"event"}, NEW name \in Names,
             Ask(t, kind, name)
      PROVE RegistryInv'
  <2> USE <1>2 DEF Ask, Goto
  <2>1. TypeOK'
    OBVIOUS
  <2>2. MutexHeld' /\ CallsGoOn' /\ EventsCounted'
    BY DEF MutexHeld, CallsGoOn, EventsCounted, MyList
  <2>3. ListsDistinct' /\ HandlesUsable' /\ ClockAhead' /\ StartsUsedOnce'
    BY DEF ListsDistinct, HandlesUsable, InRange, ClockAhead, StartsUsedOnce
  <2>4. Readers'
    BY ReadersKept
  <2> QED
    BY <2>1, <2>2, <2>3, <2>4
<1>3. ASSUME NEW t \in Threads, Lock(t) PROVE RegistryInv'
  <2> USE <1>3 DEF Lock, Goto
  <2>1. TypeOK'
    OBVIOUS
  <2>2. MutexHeld' /\ CallsGoOn' /\ EventsCounted'
    BY DEF MutexHeld, CallsGoOn, EventsCounted, MyList
  <2>3. ListsDistinct' /\ HandlesUsable' /\ ClockAhead' /\ StartsUsedOnce'
    BY DEF ListsDistinct, HandlesUsable, InRange, ClockAhead, StartsUsedOnce
  <2>4. Readers'
    BY ReadersKept
  <2> QED
    BY <2>1, <2>2, <2>3, <2>4
<1>4. ASSUME NEW t \in Threads, SearchFound(t) PROVE RegistryInv'
  <2> USE <1>4 DEF SearchFound, Return, Goto
  <2>1. /\ call[t] \in [kind : Kinds \cup {"event"}, name : Names]
        /\ call[t].kind \in Kinds /\ h[t] \in DOMAIN list[call[t].kind] /\ h[t] \in Nat
    <3>1. /\ call[t] \in [kind : Kinds \cup {"event"}, name : Names] /\ call[t].kind \in Kinds
          /\ h[t] \in 1..(Len(list[call[t].kind]) + 1) /\ ~(h[t] > Len(list[call[t].kind]))
      BY DEF CallsGoOn, AtEnd, MyList
    <3>2. list[call[t].kind] \in Seq(Names)
      BY ONLY <3>1, EventElements, TypeOK DEF TypeOK
    <3> QED
      BY ONLY <3>1, <3>2, LenProperties
  <2>2. TypeOK'
    BY <2>1 DEF NoCall, MyList
  <2>3. MutexHeld' /\ CallsGoOn' /\ EventsCounted'
    BY <2>1 DEF MutexHeld, CallsGoOn, EventsCounted, MyList
  <2>4. HandlesUsable'
    <3>0. PICK new : new = [kind |-> call[t].kind, name |-> call[t].name, handle |-> h[t]]
      OBVIOUS
    <3>1. /\ log' = log /\ handles' = handles \cup {new} /\ num_itt_events' = num_itt_events
          /\ itt_events' = itt_events /\ list' = list /\ list[new.kind][new.handle] = new.name
      BY <3>0 DEF MyList
    <3>2. new.handle \in DOMAIN list[new.kind] /\ new.kind # "event"
      BY <2>1, <3>0
    <3>3. num_itt_events \in Nat
      BY LenProperties
    <3>4. Means(new)'
      BY <3>1, <3>2 DEF Means
    <3>5. \A r \in handles' \ handles : r = new
      BY <3>1
    <3>6. \A r \in handles' \ handles : Means(r)'
      BY <3>4, <3>5
    <3> QED
      BY ONLY TypeOK, RegistryInv, <3>1, <3>3, <3>6, HandlesGrow DEF RegistryInv
  <2>5. ListsDistinct' /\ ClockAhead' /\ StartsUsedOnce'
    BY DEF ListsDistinct, ClockAhead, StartsUsedOnce
  <2>6. Readers'
    BY ReadersKept
  <2> QED
    BY <2>2, <2>3, <2>4, <2>5, <2>6
<1>5. ASSUME NEW t \in Threads, SearchNext(t) PROVE RegistryInv'
  <2> USE <1>5 DEF SearchNext
  <2>1. TypeOK'
    <3>1. /\ h' = [h EXCEPT ![t] = @ + 1]
          /\ UNCHANGED <<itt_global, mutex, list, itt_events, num_itt_events, pc, call,
                         event_desc, reading, timer, handles, log>>
      BY ONLY SearchNext(t) DEF SearchNext
    <3>2. h' \in [Threads -> Nat]
      BY ONLY <3>1, TypeOK DEF TypeOK
    <3> QED
      BY ONLY <3>1, <3>2, TypeOK DEF TypeOK
  <2>2. MutexHeld' /\ EventsCounted'
    BY DEF MutexHeld, EventsCounted
  <2>3. CallsGoOn'
    <3>1. /\ call[t].kind \in Kinds /\ h[t] \in 1..Len(MyList(t)) /\ Len(MyList(t)) \in Nat
          /\ \A i \in 1..(h[t] - 1) : MyList(t)[i] # call[t].name
      <4>1. call[t].kind \in Kinds /\ h[t] \in 1..(Len(MyList(t)) + 1)
            /\ \A i \in 1..(h[t] - 1) : MyList(t)[i] # call[t].name
        BY DEF CallsGoOn
      <4>2. Len(MyList(t)) \in Nat
        BY <4>1, EventElements DEF MyList
      <4> QED
        BY <4>1, <4>2 DEF AtEnd
    <3>2. h'[t] = h[t] + 1 /\ h'[t] \in 1..(Len(MyList(t)) + 1)
      BY <3>1 DEF TypeOK
    <3>3. \A i \in 1..(h'[t] - 1) : MyList(t)[i] # call[t].name
      BY <3>1, <3>2
    <3>4. MyList(t)' = MyList(t) /\ call'[t] = call[t]
      BY DEF MyList
    <3>5. \A s \in Threads \ {t} : h'[s] = h[s] /\ MyList(s)' = MyList(s)
      BY DEF MyList
    <3>6. pc' = pc /\ call' = call /\ pc[t] = "search"
      OBVIOUS
    <3>7. ASSUME NEW u \in Threads, pc[u] = "search"
          PROVE  /\ call[u].kind \in Kinds
                 /\ h'[u] \in 1..(Len(MyList(u)') + 1)
                 /\ \A i \in 1..(h'[u] - 1) : MyList(u)'[i] # call[u].name
      <4>1. CASE u = t
        BY ONLY <4>1, <3>1, <3>2, <3>3, <3>4
      <4>2. CASE u # t
        BY ONLY <4>2, <3>5, <3>7, CallsGoOn DEF CallsGoOn
      <4> QED
        BY ONLY <4>1, <4>2
    <3> QED
      BY ONLY <3>6, <3>7, CallsGoOn DEF CallsGoOn
  <2>4. ListsDistinct' /\ HandlesUsable' /\ ClockAhead' /\ StartsUsedOnce'
    BY DEF ListsDistinct, HandlesUsable, InRange, ClockAhead, StartsUsedOnce
  <2>5. Readers'
    BY ReadersKept
  <2> QED
    BY <2>1, <2>2, <2>3, <2>4, <2>5
<1>6. ASSUME NEW t \in Threads, SearchNew(t) PROVE RegistryInv'
  <2> USE <1>6 DEF SearchNew, Return, Goto
  <2> DEFINE k == call[t].kind
             n == Len(list[k])
  <2>1. /\ call[t] \in [kind : Kinds \cup {"event"}, name : Names]
        /\ k \in Kinds /\ list[k] \in Seq(Names) /\ call[t].name \in Names
        /\ \A i \in 1..n : list[k][i] # call[t].name
    <3>1. call[t] \in [kind : Kinds \cup {"event"}, name : Names] /\ k \in Kinds
      BY DEF CallsGoOn
    <3>2. h[t] \in 1..(n + 1) /\ h[t] > n /\ \A i \in 1..(h[t] - 1) : list[k][i] # call[t].name
      BY DEF CallsGoOn, AtEnd, MyList
    <3>3. list[k] \in Seq(Names) /\ n \in Nat
      BY <3>1, EventElements
    <3>4. h[t] - 1 = n
      BY ONLY <3>2, <3>3
    <3>5. call[t].name \in Names
      BY ONLY <3>1
    <3> QED
      BY ONLY <3>1, <3>2, <3>3, <3>4, <3>5
  <2>2. /\ \A l \in Kinds \ {k} : list'[l] = list[l]
        /\ list'[k] = Append(list[k], call[t].name)
        /\ DOMAIN list'[k] = 1..(n + 1) /\ list'[k][n + 1] = call[t].name
        /\ \A i \in 1..n : list'[k][i] = list[k][i]
    BY <2>1
  <2>3. TypeOK'
    BY <2>1 DEF NoCall, MyList
  <2>4. MutexHeld' /\ EventsCounted'
    BY DEF MutexHeld, EventsCounted
  <2>5. CallsGoOn'
    BY <2>1 DEF CallsGoOn, MutexHeld, MyList
  <2>6. ListsDistinct'
    <3>1. n \in Nat /\ DOMAIN list[k] = 1..n
      BY ONLY <2>1, LenProperties
    <3> SUFFICES ASSUME NEW l \in Kinds, NEW i \in DOMAIN list'[l], NEW j \in DOMAIN list'[l], i # j
                 PROVE  list'[l][i] # list'[l][j]
      BY DEF ListsDistinct
    <3> HIDE DEF k, n
    <3>2. CASE l # k
      <4>1. list'[l] = list[l]
        BY ONLY <3>2, <2>2, l \in Kinds
      <4>2. list[l][i] # list[l][j]
        BY ONLY <4>1, ListsDistinct, i # j, l \in Kinds, i \in DOMAIN list'[l], j \in DOMAIN list'[l]
        DEF ListsDistinct
      <4> QED
        BY ONLY <4>1, <4>2
    <3>3. CASE l = k
      <4>1. \A a, b \in 1..n : a # b => list[k][a] # list[k][b]
        BY ONLY <2>1, <3>1, RegistryInv DEF RegistryInv, ListsDistinct
      <4> QED
        BY ONLY <3>1, <3>3, <4>1, <2>1, <2>2, i # j, i \in DOMAIN list'[l], j \in DOMAIN list'[l]
    <3> QED
      BY ONLY <3>2, <3>3
  <2>7. HandlesUsable'
    <3>0. PICK new : new = [kind |-> k, name |-> call[t].name, handle |-> n + 1]
      OBVIOUS
    <3>1. /\ log' = log /\ handles' = handles \cup {new} /\ num_itt_events' = num_itt_events
          /\ itt_events' = itt_events
      BY <3>0 DEF MyList
    <3>2. n \in Nat /\ DOMAIN list[k] = 1..n
      BY ONLY <2>1, LenProperties
    <3>3. num_itt_events \in Nat
      BY LenProperties
    <3>4. new.kind = k /\ new.handle = n + 1 /\ new.name = call[t].name /\ k # "event"
      BY <2>1, <3>0
    <3> HIDE DEF k, n
    <3>5. Means(new)'
      BY ONLY <2>2, <3>2, <3>4 DEF Means
    <3>6. \A r \in handles' \ handles : r = new
      BY ONLY <3>1
    <3>7. \A r \in handles' \ handles : Means(r)'
      BY ONLY <3>5, <3>6
    <3>8. ASSUME NEW l \in Kinds, NEW i \in DOMAIN list[l]
          PROVE  i \in DOMAIN list'[l] /\ list'[l][i] = list[l][i]
      <4>1. CASE l # k
        BY ONLY <2>2, <4>1, l \in Kinds, i \in DOMAIN list[l]
      <4>2. CASE l = k
        <5>1. i \in 1..n /\ i \in 1..(n + 1)
          BY ONLY <3>2, <4>2, i \in DOMAIN list[l]
        <5> QED
          BY ONLY <2>2, <4>2, <5>1
      <4> QED
        BY ONLY <4>1, <4>2
    <3> QED
      BY ONLY TypeOK, RegistryInv, <3>1, <3>3, <3>7, <3>8, HandlesGrow DEF RegistryInv
  <2>8. ClockAhead' /\ StartsUsedOnce'
    BY DEF ClockAhead, StartsUsedOnce
  <2>9. Readers'
    BY ReadersKept
  <2> QED
    BY <2>3, <2>4, <2>5, <2>6, <2>7, <2>8, <2>9
<1>7. ASSUME NEW t \in Threads, Push(t) PROVE RegistryInv'
  <2>1. /\ reading' \in [Threads -> [event : Nat, start : Nat, end : Nat, torn : BOOLEAN]]
        /\ \A u \in Threads :
             /\ reading'[u].event = reading[u].event /\ reading'[u].start = reading[u].start
             /\ reading'[u].end = reading[u].end
    <3>1. reading \in [Threads -> [event : Nat, start : Nat, end : Nat, torn : BOOLEAN]]
      OBVIOUS
    <3>2. reading' = [u \in Threads |-> IF pc[u] = "read" THEN [reading[u] EXCEPT !.torn = TRUE] ELSE reading[u]]
      BY <1>7 DEF Push
    <3> QED
      BY ONLY <3>1, <3>2
  <2>2. /\ pc[t] = "push" /\ pc' = [pc EXCEPT ![t] = "moving"]
        /\ UNCHANGED <<itt_global, mutex, list, itt_events, num_itt_events, call, h,
                       event_desc, timer, handles, log>>
    BY <1>7 DEF Push, Goto
  <2>3. TypeOK'
    BY <2>1, <2>2
  <2>4. MutexHeld' /\ CallsGoOn' /\ EventsCounted'
    BY <2>2 DEF MutexHeld, CallsGoOn, EventsCounted, MyList
  <2>5. HandlesUsable' /\ ListsDistinct' /\ ClockAhead' /\ StartsUsedOnce'
    BY <2>2 DEF HandlesUsable, InRange, ListsDistinct, ClockAhead, StartsUsedOnce
  <2>6. Readers'
    BY <2>1, <2>2, ReadersKept
  <2> QED
    BY <2>3, <2>4, <2>5, <2>6
<1>8. ASSUME NEW t \in Threads, Number(t) PROVE RegistryInv'
  <2> USE <1>8 DEF Number, Return, Goto
  <2>1. /\ call[t] \in [kind : Kinds \cup {"event"}, name : Names]
        /\ call[t].kind = "event" /\ mutex = t
        /\ Len(itt_events) = num_itt_events + 1 /\ itt_events[Len(itt_events)] = call[t].name
    BY DEF CallsGoOn, MutexHeld, EventsCounted
  <2>2. TypeOK'
    BY <2>1 DEF NoCall
  <2>3. MutexHeld' /\ CallsGoOn' /\ EventsCounted'
    BY <2>1 DEF MutexHeld, CallsGoOn, EventsCounted, MyList
  <2>4. HandlesUsable'
    BY <2>1 DEF HandlesUsable, InRange
  <2>5. ListsDistinct' /\ ClockAhead' /\ StartsUsedOnce'
    BY DEF ListsDistinct, ClockAhead, StartsUsedOnce
  <2>6. Readers'
    BY ReadersKept
  <2> QED
    BY <2>2, <2>3, <2>4, <2>5, <2>6
<1>9. ASSUME NEW t \in Threads, NEW event \in KnownEvents, EventStart(t, event) PROVE RegistryInv'
  <2>1. TypeOK' /\ ClockAhead'
    BY <1>9, StartKeepsClock
  <2>2. MutexHeld' /\ CallsGoOn' /\ EventsCounted' /\ ListsDistinct' /\ HandlesUsable'
    <3>1. UNCHANGED <<mutex, list, itt_events, num_itt_events, pc, call, h, handles, log>>
      BY <1>9 DEF EventStart
    <3>a. MutexHeld'
      BY ONLY MutexHeld, <3>1 DEF MutexHeld
    <3>2. CallsGoOn'
      BY ONLY CallsGoOn, <3>1 DEF CallsGoOn, MyList
    <3>3. EventsCounted' /\ ListsDistinct'
      BY ONLY RegistryInv, <3>1 DEF RegistryInv, EventsCounted, ListsDistinct
    <3>4. HandlesUsable'
      BY ONLY RegistryInv, <3>1 DEF RegistryInv, HandlesUsable, InRange
    <3> QED
      BY <3>a, <3>2, <3>3, <3>4
  <2>3. StartsUsedOnce'
    BY <1>9 DEF EventStart, StartsUsedOnce
  <2>4. Readers'
    <3>1. /\ timer' = timer + 1 /\ log' = log /\ handles' = handles /\ reading' = reading
          /\ pc' = pc /\ pc[t] = "idle"
      BY <1>9 DEF EventStart
    <3>2. timer' \in Nat /\ timer <= timer'
      BY <3>1
    <3>3. \A u \in Threads : u # t => event_desc'[u] = event_desc[u]
      BY ONLY <1>9, TypeOK DEF EventStart, TypeOK
    <3> QED
      BY <3>1, <3>2, <3>3, ReadersKept
  <2> QED
    BY <2>1, <2>2, <2>3, <2>4
<1>10. ASSUME NEW t \in Threads, NEW event \in KnownEvents, EventEnd(t, event) PROVE RegistryInv'
  <2>1. TypeOK' /\ ClockAhead' /\ Readers'
    BY <1>10, EndKeepsClock
  <2>2. /\ pc[t] = "idle" /\ pc' = [pc EXCEPT ![t] = "read"]
        /\ UNCHANGED <<mutex, list, itt_events, num_itt_events, call, h, handles, log>>
    BY <1>10 DEF EventEnd, Goto
  <2>3. MutexHeld' /\ CallsGoOn' /\ EventsCounted'
    BY <2>2 DEF MutexHeld, CallsGoOn, EventsCounted, MyList
  <2>4. ListsDistinct' /\ HandlesUsable' /\ StartsUsedOnce'
    BY <2>2 DEF ListsDistinct, HandlesUsable, InRange, StartsUsedOnce
  <2> QED
    BY <2>1, <2>3, <2>4
<1>11. CASE UNCHANGED registryVars
  BY <1>11 DEF registryVars, MutexHeld, CallsGoOn, EventsCounted, ListsDistinct, HandlesUsable,
               InRange, ClockAhead, Readers, StartsUsedOnce, MyList
<1>12. ASSUME NEW t \in Threads, Pushed(t) PROVE RegistryInv'
  <2> USE <1>12 DEF Pushed, Goto
  <2>1. /\ call[t] \in [kind : Kinds \cup {"event"}, name : Names]
        /\ call[t].kind = "event" /\ mutex = t
        /\ num_itt_events = Len(itt_events)
    BY DEF CallsGoOn, MutexHeld, EventsCounted
  <2>2. TypeOK'
    BY <2>1
  <2>3. MutexHeld' /\ CallsGoOn' /\ EventsCounted'
    BY <2>1 DEF MutexHeld, CallsGoOn, EventsCounted, MyList
  <2>4. HandlesUsable'
    BY <2>1 DEF HandlesUsable, InRange
  <2>5. ListsDistinct' /\ ClockAhead' /\ StartsUsedOnce'
    BY DEF ListsDistinct, ClockAhead, StartsUsedOnce
  <2>6. Readers'
    BY ReadersKept
  <2> QED
    BY <2>2, <2>3, <2>4, <2>5, <2>6
<1>13. ASSUME NEW t \in Threads, EventLogged(t) PROVE RegistryInv'
  <2>1. TypeOK' /\ ClockAhead' /\ Readers' /\ StartsUsedOnce' /\ HandlesUsable'
    BY <1>13, LogKeepsClock
  <2>2. /\ pc[t] = "read" /\ pc' = [pc EXCEPT ![t] = "idle"]
        /\ UNCHANGED <<mutex, list, itt_events, num_itt_events, call, h>>
    BY <1>13 DEF EventLogged, Goto
  <2>3. MutexHeld' /\ CallsGoOn' /\ EventsCounted' /\ ListsDistinct'
    BY <2>2 DEF MutexHeld, CallsGoOn, EventsCounted, ListsDistinct, MyList
  <2> QED
    BY <2>1, <2>3
<1> QED
  BY <1>1, <1>2, <1>3, <1>4, <1>5, <1>6, <1>7, <1>8, <1>9, <1>10, <1>11, <1>12, <1>13
  DEF RegistryNext, CallStep

LEMMA RegistryInvariant == RegistrySpec => []RegistryInv
BY RegistryInvInit, RegistryInvNext, PTL DEF RegistrySpec

\* However many threads create domains, strings and events at once, no domain or
\* string has two nodes and two calls get the same handle if and only if they
\* asked for the same name (itt_collector.h, __itt_domain_create).
THEOREM OneNodePerNameCorrect == RegistrySpec => []OneNodePerName
<1>1. RegistryInv => OneNodePerName
  <2> SUFFICES ASSUME RegistryInv PROVE OneNodePerName
    OBVIOUS
  <2>1. \A a, b \in handles :
          a.kind = b.kind =>
            /\ a.handle = b.handle => a.name = b.name
            /\ a.kind # "event" /\ a.name = b.name => a.handle = b.handle
    <3> SUFFICES ASSUME NEW a \in handles, NEW b \in handles, a.kind = b.kind
                 PROVE  /\ a.handle = b.handle => a.name = b.name
                        /\ a.kind # "event" /\ a.name = b.name => a.handle = b.handle
      OBVIOUS
    <3>0. Means(a) /\ Means(b)
      BY DEF RegistryInv, HandlesUsable, Means
    <3>1. CASE a.kind = "event"
      BY <3>0, <3>1 DEF Means
    <3>2. CASE a.kind # "event"
      <4>1. a.kind \in Kinds
        BY <3>2 DEF RegistryInv, TypeOK
      <4>2. /\ a.handle \in DOMAIN list[a.kind] /\ list[a.kind][a.handle] = a.name
            /\ b.handle \in DOMAIN list[a.kind] /\ list[a.kind][b.handle] = b.name
        BY <3>0, <3>2 DEF Means
      <4> QED
        BY <4>1, <4>2 DEF RegistryInv, ListsDistinct
    <3> QED
      BY <3>1, <3>2
  <2> QED
    BY <2>1 DEF RegistryInv, ListsDistinct, OneNodePerName
<1> QED
  BY <1>1, RegistryInvariant, PTL

\* A handle that was returned stands for its name and passes the checks of start and
\* end at once, because an event is in the vector before it is counted; what an end
\* logs has the name of its event if no push_back was in progress while the end read
\* it (itt_collector.h, __itt_event_create and __itt_event_end).
THEOREM HandlesUsableCorrect == RegistrySpec => []HandlesUsable
<1>1. RegistryInv => HandlesUsable
  BY DEF RegistryInv
<1> QED
  BY <1>1, RegistryInvariant, PTL

\* One start of an event serves one end, in any order of starts and ends
\* (itt_collector.h, __itt_event_end).
THEOREM StartsUsedOnceCorrect == RegistrySpec => []StartsUsedOnce
<1>1. RegistryInv => StartsUsedOnce
  BY DEF RegistryInv
<1> QED
  BY <1>1, RegistryInvariant, PTL
================================================================================
