------------------------------- MODULE IttRegistry -----------------------------
(***************************************************************************)
(* itt_collector.h: what all threads of the program share besides the      *)
(* gate.  Domains and string handles are linked lists searched and         *)
(* extended under the mutex of itt_global; events are a vector of names    *)
(* extended under that mutex too, but read without it: a start checks its  *)
(* event against num_itt_events, an end also reads the name, twice, and may*)
(* wait for other mutexes with what it has read.  A push_back may move the *)
(* names meanwhile: the end is then given whatever is where they were.  (It*)
(* may also end the process; nothing of this module happens after that.)   *)
(*                                                                         *)
(* The collection gate is left out: a call that it stops changes nothing.  *)
(***************************************************************************)
EXTENDS Integers, Sequences

CONSTANTS
  Threads,      \* threads of the program
  NoOne,        \* nobody holds the mutex
  Kinds,        \* which lists are in use: "domain", "string"
  Names,        \* names of domains, of string handles and of events
  Garbage,      \* what is in memory that was freed
  EventBound,   \* bound: events created
  StartBound    \* bound: times an event is started

ASSUME NoOneAssumption == NoOne \notin Threads
ASSUME KindsAssumption == Kinds \subseteq {"domain", "string"}
ASSUME BoundAssumption == EventBound \in Nat /\ StartBound \in Nat

VARIABLES
  itt_global,   \* whether __itt_api_init has been called
  mutex,        \* itt_global->mutex
  list,         \* domain_list and string_list, as names; a handle is a position
  itt_events,   \* the names of the events
  num_itt_events,
  pc,           \* where a thread is in its call
  call,         \* what it asks for: [kind, name]
  h,            \* the list node it looks at
  event_desc,   \* thread_local: the events it has started, with their times
  reading,      \* the event whose name it reads in __itt_event_end, its times,
                \* and whether a push_back was in progress meanwhile
  timer,        \* GetHostTimestamp
  handles,      \* history: [kind, name, handle] of every call that returned
  log           \* history: the events logged

registryVars == <<itt_global, mutex, list, itt_events, num_itt_events, pc, call, h,
          event_desc, reading, timer, handles, log>>

NoCall == [kind |-> "none", name |-> "none"]
NoReading == [event |-> 0, start |-> 0, end |-> 0, torn |-> FALSE]

RegistryInit ==
  /\ itt_global = FALSE
  /\ mutex = NoOne
  /\ list = [k \in Kinds |-> <<>>]
  /\ itt_events = <<>>
  /\ num_itt_events = 0
  /\ pc = [t \in Threads |-> "idle"]
  /\ call = [t \in Threads |-> NoCall]
  /\ h = [t \in Threads |-> 0]
  /\ event_desc = [t \in Threads |-> << >>]
  /\ reading = [t \in Threads |-> NoReading]
  /\ timer = 1
  /\ handles = {}
  /\ log = <<>>

Goto(t, where) == pc' = [pc EXCEPT ![t] = where]

ApiInit ==
  /\ ~itt_global
  /\ itt_global' = TRUE
  /\ UNCHANGED <<mutex, list, itt_events, num_itt_events, pc, call, h,
                 event_desc, reading, timer, handles, log>>

\* Before __itt_api_init a create call returns NULL, or -1, and changes nothing.
Ask(t, kind, name) ==
  /\ pc[t] = "idle"
  /\ itt_global
  /\ kind = "event" => Len(itt_events) < EventBound
  /\ call' = [call EXCEPT ![t] = [kind |-> kind, name |-> name]]
  /\ Goto(t, "lock")
  /\ UNCHANGED <<itt_global, mutex, list, itt_events, num_itt_events, h,
                 event_desc, reading, timer, handles, log>>

Lock(t) ==
  /\ pc[t] = "lock"
  /\ mutex = NoOne
  /\ mutex' = t
  /\ h' = [h EXCEPT ![t] = 1]
  /\ Goto(t, IF call[t].kind = "event" THEN "push" ELSE "search")
  /\ UNCHANGED <<itt_global, list, itt_events, num_itt_events, call,
                 event_desc, reading, timer, handles, log>>

\* The mutex is released and the call returns its handle.
Return(t, handle) ==
  /\ handles' = handles \cup {[kind |-> call[t].kind, name |-> call[t].name, handle |-> handle]}
  /\ mutex' = NoOne
  /\ Goto(t, "idle")
  /\ call' = [call EXCEPT ![t] = NoCall]
  /\ h' = [h EXCEPT ![t] = 0]
  /\ UNCHANGED <<itt_global, event_desc, reading, timer, log>>

MyList(t) == list[call[t].kind]

\* Variant for the mutation runs: the last node is not compared.
AtEndEarly(t) == h[t] >= Len(MyList(t))

AtEnd(t) == h[t] > Len(MyList(t))

\* One node of the list: found, or on to the next, or a new node at the end.
SearchFound(t) ==
  /\ pc[t] = "search"
  /\ ~AtEnd(t)
  /\ MyList(t)[h[t]] = call[t].name
  /\ Return(t, h[t])
  /\ UNCHANGED <<list, itt_events, num_itt_events>>

\* Variant: h is not advanced.
SearchStays(t) ==
  /\ pc[t] = "search"
  /\ ~AtEnd(t)
  /\ UNCHANGED registryVars

SearchNext(t) ==
  /\ pc[t] = "search"
  /\ ~AtEnd(t)
  /\ MyList(t)[h[t]] # call[t].name
  /\ h' = [h EXCEPT ![t] = @ + 1]
  /\ UNCHANGED <<itt_global, mutex, list, itt_events, num_itt_events, pc, call,
                 event_desc, reading, timer, handles, log>>

SearchNew(t) ==
  /\ pc[t] = "search"
  /\ AtEnd(t)
  /\ list' = [list EXCEPT ![call[t].kind] = Append(@, call[t].name)]
  /\ Return(t, Len(MyList(t)) + 1)
  /\ UNCHANGED <<itt_events, num_itt_events>>

\* __itt_event_create: the name is in the vector before it is counted.  While
\* push_back works, and moves the names if there is no room, no reader can rely on
\* where they are.
Push(t) ==
  /\ pc[t] = "push"
  /\ reading' = [u \in Threads |-> IF pc[u] = "read" THEN [reading[u] EXCEPT !.torn = TRUE] ELSE reading[u]]
  /\ Goto(t, "moving")
  /\ UNCHANGED <<itt_global, mutex, list, itt_events, num_itt_events, call, h,
                 event_desc, timer, handles, log>>

Pushed(t) ==
  /\ pc[t] = "moving"
  /\ itt_events' = Append(itt_events, call[t].name)
  /\ Goto(t, "number")
  /\ UNCHANGED <<itt_global, mutex, list, num_itt_events, call, h,
                 event_desc, reading, timer, handles, log>>

\* Variant: the events are not counted.
NumberForgotten(t) ==
  /\ pc[t] = "number"
  /\ Return(t, Len(itt_events) - 1)
  /\ UNCHANGED <<list, itt_events, num_itt_events>>

Number(t) ==
  /\ pc[t] = "number"
  /\ num_itt_events' = Len(itt_events)
  /\ Return(t, num_itt_events' - 1)
  /\ UNCHANGED <<list, itt_events>>

--------------------------------------------------------------------------------
\* A program uses the events it was given, and -1 if it was given none.
KnownEvents == {r.handle : r \in {q \in handles : q.kind = "event"}} \cup {-1}

InRange(event) == event >= 0 /\ event < num_itt_events

\* event_desc.insert does nothing for an event that is already started.  (An
\* event out of range is refused and changes nothing.)
EventStart(t, event) ==
  /\ pc[t] = "idle"
  /\ timer <= StartBound
  /\ InRange(event)
  /\ event_desc' = [event_desc EXCEPT ![t] =
       IF event \in DOMAIN @ THEN @
       ELSE [e \in DOMAIN @ \cup {event} |-> IF e = event THEN timer ELSE @[e]]]
  /\ timer' = timer + 1
  /\ UNCHANGED <<itt_global, mutex, list, itt_events, num_itt_events, pc, call, h,
                 reading, handles, log>>

\* Variant: the start is kept.
ErasedNot(t, event) == event_desc[t]

Erased(t, event) == [e \in DOMAIN event_desc[t] \ {event} |-> event_desc[t][e]]

\* The end is checked and timed; the name is still to be read, without the mutex.
EventEnd(t, event) ==
  /\ pc[t] = "idle"
  /\ InRange(event)
  /\ event \in DOMAIN event_desc[t]
  /\ event_desc' = [event_desc EXCEPT ![t] = Erased(t, event)]
  /\ timer' = timer + 1
  /\ reading' = [reading EXCEPT ![t] =
       [event |-> event, start |-> event_desc[t][event], end |-> timer,
        torn |-> \E u \in Threads : pc[u] = "moving"]]
  /\ Goto(t, "read")
  /\ UNCHANGED <<itt_global, mutex, list, itt_events, num_itt_events, call, h, handles, log>>

\* What AddFunctionTime and Log are given.
NamesRead(r) == IF r.torn THEN Names \cup {Garbage} ELSE {itt_events[r.event + 1]}

EventLogged(t) ==
  /\ pc[t] = "read"
  /\ \E name \in NamesRead(reading[t]) :
       log' = Append(log, [thread |-> t, name |-> name, event |-> reading[t].event,
                           start |-> reading[t].start, end |-> reading[t].end, torn |-> reading[t].torn])
  /\ reading' = [reading EXCEPT ![t] = NoReading]
  /\ Goto(t, "idle")
  /\ UNCHANGED <<itt_global, mutex, list, itt_events, num_itt_events, call, h,
                 event_desc, timer, handles>>

CallStep(t) ==
  \/ Lock(t) \/ SearchFound(t) \/ SearchNext(t) \/ SearchNew(t)
  \/ Push(t) \/ Pushed(t) \/ Number(t) \/ EventLogged(t)

RegistryNext ==
  \/ ApiInit
  \/ \E t \in Threads :
       \/ \E kind \in Kinds \cup {"event"}, name \in Names : Ask(t, kind, name)
       \/ \E event \in KnownEvents : EventStart(t, event) \/ EventEnd(t, event)
       \/ CallStep(t)

RegistrySpec == RegistryInit /\ [][RegistryNext]_registryVars

\* A thread inside a call goes on; the mutex need not be fair to it.
FairRegistrySpec == RegistrySpec /\ \A t \in Threads : WF_registryVars(CallStep(t))

--------------------------------------------------------------------------------
\* Every variable keeps its type; the count that threads read without the mutex
\* never runs ahead of the vector it guards.  (Proved in IttCollectorProofs.)
TypeOK ==
  /\ itt_global \in BOOLEAN
  /\ mutex \in Threads \cup {NoOne}
  /\ list \in [Kinds -> Seq(Names)]
  /\ itt_events \in Seq(Names)
  /\ num_itt_events \in 0..Len(itt_events)
  /\ pc \in [Threads -> {"idle", "lock", "search", "push", "moving", "number", "read"}]
  /\ call \in [Threads -> [kind : Kinds \cup {"event"}, name : Names] \cup {NoCall}]
  /\ h \in [Threads -> Nat]
  /\ DOMAIN event_desc = Threads
  /\ \A t \in Threads : \A e \in DOMAIN event_desc[t] : e \in Nat /\ event_desc[t][e] \in Nat
  /\ reading \in [Threads -> [event : Nat, start : Nat, end : Nat, torn : BOOLEAN]]
  /\ timer \in Nat
  /\ handles \subseteq [kind : Kinds \cup {"event"}, name : Names, handle : Nat]
  /\ log \in Seq([thread : Threads, name : Names \cup {Garbage}, event : Nat, start : Nat, end : Nat,
                  torn : BOOLEAN])

\* No domain and no string has two nodes, however the creating threads race, so
\* two calls get the same handle if and only if they asked for the same name;
\* every event is a new one, though, and no two of them are the same.
OneNodePerName ==
  /\ \A k \in Kinds : \A i, j \in DOMAIN list[k] : i # j => list[k][i] # list[k][j]
  /\ \A a, b \in handles :
       a.kind = b.kind =>
         /\ a.handle = b.handle => a.name = b.name
         /\ a.kind # "event" /\ a.name = b.name => a.handle = b.handle

\* A handle that a call has returned stands for its name, whatever other threads
\* create: a list node does not move, an event passes the range check of start and
\* end at once ("let it race", itt_collector.h:462), and an end logs the name that
\* the event was created with, if no push_back was in progress at any time between
\* its checks and the use of the name.
HandlesUsable ==
  /\ \A r \in handles :
       IF r.kind = "event" THEN InRange(r.handle) /\ itt_events[r.handle + 1] = r.name
       ELSE r.handle \in DOMAIN list[r.kind] /\ list[r.kind][r.handle] = r.name
  /\ \A i \in DOMAIN log : log[i].torn \/
       \E r \in handles : r.kind = "event" /\ r.handle = log[i].event /\ r.name = log[i].name

\* One start serves one end: the logged intervals of an event on a thread are
\* disjoint and in order, also when it is started twice or ended twice.
StartsUsedOnce ==
  \A i, j \in DOMAIN log :
    /\ log[i].start < log[i].end
    /\ i < j /\ log[i].thread = log[j].thread /\ log[i].event = log[j].event
         => log[i].end < log[j].start

\* A thread that has taken the mutex gives it up: every search of a list ends,
\* found or not, and every way out of a create call unlocks.  (That a waiting
\* thread gets its turn is more than a std::mutex promises.)
MutexReleased == \A t \in Threads : mutex = t ~> mutex # t
================================================================================
