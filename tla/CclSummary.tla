------------------------------- MODULE CclSummary ------------------------------
(***************************************************************************)
(* itt_collector.h: the oneCCL summary.  Ended tasks and events add their  *)
(* durations under lock_func_info; ~UniTracer turns the map into a table.  *)
(*                                                                         *)
(* Functions are numbers, which gives them the order of their names.  The  *)
(* sums are nanoseconds in 64 bits, which a process does not live to fill, *)
(* so they are plain integers here.  The percentage column is left out.    *)
(***************************************************************************)
EXTENDS Integers, SequencesExt

CONSTANTS
  Names,        \* names of tasks and events
  CclNames,     \* those that start with "oneCCL::"
  Durations,    \* durations that occur, in nanoseconds; 0 under a coarse clock
  AddBound      \* bound: calls that end

ASSUME NamesAssumption == Names \subseteq Int /\ CclNames \subseteq Names
ASSUME DurationAssumption == Durations \subseteq Nat

None == [rows |-> <<>>, total |-> 0]

VARIABLES
  info,         \* ccl_function_info_map
  ended,        \* history: what was added, in order: name and time
  report,       \* the table, once ~UniTracer has asked for it
  reported

cclVars == <<info, ended, report, reported>>

CclInit ==
  /\ info = << >>
  /\ ended = <<>>
  /\ report = None
  /\ reported = FALSE

Least(a, b) == IF b < a THEN b ELSE a
Greatest(a, b) == IF b > a THEN b ELSE a

First(time) == [total |-> time, min |-> time, max |-> time, count |-> 1]

Updated(f, time) ==
  [total |-> f.total + time, min |-> Least(f.min, time),
   max |-> Greatest(f.max, time), count |-> f.count + 1]

AddFunctionTime(name, time) ==
  /\ ~reported
  /\ Len(ended) < AddBound
  /\ ended' = Append(ended, [name |-> name, time |-> time])
  /\ info' = IF name \notin CclNames THEN info
             ELSE [n \in DOMAIN info \cup {name} |->
                     IF n # name THEN info[n]
                     ELSE IF name \in DOMAIN info THEN Updated(info[name], time)
                     ELSE First(time)]
  /\ UNCHANGED <<report, reported>>

--------------------------------------------------------------------------------
(* CclSummaryReport.                                                       *)

\* ittFunction::operator> and operator!=
Greater(f, g) == IF f.total # g.total THEN f.total > g.total ELSE f.count > g.count
Differs(f, g) == IF f.total = g.total THEN f.count # g.count ELSE TRUE

\* Variant: only the totals are compared.
BeforeByTotal(m, f, n, g) == f.total > g.total

\* utils::Comparator: which of two functions comes first in the table.
Before(m, f, n, g) == IF Differs(f, g) THEN Greater(f, g) ELSE m > n

\* The std::set sorted_list: inserting the functions in the order of the map,
\* one that is equivalent to a function already in the list is dropped.
Kept ==
  {n \in DOMAIN info :
     \A m \in DOMAIN info :
       m < n => Before(m, info[m], n, info[n]) \/ Before(n, info[n], m, info[m])}

Row(n) == [name |-> n, calls |-> info[n].count, total |-> info[n].total,
           average |-> info[n].total \div info[n].count,
           min |-> info[n].min, max |-> info[n].max]

\* The order of the list.
InOrder(order) ==
  \A i, j \in DOMAIN order : i < j => Before(order[i], info[order[i]], order[j], info[order[j]])
Rows ==
  LET order == CHOOSE order \in SetToSeqs(Kept) : InOrder(order)
  IN [i \in DOMAIN order |-> Row(order[i])]

TotalDuration == SumFunctionOnSet([n \in Kept |-> info[n].total], Kept)

CclSummaryReport ==
  /\ ~reported
  /\ reported' = TRUE
  /\ report' = IF DOMAIN info = {} \/ TotalDuration = 0 THEN None
               ELSE [rows |-> Rows, total |-> TotalDuration]
  /\ UNCHANGED <<info, ended>>

CclNext ==
  \/ \E name \in Names, time \in Durations : AddFunctionTime(name, time)
  \/ CclSummaryReport

CclSpec == CclInit /\ [][CclNext]_cclVars

--------------------------------------------------------------------------------
Calls(n) == {i \in DOMAIN ended : ended[i].name = n}
Times(n) == {ended[i].time : i \in Calls(n)}

\* The four running numbers are what one would compute from all calls at the
\* end: no call of a oneCCL function is missing, none is counted twice.  The table
\* has a row for every function, although it is sorted in a set whose order looks
\* at totals first; rows come in descending order of their totals, which add up to
\* the total that percentages are taken of.
TableMatchesCalls ==
  /\ \A n \in CclNames :
       IF Calls(n) = {} THEN n \notin DOMAIN info
       ELSE info[n] = [total |-> MapThenSumSet(LAMBDA i : ended[i].time, Calls(n)),
                       min |-> Min(Times(n)), max |-> Max(Times(n)), count |-> Cardinality(Calls(n))]
  /\ reported /\ report # None =>
       /\ {report.rows[i].name : i \in DOMAIN report.rows} = DOMAIN info
       /\ \A i, j \in DOMAIN report.rows : i < j => report.rows[i].total >= report.rows[j].total
       /\ report.total = SumFunctionOnSet([n \in DOMAIN info |-> info[n].total], DOMAIN info)
================================================================================
