------------------------------- MODULE MetricsFile -----------------------------
(***************************************************************************)
(* The file of hardware metrics that unitrace writes, as                   *)
(* scripts/metrics/analyzeperfmetrics.py reads it, and what the operations *)
(* of the script share.  The file has for each device a banner, a header   *)
(* line and the samples.  In performance metrics a blank row ends a kernel *)
(* instance; it may be missing after the last one.  A row is               *)
(*   [kind |-> "banner", device |-> d]    "=== Device #d Metrics ==="      *)
(*   [kind |-> "header", stall |-> b]     "Kernel,..."; stall events or not*)
(*   [kind |-> "sample", kernel |-> k, id |-> n, events |-> e]             *)
(*   [kind |-> "blank"]                                                    *)
(* where id is the sample's GlobalInstanceId and events whether the sample *)
(* has stall events.                                                       *)
(***************************************************************************)
EXTENDS Integers, SequencesExt

CONSTANTS
  Kernels,        \* names of kernels
  Files           \* contents of the file of metrics

VARIABLES
  file,           \* args.input
  options,        \* the other args
  pc              \* the loop the script is in

shared == <<file, options, pc>>

Banner(d) == [kind |-> "banner", device |-> d]
HeaderLine(stall) == [kind |-> "header", stall |-> stall]
Sample(k, n, e) == [kind |-> "sample", kernel |-> k, id |-> n, events |-> e]
BlankRow == [kind |-> "blank"]

IsBanner(row) == row.kind = "banner"
IsHeader(row) == row.kind = "header"

\* The members of a finite set of numbers in their order.
Nth(S, i) == CHOOSE n \in S : Cardinality({m \in S : m <= n}) = i
InOrder(S) == [i \in 1..Cardinality(S) |-> Nth(S, i)]

Devices(rows) == {rows[n].device : n \in {m \in DOMAIN rows : IsBanner(rows[m])}}

\* Lines from the banner of device d to the next device's.
BannerOf(rows, d) == CHOOSE n \in DOMAIN rows : rows[n] = Banner(d)
LastOf(rows, d) ==
  Min({n \in DOMAIN rows : n > BannerOf(rows, d) /\ IsBanner(rows[n])} \cup {Len(rows) + 1})
HeaderOf(rows, d) ==
  Min({n \in DOMAIN rows : n > BannerOf(rows, d) /\ IsHeader(rows[n])})

\* pd.read_csv(skiprows = header, nrows = last - header - 1, skip_blank_lines = False)
Frame(rows, header, last) == SubSeq(rows, header + 1, last - 1)
FrameOf(rows, d) == Frame(rows, HeaderOf(rows, d), LastOf(rows, d))
================================================================================
