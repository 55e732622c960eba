-------------------------------- MODULE Roofline -------------------------------
(***************************************************************************)
(* scripts/roofline: roofline.py profiles an application twice, once for   *)
(* each group of metrics, in a directory whose name is the time, merges    *)
(* what the processes of the application wrote and removes the directory;  *)
(* or it gets both profiles from the user.  roofline_libs.py reads the two *)
(* profiles, sums them up and plots a point for each kernel.  Several users*)
(* may run it, in the same second and the same place.                      *)
(*                                                                         *)
(* A profile is a sequence of lines: the marker, a header, samples.  A     *)
(* sample has a kernel, its time and the events of its group: operations of*)
(* two precisions, or bytes of L3 cache and of memory; simd is whether the *)
(* kernel's name has a shape.  A file that does not exist is an empty one. *)
(* Merging, reading and plotting are one step each, and a file has all of  *)
(* its lines once it is there; rates, what bounds a kernel, labels and the *)
(* page around the points are left out.                                    *)
(***************************************************************************)
EXTENDS Integers, SequencesExt

CONSTANTS
  Users,          \* runs of the script
  Stamps,         \* "%Y-%m-%d_%H-%M-%S": it may be the same again
  Samples,        \* profiles of one process of an application, by group
  Given           \* profiles a user may have

Marker == [kind |-> "marker"]
Header(group) == [kind |-> "header", group |-> group]
Groups == {"ComputeBasic", "VectorEngine138"}
Precisions == <<"FP16", "FP32">>

\* What unitrace writes for a group: a process may write nothing, but no sample
\* before a header and no header before the marker.
Sample(group) ==
  IF group = "ComputeBasic"
  THEN [kind : {"sample"}, kernel : STRING, simd : BOOLEAN, time : Nat, L3 : Nat, gpu_memory : Nat]
  ELSE [kind : {"sample"}, kernel : STRING, simd : BOOLEAN, time : Nat, FP16 : Nat, FP32 : Nat]
Profile(group) == Seq({Marker, Header(group)} \cup Sample(group))
Introduced(lines) ==
  \A n \in DOMAIN lines :
    /\ lines[n].kind = "sample" => \E m \in 1..(n - 1) : lines[m].kind = "header"
    /\ lines[n].kind = "header" => \E m \in 1..(n - 1) : lines[m] = Marker

ASSUME ProfileAssumption ==
  /\ \A group \in Groups :
       /\ IsFiniteSet(Samples[group])
       /\ \A lines \in Samples[group] : lines \in Profile(group) /\ Introduced(lines)
  /\ \A lines \in Given : \E group \in Groups : lines \in Profile(group)

VARIABLES
  pc,
  stamp,          \* output_dir of each run, or none
  disk,           \* for each directory, whether it exists, its files, flops.txt, bytes.txt
  written,        \* history: what the unitrace commands of a run wrote
  profiles,       \* of each run: the lines of the compute and the memory profile
  result,         \* entry_list
  points          \* the points plotted

vars == <<pc, stamp, disk, written, profiles, result, points>>

None == "none"
ASSUME StampAssumption == None \notin Stamps

NoDirectory == [exists |-> FALSE, files |-> {}, flops |-> <<>>, bytes |-> <<>>]
Failed(u) == pc' = [pc EXCEPT ![u] = "failed"]
Goes(u, to) == pc' = [pc EXCEPT ![u] = to]

Init ==
  /\ pc = [u \in Users |-> "start"]
  /\ stamp = [u \in Users |-> None]
  /\ disk = [s \in Stamps |-> NoDirectory]
  /\ written = [u \in Users |-> {}]
  /\ profiles = [u \in Users |-> [flops |-> <<>>, bytes |-> <<>>]]
  /\ result = [u \in Users |-> <<>>]
  /\ points = [u \in Users |-> <<>>]

\* main without --app: --compute has the operations, --memory the bytes.
UseProfiles(u) ==
  /\ pc[u] = "start"
  /\ \E flops, bytes \in Given :
       profiles' = [profiles EXCEPT ![u] = [flops |-> flops, bytes |-> bytes]]
  /\ Goes(u, "process")
  /\ UNCHANGED <<stamp, disk, written, result, points>>

\* find_unitrace
NoUnitrace(u) ==
  /\ pc[u] = "start"
  /\ Failed(u)
  /\ UNCHANGED <<stamp, disk, written, profiles, result, points>>

\* Variant for the mutation runs: a directory of that name is made anew.
CreateEmptyDirectory(u) ==
  /\ pc[u] = "start"
  /\ \E s \in Stamps :
       /\ stamp' = [stamp EXCEPT ![u] = s]
       /\ disk' = [disk EXCEPT ![s] = [NoDirectory EXCEPT !.exists = TRUE]]
  /\ Goes(u, "ComputeBasic")
  /\ UNCHANGED <<written, profiles, result, points>>

\* exist_ok = True: a directory of that name is used as it is.
CreateOutputDirectory(u) ==
  /\ pc[u] = "start"
  /\ \E s \in Stamps :
       /\ stamp' = [stamp EXCEPT ![u] = s]
       /\ disk' = [disk EXCEPT ![s].exists = TRUE]
  /\ Goes(u, "ComputeBasic")
  /\ UNCHANGED <<written, profiles, result, points>>

\* One command.  Each process of the application writes a file; there is none if
\* the command fails or the directory is gone.  The outcome is not looked at.
RunUnitrace(u, group, next) ==
  /\ pc[u] = group
  /\ \E processes \in SUBSET Samples[group] :
       LET files == IF disk[stamp[u]].exists
                    THEN {[run |-> u, group |-> group, lines |-> lines] : lines \in processes}
                    ELSE {}
       IN /\ disk' = [disk EXCEPT ![stamp[u]].files = @ \cup files]
          /\ written' = [written EXCEPT ![u] = @ \cup files]
  /\ Goes(u, next)
  /\ UNCHANGED <<stamp, profiles, result, points>>

\* Variant: only the file of one process is taken.
MergeMetricsFile(u, group, name, next) ==
  /\ pc[u] = name
  /\ IF disk[stamp[u]].exists
     THEN /\ disk' = [disk EXCEPT ![stamp[u]][name] =
                        LET lines == {f.lines : f \in {g \in disk[stamp[u]].files : g.group = group}}
                        IN IF lines = {} THEN <<>> ELSE CHOOSE l \in lines : TRUE]
          /\ Goes(u, next)
     ELSE Failed(u) /\ UNCHANGED disk
  /\ UNCHANGED <<stamp, written, profiles, result, points>>

\* glob: the files of the group, in any order.
MergeMetricsFiles(u, group, name, next) ==
  /\ pc[u] = name
  /\ IF disk[stamp[u]].exists
     THEN /\ disk' = [disk EXCEPT ![stamp[u]][name] =
                        FlattenSeq(SetToSeq({f.lines : f \in {g \in disk[stamp[u]].files : g.group = group}}))]
          /\ Goes(u, next)
     ELSE Failed(u) /\ UNCHANGED disk
  /\ UNCHANGED <<stamp, written, profiles, result, points>>

\* The two paths are read when the results are processed, bytes.txt first.
OpenMerged(u) ==
  /\ pc[u] = "open"
  /\ profiles' = [profiles EXCEPT ![u] = [flops |-> disk[stamp[u]].flops,
                                          bytes |-> disk[stamp[u]].bytes]]
  /\ Goes(u, "process")
  /\ UNCHANGED <<stamp, disk, written, result, points>>

--------------------------------------------------------------------------------
(* roofline_libs.py                                                        *)

\* file_to_json: what follows the marker and the first header, lines with a
\* shape, each once.  Without a header, and for a file that does not exist, there
\* are no columns.
FileToJson(lines) ==
  LET headers == {n \in DOMAIN lines : lines[n].kind = "header" /\ \E m \in 1..(n - 1) : lines[m] = Marker}
      rows == {n \in DOMAIN lines : lines[n].kind = "sample" /\ lines[n].simd /\ \E m \in headers : m < n}
  IN [group |-> IF headers = {} THEN None ELSE lines[Min(headers)].group,
      rows |-> {lines[n] : n \in rows}]

\* df.groupby('Kernel').agg('sum')
KernelsOf(rows) == {row.kernel : row \in rows}
SumOver(rows, k, Field(_)) == MapThenSumSet(Field, {row \in rows : row.kernel = k})
TimeOf(rows, k) == SumOver(rows, k, LAMBDA row : row.time)
TotalTime(rows) == MapThenSumSet(LAMBDA row : row.time, rows)

Entry(bytes, flops, k) ==
  [kernel_name |-> k,
   L3 |-> SumOver(bytes, k, LAMBDA row : row.L3),
   gpu_memory |-> SumOver(bytes, k, LAMBDA row : row.gpu_memory),
   FP16 |-> 64 * SumOver(flops, k, LAMBDA row : row.FP16),
   FP32 |-> 32 * SumOver(flops, k, LAMBDA row : row.FP32),
   kernel_time |-> TimeOf(bytes, k),
   total_gpu_time |-> TotalTime(bytes)]

\* "if kernel in xve_inst_executed_fp64.index"
InBoth(bytes, flops) == KernelsOf(bytes) \cap KernelsOf(flops)

\* Kernels of equal time are in any order.
ByTime(entries) ==
  {order \in SetToSeqs(entries) :
     \A m, n \in DOMAIN order : m < n => order[m].kernel_time >= order[n].kernel_time}

\* A column of one group that is missing ends the script.
ReadUnitraceReport(u) ==
  /\ pc[u] = "process"
  /\ LET bytes == FileToJson(profiles[u].bytes)
         flops == FileToJson(profiles[u].flops)
     IN IF bytes.group = "ComputeBasic" /\ flops.group = "VectorEngine138"
        THEN /\ \E order \in ByTime({Entry(bytes.rows, flops.rows, k) : k \in InBoth(bytes.rows, flops.rows)}) :
                  result' = [result EXCEPT ![u] = order]
             /\ Goes(u, "summary")
        ELSE Failed(u) /\ UNCHANGED result
  /\ UNCHANGED <<stamp, disk, written, profiles, points>>

\* summary: the total rate is a quotient by the time of all kernels listed, the
\* 0 of Python's sum if there are none; a quotient by a sum of zero does not fail.
Summary(u) ==
  /\ pc[u] = "summary"
  /\ IF result[u] = <<>> THEN Failed(u) ELSE Goes(u, "plot")
  /\ UNCHANGED <<stamp, disk, written, profiles, result, points>>

\* plot_html_roofline: the precision with the most operations is that of all
\* points; kernels without such operations have none, and the others a point
\* for each resource, a quotient by the bytes of each.
Operations(entries, p) == FoldLeft(LAMBDA sum, entry : sum + entry[p], 0, entries)

\* Variant: the precision with the fewest.
LeastPrecision(entries) ==
  IF Operations(entries, "FP16") >= Operations(entries, "FP32") THEN "FP32" ELSE "FP16"

Precision(entries) ==
  IF Operations(entries, "FP16") >= Operations(entries, "FP32") THEN "FP16" ELSE "FP32"

\* "entry.kernel_time * 100 / entry.total_gpu_time > 0.001"
Shown(entry) == entry.kernel_time > entry.total_gpu_time \div 100000

Selected(entries, kept) ==
  LET selected[n \in 0..Len(entries)] ==
        IF n = 0 THEN <<>>
        ELSE IF n \in kept THEN Append(selected[n - 1], entries[n]) ELSE selected[n - 1]
  IN selected[Len(entries)]

Plotted(entries) ==
  Selected(entries, {n \in DOMAIN entries : Shown(entries[n]) /\ entries[n][Precision(entries)] > 0})
Point(entry, order) == [kernel |-> entry.kernel_name, order |-> order]

PlotHtmlRoofline(u) ==
  /\ pc[u] = "plot"
  /\ LET plotted == Plotted(result[u])
     IN IF \E n \in DOMAIN plotted : plotted[n].L3 = 0 \/ plotted[n].gpu_memory = 0
        THEN Failed(u) /\ UNCHANGED points
        ELSE /\ points' = [points EXCEPT ![u] = [n \in DOMAIN plotted |-> Point(plotted[n], n)]]
             /\ Goes(u, IF stamp[u] = None THEN "done" ELSE "remove")
  /\ UNCHANGED <<stamp, disk, written, profiles, result>>

\* shutil.rmtree with ignore_errors: what cannot be removed stays, and the
\* directory with it.
Remains(d) ==
  {NoDirectory} \cup
  {left \in [exists : {d.exists}, files : SUBSET d.files, flops : {<<>>, d.flops}, bytes : {<<>>, d.bytes}] :
     left.exists}

\* Nothing removes the directory of a run that failed.
RemoveOutputDirectory(u) ==
  /\ pc[u] = "remove"
  /\ \E left \in Remains(disk[stamp[u]]) : disk' = [disk EXCEPT ![stamp[u]] = left]
  /\ Goes(u, "done")
  /\ UNCHANGED <<stamp, written, profiles, result, points>>

Next ==
  \E u \in Users :
    \/ UseProfiles(u) \/ NoUnitrace(u) \/ CreateOutputDirectory(u)
    \/ RunUnitrace(u, "ComputeBasic", "VectorEngine138")
    \/ RunUnitrace(u, "VectorEngine138", "flops")
    \/ MergeMetricsFiles(u, "VectorEngine138", "flops", "bytes")
    \/ MergeMetricsFiles(u, "ComputeBasic", "bytes", "open")
    \/ OpenMerged(u)
    \/ ReadUnitraceReport(u) \/ Summary(u) \/ PlotHtmlRoofline(u) \/ RemoveOutputDirectory(u)

Spec == Init /\ [][Next]_vars

--------------------------------------------------------------------------------
SimdRows(lines) == {lines[n] : n \in {m \in DOMAIN lines : lines[m].kind = "sample" /\ lines[m].simd}}
AllSamples(u, group) == UNION {SimdRows(f.lines) : f \in {g \in written[u] : g.group = group}}

\* A run whose directory no other run has ever used is about its own
\* application: the sums of every kernel are those over all samples that all of
\* its processes wrote for the group, and nothing else.
OwnProfile ==
  \A u \in Users :
    /\ stamp[u] # None /\ \A v \in Users \ {u} : stamp[v] # stamp[u]
    /\ pc[u] \in {"summary", "plot", "remove", "done"}
    => ToSet(result[u]) =
         LET bytes == AllSamples(u, "ComputeBasic")
             flops == AllSamples(u, "VectorEngine138")
         IN {Entry(bytes, flops, k) : k \in KernelsOf(bytes) \cap KernelsOf(flops)}

Sharing(u) == {v \in Users : stamp[v] = stamp[u]}

\* A directory that other runs use as well, because they began in the same
\* second, costs a run nothing as long as their commands are still going on: it
\* has read all samples that its own processes wrote for a group, and the other
\* samples it has read are of these runs and of that group.
SharedProfile ==
  \A u \in Users :
    /\ stamp[u] # None /\ \A v \in Sharing(u) \ {u} : pc[v] \in {"ComputeBasic", "VectorEngine138"}
    /\ pc[u] \in {"process", "summary", "plot", "remove", "done"}
    => \A group \in Groups :
         LET read == FileToJson(IF group = "ComputeBasic" THEN profiles[u].bytes ELSE profiles[u].flops).rows
         IN /\ AllSamples(u, group) \subseteq read
            /\ read \subseteq UNION {AllSamples(v, group) : v \in Sharing(u)}

\* The operations of a precision in the kernels that both profiles have, an
\* instruction counting for its width.
Width(p) == IF p = "FP16" THEN 64 ELSE 32
Total(memory, compute, p) ==
  Width(p) * MapThenSumSet(LAMBDA row : row[p],
                           {row \in compute : row.kernel \in KernelsOf(memory) \cap KernelsOf(compute)})

Uses(memory, compute, p) ==
  {k \in KernelsOf(memory) \cap KernelsOf(compute) : \E row \in compute : row.kernel = k /\ row[p] > 0}

ShowsMostUsed(shown, memory, compute) ==
  \E p \in ToSet(Precisions) :
    /\ \A other \in ToSet(Precisions) : Total(memory, compute, p) >= Total(memory, compute, other)
    /\ ToSet([n \in DOMAIN shown |-> shown[n].kernel]) =
         {k \in Uses(memory, compute, p) : TimeOf(memory, k) > TotalTime(memory) \div 100000}

ShowsByTime(shown, memory) ==
  \A m, n \in DOMAIN shown :
    m < n => /\ shown[m].order < shown[n].order
             /\ shown[m].kernel # shown[n].kernel
             /\ TimeOf(memory, shown[m].kernel) >= TimeOf(memory, shown[n].kernel)

\* A plot that was written shows the kernels by the time they take, each once,
\* and leaves out only what one of the profiles lacks, what takes no more than a
\* 100000th of the time, and what has no operations of the precision that all
\* kernels together use most; a script that ends early leaves no plot.
PointForEachKernel ==
  \A u \in Users :
    IF pc[u] \notin {"remove", "done"} THEN points[u] = <<>>
    ELSE LET memory == FileToJson(profiles[u].bytes).rows
             compute == FileToJson(profiles[u].flops).rows
         IN ShowsMostUsed(points[u], memory, compute) /\ ShowsByTime(points[u], memory)

================================================================================
