----------------------------- MODULE RooflineProofs ----------------------------
(***************************************************************************)
(* Proofs about Roofline.tla, for any number of users, times, applications *)
(* and profiles.                                                           *)
(***************************************************************************)
EXTENDS Roofline, NatLemmas, SequenceTheorems, FiniteSetTheorems, TLAPS

USE StampAssumption

\* The places of a run in which it has a directory, and those in which its
\* commands are still going on.
WithDirectory == {"ComputeBasic", "VectorEngine138", "flops", "bytes", "open", "remove"}
Commands == {"ComputeBasic", "VectorEngine138"}

\* Where a run uses its directory it has one, and a directory keeps its shape.
DirectoryInv ==
  /\ DOMAIN pc = Users
  /\ stamp \in [Users -> Stamps \cup {None}]
  /\ DOMAIN disk = Stamps /\ \A s \in Stamps : DOMAIN disk[s] = DOMAIN NoDirectory
  /\ \A u \in Users : /\ pc[u] \in WithDirectory => stamp[u] \in Stamps
                      /\ pc[u] = "start" => stamp[u] = None

LEMMA DirectoryInit == Init => DirectoryInv
<1> SUFFICES ASSUME Init PROVE DirectoryInv
  OBVIOUS
<1>1. \A s \in Stamps : disk[s] = NoDirectory
  BY DEF Init
<1>2. DOMAIN pc = Users /\ \A u \in Users : pc[u] = "start" /\ stamp[u] = None
  BY DEF Init
<1>3. stamp \in [Users -> Stamps \cup {None}] /\ DOMAIN disk = Stamps
  BY DEF Init
<1> QED
  BY <1>1, <1>2, <1>3 DEF DirectoryInv, WithDirectory

\* A step of u that keeps its directory and begins nothing.
SameDirectories(u) ==
  /\ stamp' = stamp
  /\ DOMAIN pc' = Users /\ \A v \in Users : v # u => pc'[v] = pc[v]
  /\ DOMAIN disk' = Stamps /\ \A s \in Stamps : DOMAIN disk'[s] = DOMAIN disk[s]
  /\ pc'[u] # "start"
  /\ pc'[u] \in WithDirectory => stamp[u] \in Stamps

LEMMA DirectoriesUntouched ==
  ASSUME DirectoryInv, NEW u \in Users, SameDirectories(u)
  PROVE  DirectoryInv'
BY DEF DirectoryInv, SameDirectories

LEMMA DirectoryNext == DirectoryInv /\ [Next]_vars => DirectoryInv'
<1> SUFFICES ASSUME DirectoryInv, [Next]_vars PROVE DirectoryInv'
  OBVIOUS
<1> USE DEF SameDirectories, WithDirectory, Goes, Failed
<1>1. ASSUME NEW u \in Users, UseProfiles(u) PROVE DirectoryInv'
  <2>1. SameDirectories(u)
    BY <1>1 DEF UseProfiles, DirectoryInv
  <2> QED
    BY <2>1, DirectoriesUntouched
<1>2. ASSUME NEW u \in Users, NoUnitrace(u) PROVE DirectoryInv'
  <2>1. SameDirectories(u)
    BY <1>2 DEF NoUnitrace, DirectoryInv
  <2> QED
    BY <2>1, DirectoriesUntouched
<1>3. ASSUME NEW u \in Users, CreateOutputDirectory(u) PROVE DirectoryInv'
  <2>1. PICK s \in Stamps :
          stamp' = [stamp EXCEPT ![u] = s] /\ disk' = [disk EXCEPT ![s].exists = TRUE]
    BY <1>3 DEF CreateOutputDirectory
  <2>2. /\ stamp'[u] = s /\ pc'[u] = "ComputeBasic"
        /\ \A v \in Users \ {u} : stamp'[v] = stamp[v] /\ pc'[v] = pc[v]
        /\ DOMAIN pc' = Users /\ stamp' \in [Users -> Stamps \cup {None}]
        /\ DOMAIN disk' = Stamps /\ \A r \in Stamps \ {s} : disk'[r] = disk[r]
        /\ DOMAIN disk'[s] = DOMAIN disk[s]
    BY <1>3, <2>1 DEF CreateOutputDirectory, DirectoryInv
  <2> QED
    BY <2>2 DEF DirectoryInv
<1>4. ASSUME NEW u \in Users, NEW group \in {"ComputeBasic", "VectorEngine138"},
             NEW next \in {"VectorEngine138", "flops"}, RunUnitrace(u, group, next)
      PROVE DirectoryInv'
  <2>1. stamp[u] \in Stamps
    BY <1>4 DEF RunUnitrace, DirectoryInv
  <2>2. DOMAIN disk[stamp[u]] = {"exists", "files", "flops", "bytes"}
    BY <2>1 DEF DirectoryInv, NoDirectory
  <2>3. SameDirectories(u)
    BY <1>4, <2>1, <2>2 DEF RunUnitrace, DirectoryInv
  <2> QED
    BY <2>3, DirectoriesUntouched
<1>5. ASSUME NEW u \in Users, NEW group, NEW name \in {"flops", "bytes"},
             NEW next \in {"bytes", "open"}, MergeMetricsFiles(u, group, name, next)
      PROVE DirectoryInv'
  <2>1. stamp[u] \in Stamps
    BY <1>5 DEF MergeMetricsFiles, DirectoryInv
  <2>2. DOMAIN disk[stamp[u]] = {"exists", "files", "flops", "bytes"}
    BY <2>1 DEF DirectoryInv, NoDirectory
  <2>3. SameDirectories(u)
    BY <1>5, <2>1, <2>2 DEF MergeMetricsFiles, DirectoryInv
  <2> QED
    BY <2>3, DirectoriesUntouched
<1>6. ASSUME NEW u \in Users, OpenMerged(u) PROVE DirectoryInv'
  <2>1. SameDirectories(u)
    BY <1>6 DEF OpenMerged, DirectoryInv
  <2> QED
    BY <2>1, DirectoriesUntouched
<1>7. ASSUME NEW u \in Users, ReadUnitraceReport(u) PROVE DirectoryInv'
  <2>1. SameDirectories(u)
    BY <1>7 DEF ReadUnitraceReport, DirectoryInv
  <2> QED
    BY <2>1, DirectoriesUntouched
<1>8. ASSUME NEW u \in Users, Summary(u) PROVE DirectoryInv'
  <2>1. SameDirectories(u)
    BY <1>8 DEF Summary, DirectoryInv
  <2> QED
    BY <2>1, DirectoriesUntouched
<1>9. ASSUME NEW u \in Users, PlotHtmlRoofline(u) PROVE DirectoryInv'
  <2>1. SameDirectories(u)
    BY <1>9 DEF PlotHtmlRoofline, DirectoryInv
  <2> QED
    BY <2>1, DirectoriesUntouched
<1>10. ASSUME NEW u \in Users, RemoveOutputDirectory(u) PROVE DirectoryInv'
  <2>1. stamp[u] \in Stamps
    BY <1>10 DEF RemoveOutputDirectory, DirectoryInv
  <2>2. \A left \in Remains(disk[stamp[u]]) : DOMAIN left = DOMAIN NoDirectory
    BY DEF Remains, NoDirectory
  <2>3. SameDirectories(u)
    BY <1>10, <2>1, <2>2 DEF RemoveOutputDirectory, DirectoryInv
  <2> QED
    BY <2>3, DirectoriesUntouched
<1>11. CASE UNCHANGED vars
  BY <1>11 DEF vars, DirectoryInv
<1> QED
  BY <1>1, <1>2, <1>3, <1>4, <1>5, <1>6, <1>7, <1>8, <1>9, <1>10, <1>11 DEF Next
--------------------------------------------------------------------------------
(* The merge and the reader.                                               *)

Lines(group) == {Marker, Header(group)} \cup Sample(group)

LEMMA Kinds ==
  ASSUME NEW group \in Groups, NEW line \in Lines(group)
  PROVE  /\ line.kind \in {"marker", "header", "sample"}
         /\ line.kind = "marker" <=> line = Marker
         /\ line.kind = "header" <=> line = Header(group)
         /\ line.kind = "sample" <=> line \in Sample(group)
BY DEF Lines, Marker, Header, Sample

\* Lines that are introduced stay so when one follows the other.
LEMMA BothIntroduced ==
  ASSUME NEW group \in Groups, NEW a \in Profile(group), NEW b \in Profile(group),
         Introduced(a), Introduced(b)
  PROVE  /\ a \o b \in Profile(group) /\ Introduced(a \o b)
         /\ SimdRows(a \o b) = SimdRows(a) \cup SimdRows(b)
<1> DEFINE c == a \o b
<1>1. /\ a \in Seq(Lines(group)) /\ b \in Seq(Lines(group)) /\ Len(a) \in Nat /\ Len(b) \in Nat
      /\ DOMAIN a = 1..Len(a) /\ DOMAIN b = 1..Len(b)
  BY LenProperties DEF Profile, Lines
<1>2. /\ c \in Seq(Lines(group)) /\ Len(c) = Len(a) + Len(b) /\ DOMAIN c = 1..(Len(a) + Len(b))
      /\ \A n \in 1..Len(a) : c[n] = a[n]
  BY <1>1, ConcatProperties, LenProperties
<1>3. ASSUME NEW n \in 1..Len(b) PROVE c[Len(a) + n] = b[n]
  BY <1>1, ConcatProperties
<1>4. ASSUME NEW n \in 1..(Len(a) + Len(b)), n > Len(a) PROVE n - Len(a) \in 1..Len(b) /\ c[n] = b[n - Len(a)]
  <2>1. n - Len(a) \in 1..Len(b) /\ Len(a) + (n - Len(a)) = n
    BY <1>1, <1>4
  <2> QED
    BY <1>3, <2>1
<1> HIDE DEF c
<1>5. Introduced(c)
  <2>1. ASSUME NEW n \in DOMAIN c
        PROVE  /\ c[n].kind = "sample" => \E m \in 1..(n - 1) : c[m].kind = "header"
               /\ c[n].kind = "header" => \E m \in 1..(n - 1) : c[m] = Marker
    <3>1. CASE n <= Len(a)
      <4>1. n \in DOMAIN a /\ c[n] = a[n] /\ \A m \in 1..(n - 1) : c[m] = a[m]
        BY <1>1, <1>2, <3>1
      <4> QED
        BY <4>1 DEF Introduced
    <3>2. CASE n > Len(a)
      <4> DEFINE k == n - Len(a)
      <4>1. k \in DOMAIN b /\ c[n] = b[k]
        BY <1>1, <1>2, <1>4, <3>2
      <4>2. ASSUME NEW m \in 1..(k - 1) PROVE Len(a) + m \in 1..(n - 1) /\ c[Len(a) + m] = b[m]
        <5>1. m \in 1..Len(b) /\ Len(a) + m \in 1..(n - 1)
          BY <1>1, <1>2, <3>2, <4>1
        <5> QED
          BY <1>3, <5>1
      <4> HIDE DEF k
      <4>3. /\ b[k].kind = "sample" => \E m \in 1..(k - 1) : b[m].kind = "header"
            /\ b[k].kind = "header" => \E m \in 1..(k - 1) : b[m] = Marker
        BY <4>1 DEF Introduced
      <4> QED
        BY <4>1, <4>2, <4>3
    <3> QED
      BY <1>1, <1>2, <3>1, <3>2
  <2> QED
    BY <2>1 DEF Introduced
<1>6. SimdRows(c) \subseteq SimdRows(a) \cup SimdRows(b)
  <2> SUFFICES ASSUME NEW n \in DOMAIN c, c[n].kind = "sample", c[n].simd
               PROVE  c[n] \in SimdRows(a) \cup SimdRows(b)
    BY DEF SimdRows
  <2>1. CASE n <= Len(a)
    <3>1. n \in DOMAIN a /\ c[n] = a[n]
      BY <1>1, <1>2, <2>1
    <3> QED
      BY <3>1 DEF SimdRows
  <2>2. CASE n > Len(a)
    <3>1. n - Len(a) \in DOMAIN b /\ c[n] = b[n - Len(a)]
      BY <1>1, <1>2, <1>4, <2>2
    <3> QED
      BY <3>1 DEF SimdRows
  <2> QED
    BY <1>1, <1>2, <2>1, <2>2
<1>7. SimdRows(a) \subseteq SimdRows(c)
  <2>1. \A n \in DOMAIN a : n \in DOMAIN c /\ c[n] = a[n]
    BY <1>1, <1>2
  <2> QED
    BY <2>1 DEF SimdRows
<1>8. SimdRows(b) \subseteq SimdRows(c)
  <2>1. \A n \in DOMAIN b : Len(a) + n \in DOMAIN c /\ c[Len(a) + n] = b[n]
    BY <1>1, <1>2, <1>3
  <2> QED
    BY <2>1 DEF SimdRows
<1> QED
  BY <1>2, <1>5, <1>6, <1>7, <1>8 DEF Profile, Lines, c

Merged(files, group) == FlattenSeq(SetToSeq({f.lines : f \in {g \in files : g.group = group}}))
RowsOf(files, group) == UNION {SimdRows(f.lines) : f \in {g \in files : g.group = group}}

\* A file of a process.
ProcessFile(f) == f.group \in Groups /\ f.lines \in Samples[f.group]

\* Whatever the order in which the files of a group are merged, the merged one is
\* introduced and has the samples of all of them.
LEMMA MergedSamples ==
  ASSUME NEW group \in Groups, NEW files, \A f \in files : ProcessFile(f)
  PROVE  /\ Merged(files, group) \in Profile(group) /\ Introduced(Merged(files, group))
         /\ SimdRows(Merged(files, group)) = RowsOf(files, group)
<1> DEFINE own == {g \in files : g.group = group}
           L == {f.lines : f \in own}
           q == SetToSeq(L)
           X == {lines \in Profile(group) : Introduced(lines)}
<1>1. L \subseteq Samples[group] /\ Samples[group] \subseteq X /\ IsFiniteSet(Samples[group])
  BY ProfileAssumption DEF ProcessFile
<1>2. IsFiniteSet(L) /\ L \subseteq X
  BY <1>1, FS_Subset
<1>3. RowsOf(files, group) = UNION {SimdRows(l) : l \in L}
  BY DEF RowsOf
<1>4. Merged(files, group) = FlattenSeq(q)
  BY DEF Merged
<1> HIDE DEF L, q
<1>5. /\ q \in Seq(L) /\ Len(q) \in Nat
      /\ \A x \in L : \E i \in 1..Len(q) : q[i] = x
      /\ \A i \in 1..Len(q) : q[i] \in L
  <2>1. q \in Seq(L) /\ Len(q) \in Nat /\ \A x \in L : \E i \in 1..Len(q) : q[i] = x
    BY <1>2, Enumerated DEF q
  <2> QED
    BY <2>1, ElementOfSeq
<1>6. CASE q = <<>>
  <2>1. L = {} /\ Len(q) = 0
    BY <1>5, <1>6, EmptySeq
  <2>2. FlattenSeq(q) = <<>>
    BY <1>6, <2>1 DEF FlattenSeq
  <2>3. <<>> \in Profile(group) /\ Introduced(<<>>) /\ SimdRows(<<>>) = {}
    BY DEF Profile, Introduced, SimdRows
  <2>4. RowsOf(files, group) = {}
    BY <1>3, <2>1
  <2> QED
    BY <1>4, <2>2, <2>3, <2>4
<1>7. CASE q # <<>>
  <2>1. \A a, b \in X : a \o b \in X
    BY BothIntroduced
  <2>2. q \in Seq(X)
    BY <1>2, <1>5
  <2> HIDE DEF X
  <2>3. PICK g : /\ g \in [1..Len(q) -> X] /\ FlattenSeq(q) = g[Len(q)] /\ g[1] = q[1]
                 /\ \A i \in 1..(Len(q) - 1) : g[i + 1] = g[i] \o q[i + 1]
    <3> HIDE DEF q
    <3> QED
      BY ONLY <1>7, <2>1, <2>2, Joined, ZenonT(30)
  <2>4. Len(q) # 0
    BY <1>5, <1>7, EmptySeq
  <2> DEFINE T == {i \in 1..Len(q) : SimdRows(g[i]) = UNION {SimdRows(q[j]) : j \in 1..i}}
  <2>5. 1 \in T
    <3>1. 1..1 = {1}
      OBVIOUS
    <3> QED
      BY <1>5, <2>3, <2>4, <3>1
  <2>6. ASSUME NEW i \in 1..(Len(q) - 1), i \in T PROVE i + 1 \in T
    <3> DEFINE d == i + 1
    <3>1. i \in 1..Len(q) /\ d \in 1..Len(q) /\ 1..d = (1..i) \cup {d}
      BY <1>5, SMTT(30)
    <3>2. g[i] \in X /\ q[d] \in X /\ g[d] = g[i] \o q[d]
      BY <1>2, <1>5, <2>3, <3>1
    <3> HIDE DEF d
    <3>3. SimdRows(g[d]) = SimdRows(g[i]) \cup SimdRows(q[d])
      BY <3>2, BothIntroduced DEF X
    <3>4. SimdRows(g[i]) = UNION {SimdRows(q[j]) : j \in 1..i}
      BY <2>6
    <3>5. SimdRows(g[d]) = UNION {SimdRows(q[j]) : j \in 1..d}
      BY <3>1, <3>3, <3>4
    <3> QED
      BY <3>1, <3>5 DEF d
  <2>7. Len(q) \in T
    <3> HIDE DEF T
    <3>1. 1..Len(q) \subseteq T
      BY <1>5, <2>5, <2>6, UpTo
    <3> QED
      BY <1>5, <2>4, <3>1
  <2>8. UNION {SimdRows(q[j]) : j \in 1..Len(q)} = UNION {SimdRows(l) : l \in L}
    BY <1>5
  <2>9. g[Len(q)] \in X
    BY <1>5, <2>3, <2>4
  <2> QED
    BY <1>3, <1>4, <2>3, <2>7, <2>8, <2>9 DEF X
<1> QED
  BY <1>6, <1>7

\* What is read of a profile, and of all of it if it is introduced.
LEMMA ReadProfile ==
  ASSUME NEW group \in Groups, NEW lines \in Profile(group)
  PROVE  /\ FileToJson(lines).group \in {None, group}
         /\ FileToJson(lines).rows \subseteq Sample(group) /\ IsFiniteSet(FileToJson(lines).rows)
         /\ Introduced(lines) => FileToJson(lines).rows = SimdRows(lines)
<1> DEFINE headers == {n \in DOMAIN lines : lines[n].kind = "header" /\ \E m \in 1..(n - 1) : lines[m] = Marker}
           rows == {n \in DOMAIN lines : lines[n].kind = "sample" /\ lines[n].simd /\ \E m \in headers : m < n}
           R == {lines[n] : n \in rows}
<1>1. Len(lines) \in Nat /\ DOMAIN lines = 1..Len(lines) /\ \A n \in DOMAIN lines : lines[n] \in Lines(group)
  BY LenProperties, ElementOfSeq DEF Profile, Lines
<1>2. FileToJson(lines).group = (IF headers = {} THEN None ELSE lines[Min(headers)].group)
  BY DEF FileToJson
<1>3. FileToJson(lines).rows = R
  BY DEF FileToJson
<1>4. \A n \in headers : n \in DOMAIN lines /\ lines[n].group = group
  BY <1>1, Kinds DEF Header
<1>5. headers # {} => Min(headers) \in headers
  <2>1. headers \in SUBSET Nat
    BY <1>1
  <2> HIDE DEF headers
  <2>2. headers # {} => \E n \in headers : \A m \in headers : n <= m
    BY <2>1, LeastNat
  <2> QED
    BY <2>2 DEF Min
<1>6. R \subseteq Sample(group)
  BY <1>1, Kinds
<1>7. IsFiniteSet(R)
  <2>1. IsFiniteSet(rows)
    <3>1. rows \in SUBSET (1..Len(lines)) /\ IsFiniteSet(1..Len(lines))
      BY <1>1, FS_Interval
    <3> HIDE DEF rows
    <3> QED
      BY <3>1, FS_Subset
  <2> HIDE DEF rows
  <2> DEFINE f == [n \in rows |-> lines[n]]
  <2>2. f \in [rows -> R] /\ \A t \in R : \E n \in rows : f[n] = t
    OBVIOUS
  <2> HIDE DEF f, R
  <2> QED
    BY <2>1, <2>2, ImageFinite
<1>8. Introduced(lines) => R = SimdRows(lines)
  <2> SUFFICES ASSUME Introduced(lines) PROVE R = SimdRows(lines)
    OBVIOUS
  <2>1. ASSUME NEW n \in DOMAIN lines, lines[n].kind = "sample" PROVE \E m \in headers : m < n
    <3>1. PICK m \in 1..(n - 1) : lines[m].kind = "header"
      BY <2>1 DEF Introduced
    <3>2. m \in DOMAIN lines /\ m < n
      BY <1>1
    <3>3. \E k \in 1..(m - 1) : lines[k] = Marker
      BY <3>1, <3>2 DEF Introduced
    <3> QED
      BY <3>1, <3>2, <3>3
  <2> HIDE DEF headers
  <2> QED
    BY <2>1 DEF SimdRows
<1> QED
  BY <1>2, <1>3, <1>4, <1>5, <1>6, <1>7, <1>8

--------------------------------------------------------------------------------
(* What each run has done so far.                                          *)

Typed ==
  /\ DOMAIN written = Users /\ DOMAIN profiles = Users /\ DOMAIN result = Users /\ DOMAIN points = Users
  /\ \A u \in Users : \A f \in written[u] : ProcessFile(f)
  /\ \A s \in Stamps : \A f \in disk[s].files : ProcessFile(f)
  /\ \A s \in Stamps : disk[s].flops \in Profile("VectorEngine138") /\ disk[s].bytes \in Profile("ComputeBasic")
  /\ \A u \in Users : \E g, h \in Groups : profiles[u].flops \in Profile(g) /\ profiles[u].bytes \in Profile(h)
  /\ \A u \in Users : pc[u] = "start" => written[u] = {}

\* What is in a directory was written by a run that uses it.
FilesWritten ==
  \A s \in Stamps : \A f \in disk[s].files : \E u \in Users : stamp[u] = s /\ f \in written[u]

\* The others in a run's directory have not begun to merge; what a run then finds
\* there, or has read.
Shares(u) == stamp[u] # None /\ \A v \in Sharing(u) \ {u} : pc[v] \in Commands
Between(rows, u, group) ==
  /\ AllSamples(u, group) \subseteq rows
  /\ rows \subseteq UNION {AllSamples(v, group) : v \in Sharing(u)}
Read == {"process", "summary", "plot", "remove", "done"}
SharedRun(u) ==
  Shares(u) =>
    /\ pc[u] \in {"ComputeBasic", "VectorEngine138", "flops", "bytes", "open"} =>
         disk[stamp[u]].exists /\ written[u] \subseteq disk[stamp[u]].files
    /\ pc[u] \in {"bytes", "open"} => Between(FileToJson(disk[stamp[u]].flops).rows, u, "VectorEngine138")
    /\ pc[u] = "open" => Between(FileToJson(disk[stamp[u]].bytes).rows, u, "ComputeBasic")
    /\ pc[u] \in Read =>
         /\ Between(FileToJson(profiles[u].flops).rows, u, "VectorEngine138")
         /\ Between(FileToJson(profiles[u].bytes).rows, u, "ComputeBasic")

\* The result is in the order of the times, of two profiles of the right groups.
EntriesOf(bytes, flops) == {Entry(bytes, flops, k) : k \in InBoth(bytes, flops)}
ReadRun(u) ==
  pc[u] \in {"summary", "plot", "remove", "done"} =>
    LET bytes == FileToJson(profiles[u].bytes)
        flops == FileToJson(profiles[u].flops)
    IN /\ bytes.group = "ComputeBasic" /\ flops.group = "VectorEngine138"
       /\ result[u] \in ByTime(EntriesOf(bytes.rows, flops.rows))

PointsOf(plotted) == [n \in DOMAIN plotted |-> Point(plotted[n], n)]
PlottedRun(u) ==
  points[u] = IF pc[u] \in {"remove", "done"} THEN PointsOf(Plotted(result[u])) ELSE <<>>

RunInv ==
  /\ DirectoryInv /\ Typed /\ FilesWritten
  /\ \A u \in Users : SharedRun(u) /\ ReadRun(u) /\ PlottedRun(u)

LEMMA RunInit == Init => RunInv
<1> SUFFICES ASSUME Init PROVE RunInv
  OBVIOUS
<1>1. DirectoryInv
  BY DirectoryInit
<1>2. /\ \A u \in Users : /\ pc[u] = "start" /\ written[u] = {} /\ points[u] = <<>> /\ stamp[u] = None
                         /\ profiles[u].flops = <<>> /\ profiles[u].bytes = <<>>
      /\ \A s \in Stamps : disk[s] = NoDirectory
      /\ DOMAIN written = Users /\ DOMAIN profiles = Users /\ DOMAIN result = Users /\ DOMAIN points = Users
  BY DEF Init
<1>3. \A g \in Groups : <<>> \in Profile(g)
  BY DEF Profile
<1>4. "ComputeBasic" \in Groups /\ "VectorEngine138" \in Groups
  BY DEF Groups
<1>5. Typed
  BY <1>2, <1>3, <1>4 DEF Typed, NoDirectory
<1>6. FilesWritten
  BY <1>2 DEF FilesWritten, NoDirectory
<1>7. ASSUME NEW u \in Users PROVE SharedRun(u) /\ ReadRun(u) /\ PlottedRun(u)
  BY <1>2 DEF SharedRun, ReadRun, PlottedRun, Shares
<1> QED
  BY <1>1, <1>5, <1>6, <1>7 DEF RunInv

\* A step of run u leaves the others alone; a directory gets only files that u
\* writes, and loses nothing while the commands of u are going on.
StepOf(u) ==
  /\ stamp'[u] = stamp[u] \/ stamp[u] = None
  /\ \A v \in Users \ {u} : /\ stamp'[v] = stamp[v] /\ pc'[v] = pc[v] /\ written'[v] = written[v]
                           /\ profiles'[v] = profiles[v] /\ result'[v] = result[v] /\ points'[v] = points[v]
  /\ written[u] \subseteq written'[u]
  /\ \A s \in Stamps : s # stamp'[u] => disk'[s] = disk[s]
  /\ \A s \in Stamps : \A f \in disk'[s].files : f \in disk[s].files \/ (stamp'[u] = s /\ f \in written'[u])
  /\ pc'[u] \in Commands =>
       /\ stamp[u] # None => pc[u] \in Commands
       /\ \A s \in Stamps : /\ disk'[s].flops = disk[s].flops /\ disk'[s].bytes = disk[s].bytes
                            /\ disk[s].exists => disk'[s].exists
                            /\ disk[s].files \subseteq disk'[s].files

\* Another run still has what it had while it shares its directory with u.
LEMMA OthersShare ==
  ASSUME RunInv, NEW u \in Users, StepOf(u), NEW v \in Users \ {u}, Shares(v)'
  PROVE  /\ Shares(v) /\ Sharing(v) \subseteq Sharing(v)'
         /\ stamp[v] \in Stamps /\ disk'[stamp[v]].flops = disk[stamp[v]].flops
         /\ disk'[stamp[v]].bytes = disk[stamp[v]].bytes
         /\ disk[stamp[v]].exists => disk'[stamp[v]].exists
         /\ disk[stamp[v]].files \subseteq disk'[stamp[v]].files
         /\ \A group, rows : Between(rows, v, group) => Between(rows, v, group)'
<1>1. stamp'[v] = stamp[v] /\ stamp[v] # None /\ stamp[v] \in Stamps
  BY DEF StepOf, Shares, RunInv, DirectoryInv
<1>2. Sharing(v) \subseteq Sharing(v)'
  BY <1>1 DEF Sharing, StepOf
<1>3. Shares(v)
  <2> SUFFICES ASSUME NEW w \in Sharing(v) \ {v} PROVE pc[w] \in Commands
    BY <1>1 DEF Shares
  <2>1. pc'[w] \in Commands
    BY <1>2 DEF Shares
  <2>2. CASE w = u
    BY <1>1, <2>1, <2>2 DEF StepOf, Sharing
  <2>3. CASE w # u
    BY <2>1, <2>3 DEF StepOf, Sharing
  <2> QED
    BY <2>2, <2>3
<1>4. /\ disk'[stamp[v]].flops = disk[stamp[v]].flops /\ disk'[stamp[v]].bytes = disk[stamp[v]].bytes
      /\ disk[stamp[v]].exists => disk'[stamp[v]].exists
      /\ disk[stamp[v]].files \subseteq disk'[stamp[v]].files
  <2>1. CASE stamp'[u] = stamp[v]
    <3>1. u \in Sharing(v)' \ {v}
      BY <1>1, <2>1 DEF Sharing
    <3>2. pc'[u] \in Commands
      BY <3>1 DEF Shares
    <3> QED
      BY <1>1, <3>2 DEF StepOf
  <2>2. CASE stamp'[u] # stamp[v]
    BY <1>1, <2>2 DEF StepOf
  <2> QED
    BY <2>1, <2>2
<1>5. ASSUME NEW group, NEW rows, Between(rows, v, group) PROVE Between(rows, v, group)'
  <2>1. \A w \in Users : written[w] \subseteq written'[w]
    BY DEF StepOf
  <2>2. ASSUME NEW w \in Users PROVE AllSamples(w, group) \subseteq AllSamples(w, group)'
    <3>1. written[w] \subseteq written'[w]
      BY <2>1
    <3> QED
      BY <3>1 DEF AllSamples, SimdRows
  <2>3. AllSamples(v, group)' = AllSamples(v, group)
    BY DEF StepOf, AllSamples, SimdRows
  <2>4. rows \subseteq UNION {AllSamples(w, group)' : w \in Sharing(v)'}
    <3> SUFFICES ASSUME NEW row \in rows PROVE \E w \in Sharing(v)' : row \in AllSamples(w, group)'
      OBVIOUS
    <3>1. PICK w \in Sharing(v) : row \in AllSamples(w, group)
      BY <1>5 DEF Between
    <3>2. w \in Users /\ w \in Sharing(v)'
      BY <1>2, <3>1 DEF Sharing
    <3> QED
      BY <2>2, <3>1, <3>2
  <2> QED
    BY <1>5, <2>3, <2>4 DEF Between
<1> QED
  BY <1>1, <1>2, <1>3, <1>4, <1>5

LEMMA OneRun ==
  ASSUME RunInv, DirectoryInv', NEW u \in Users, StepOf(u), Typed',
         SharedRun(u)', ReadRun(u)', PlottedRun(u)'
  PROVE  RunInv'
<1>1. FilesWritten'
  <2> SUFFICES ASSUME NEW s \in Stamps, NEW f \in disk'[s].files
               PROVE  \E v \in Users : stamp'[v] = s /\ f \in written'[v]
    BY DEF FilesWritten
  <2>1. CASE f \in disk[s].files
    <3>1. PICK v \in Users : stamp[v] = s /\ f \in written[v]
      BY <2>1 DEF RunInv, FilesWritten
    <3>2. stamp'[v] = s /\ f \in written'[v]
      BY <3>1 DEF StepOf
    <3> QED
      BY <3>2
  <2>2. CASE stamp'[u] = s /\ f \in written'[u]
    BY <2>2
  <2> QED
    BY <2>1, <2>2 DEF StepOf
<1>2. ASSUME NEW v \in Users, v # u PROVE SharedRun(v)' /\ ReadRun(v)' /\ PlottedRun(v)'
  <2>1. SharedRun(v) /\ ReadRun(v) /\ PlottedRun(v)
    BY DEF RunInv
  <2>2. /\ stamp'[v] = stamp[v] /\ pc'[v] = pc[v] /\ written'[v] = written[v]
        /\ profiles'[v] = profiles[v] /\ result'[v] = result[v] /\ points'[v] = points[v]
    BY <1>2 DEF StepOf
  <2>3. SharedRun(v)'
    <3> SUFFICES ASSUME Shares(v)' PROVE SharedRun(v)'
      BY DEF SharedRun
    <3>1. PICK s : s = stamp[v]
      OBVIOUS
    <3>2. /\ Shares(v) /\ disk'[s].flops = disk[s].flops /\ disk'[s].bytes = disk[s].bytes
          /\ disk[s].exists => disk'[s].exists
          /\ disk[s].files \subseteq disk'[s].files
          /\ \A group, rows : Between(rows, v, group) => Between(rows, v, group)'
      BY <1>2, <3>1, OthersShare
    <3>3. PICK a, b, c, d : /\ a = FileToJson(disk[s].flops).rows /\ b = FileToJson(disk[s].bytes).rows
                            /\ c = FileToJson(profiles[v].flops).rows /\ d = FileToJson(profiles[v].bytes).rows
      OBVIOUS
    <3>4. /\ a = FileToJson(disk'[s].flops).rows /\ b = FileToJson(disk'[s].bytes).rows
          /\ c = FileToJson(profiles'[v].flops).rows /\ d = FileToJson(profiles'[v].bytes).rows
      BY <2>2, <3>2, <3>3
    <3>5. /\ pc[v] \in {"bytes", "open"} => Between(a, v, "VectorEngine138")
          /\ pc[v] = "open" => Between(b, v, "ComputeBasic")
          /\ pc[v] \in Read => Between(c, v, "VectorEngine138") /\ Between(d, v, "ComputeBasic")
          /\ pc[v] \in {"ComputeBasic", "VectorEngine138", "flops", "bytes", "open"} =>
               disk[s].exists /\ written[v] \subseteq disk[s].files
      BY <2>1, <3>1, <3>2, <3>3 DEF SharedRun
    <3>6. /\ pc'[v] \in {"bytes", "open"} => Between(a, v, "VectorEngine138")'
          /\ pc'[v] = "open" => Between(b, v, "ComputeBasic")'
          /\ pc'[v] \in Read => Between(c, v, "VectorEngine138")' /\ Between(d, v, "ComputeBasic")'
      BY <2>2, <3>2, <3>5
    <3> QED
      BY <2>2, <3>1, <3>2, <3>4, <3>5, <3>6 DEF SharedRun
  <2>4. ReadRun(v)' /\ PlottedRun(v)'
    BY <2>1, <2>2 DEF ReadRun, PlottedRun
  <2> QED
    BY <2>3, <2>4
<1> QED
  BY <1>1, <1>2 DEF RunInv

Parts == {"exists", "files", "flops", "bytes"}
LEMMA RunFacts ==
  ASSUME RunInv, NEW u \in Users
  PROVE  /\ DOMAIN pc = Users /\ DOMAIN stamp = Users /\ DOMAIN written = Users /\ DOMAIN profiles = Users
         /\ DOMAIN result = Users /\ DOMAIN points = Users /\ DOMAIN disk = Stamps
         /\ \A s \in Stamps : DOMAIN disk[s] = Parts
         /\ SharedRun(u) /\ ReadRun(u) /\ PlottedRun(u)
         /\ pc[u] \in WithDirectory => stamp[u] \in Stamps
         /\ pc[u] = "start" => stamp[u] = None
BY DEF RunInv, DirectoryInv, Typed, NoDirectory, Parts

\* The samples are those of the files of its directory, which are of the runs
\* that use it.
LEMMA MergedBetween ==
  ASSUME RunInv, NEW u \in Users, stamp[u] \in Stamps, written[u] \subseteq disk[stamp[u]].files,
         NEW group \in Groups
  PROVE  Between(FileToJson(Merged(disk[stamp[u]].files, group)).rows, u, group)
<1> DEFINE files == disk[stamp[u]].files
           rows == FileToJson(Merged(files, group)).rows
<1>1. \A f \in files : ProcessFile(f)
  BY DEF RunInv, Typed
<1>2. rows = RowsOf(files, group)
  BY <1>1, MergedSamples, ReadProfile
<1>3. AllSamples(u, group) \subseteq RowsOf(files, group)
  BY DEF AllSamples, RowsOf
<1>4. ASSUME NEW row \in RowsOf(files, group) PROVE \E v \in Sharing(u) : row \in AllSamples(v, group)
  <2>1. PICK f \in files : f.group = group /\ row \in SimdRows(f.lines)
    BY <1>4 DEF RowsOf
  <2>2. PICK v \in Users : stamp[v] = stamp[u] /\ f \in written[v]
    BY <2>1 DEF RunInv, FilesWritten
  <2> QED
    BY <2>1, <2>2 DEF Sharing, AllSamples
<1> QED
  BY <1>2, <1>3, <1>4 DEF Between

\* A step of u that writes no file changes nothing for u itself.
LEMMA OwnShare ==
  ASSUME NEW u \in Users, stamp' = stamp, written' = written, \A v \in Users \ {u} : pc'[v] = pc[v]
  PROVE  /\ Shares(u)' => Shares(u)
         /\ \A group, rows : Between(rows, u, group) => Between(rows, u, group)'
<1>1. Sharing(u)' = Sharing(u) /\ \A v \in Sharing(u) \ {u} : pc'[v] = pc[v]
  BY DEF Sharing
<1>2. \A v, group : AllSamples(v, group)' = AllSamples(v, group)
  BY DEF AllSamples, SimdRows
<1>3. \A group, rows : Between(rows, u, group) => Between(rows, u, group)'
  BY <1>1, <1>2 DEF Between
<1> QED
  BY <1>1, <1>3 DEF Shares

LEMMA UseProfilesRun ==
  ASSUME RunInv, DirectoryInv', NEW u \in Users, UseProfiles(u)
  PROVE  RunInv'
<1>1. PICK flops, bytes \in Given :
        /\ profiles' = [profiles EXCEPT ![u] = [flops |-> flops, bytes |-> bytes]]
        /\ pc[u] = "start" /\ pc' = [pc EXCEPT ![u] = "process"]
        /\ UNCHANGED <<stamp, disk, written, result, points>>
  BY DEF UseProfiles, Goes
<1>2. StepOf(u) /\ pc'[u] = "process" /\ stamp'[u] = None
  BY <1>1, RunFacts DEF StepOf, Commands
<1>3. \E g, h \in Groups : flops \in Profile(g) /\ bytes \in Profile(h)
  BY ProfileAssumption
<1>4. Typed'
  <2>1. /\ profiles'[u].flops = flops /\ profiles'[u].bytes = bytes /\ DOMAIN profiles' = Users
        /\ \A v \in Users \ {u} : profiles'[v] = profiles[v] /\ pc'[v] = pc[v]
    BY <1>1, RunFacts
  <2>2. \A v \in Users : \E g, h \in Groups : profiles'[v].flops \in Profile(g) /\ profiles'[v].bytes \in Profile(h)
    BY <1>3, <2>1 DEF RunInv, Typed
  <2> QED
    BY <1>1, <1>2, <2>1, <2>2 DEF RunInv, Typed, ProcessFile
<1>5. SharedRun(u)' /\ ReadRun(u)' /\ PlottedRun(u)'
  BY <1>1, <1>2, RunFacts DEF SharedRun, Shares, ReadRun, PlottedRun
<1> QED
  BY <1>2, <1>4, <1>5, OneRun

LEMMA NoUnitraceRun ==
  ASSUME RunInv, DirectoryInv', NEW u \in Users, NoUnitrace(u)
  PROVE  RunInv'
<1>1. /\ pc[u] = "start" /\ pc' = [pc EXCEPT ![u] = "failed"]
      /\ UNCHANGED <<stamp, disk, written, profiles, result, points>>
  BY DEF NoUnitrace, Failed
<1>2. StepOf(u) /\ pc'[u] = "failed" /\ stamp'[u] = None
  BY <1>1, RunFacts DEF StepOf, Commands
<1>3. Typed'
  BY <1>1, <1>2, RunFacts DEF RunInv, Typed, ProcessFile, StepOf
<1>4. SharedRun(u)' /\ ReadRun(u)' /\ PlottedRun(u)'
  BY <1>1, <1>2, RunFacts DEF SharedRun, Shares, ReadRun, PlottedRun
<1> QED
  BY <1>2, <1>3, <1>4, OneRun

LEMMA CreateRun ==
  ASSUME RunInv, DirectoryInv', NEW u \in Users, CreateOutputDirectory(u)
  PROVE  RunInv'
<1>1. PICK s \in Stamps :
        /\ stamp' = [stamp EXCEPT ![u] = s] /\ disk' = [disk EXCEPT ![s].exists = TRUE]
        /\ pc[u] = "start" /\ pc' = [pc EXCEPT ![u] = "ComputeBasic"]
        /\ UNCHANGED <<written, profiles, result, points>>
  BY DEF CreateOutputDirectory, Goes
<1>2. /\ stamp'[u] = s /\ pc'[u] = "ComputeBasic" /\ stamp[u] = None /\ written[u] = {}
      /\ disk'[s].exists /\ disk'[s].files = disk[s].files
      /\ disk'[s].flops = disk[s].flops /\ disk'[s].bytes = disk[s].bytes
      /\ \A r \in Stamps \ {s} : disk'[r] = disk[r]
  <2>1. DOMAIN disk = Stamps /\ DOMAIN disk[s] = {"exists", "files", "flops", "bytes"}
    BY RunFacts DEF Parts
  <2> QED
    BY <1>1, <2>1, RunFacts DEF RunInv, Typed
<1>3. StepOf(u)
  BY <1>1, <1>2, RunFacts DEF StepOf
<1>4. Typed'
  BY <1>1, <1>2, <1>3, RunFacts DEF RunInv, Typed, ProcessFile, StepOf
<1>5. SharedRun(u)'
  BY <1>1, <1>2 DEF SharedRun, Read
<1>6. ReadRun(u)' /\ PlottedRun(u)'
  BY <1>1, <1>2, RunFacts DEF ReadRun, PlottedRun
<1> QED
  BY <1>3, <1>4, <1>5, <1>6, OneRun

LEMMA RunUnitraceRun ==
  ASSUME RunInv, DirectoryInv', NEW u \in Users, NEW group \in Groups,
         NEW next \in {"VectorEngine138", "flops"}, RunUnitrace(u, group, next)
  PROVE  RunInv'
<1> DEFINE s == stamp[u]
<1>1. PICK processes \in SUBSET Samples[group] : \E files :
        /\ files = IF disk[s].exists
                   THEN {[run |-> u, group |-> group, lines |-> lines] : lines \in processes}
                   ELSE {}
        /\ disk' = [disk EXCEPT ![s].files = @ \cup files]
        /\ written' = [written EXCEPT ![u] = @ \cup files]
  BY DEF RunUnitrace
<1>2. PICK files :
        /\ files = IF disk[s].exists
                   THEN {[run |-> u, group |-> group, lines |-> lines] : lines \in processes}
                   ELSE {}
        /\ disk' = [disk EXCEPT ![s].files = @ \cup files]
        /\ written' = [written EXCEPT ![u] = @ \cup files]
  BY <1>1
<1>3. /\ pc[u] = group /\ pc' = [pc EXCEPT ![u] = next] /\ UNCHANGED <<stamp, profiles, result, points>>
  BY DEF RunUnitrace, Goes
<1>4. \A f \in files : ProcessFile(f)
  BY <1>2 DEF ProcessFile
<1>5. s \in Stamps /\ pc[u] \in Commands
  BY <1>3, RunFacts DEF Groups, Commands, WithDirectory
<1>6. /\ pc'[u] = next /\ written'[u] = written[u] \cup files
      /\ disk'[s].exists = disk[s].exists /\ disk'[s].files = disk[s].files \cup files
      /\ disk'[s].flops = disk[s].flops /\ disk'[s].bytes = disk[s].bytes
      /\ \A r \in Stamps \ {s} : disk'[r] = disk[r]
  <2>1. DOMAIN disk = Stamps /\ DOMAIN disk[s] = {"exists", "files", "flops", "bytes"}
    BY <1>5, RunFacts DEF Parts
  <2> QED
    BY <1>2, <1>3, <1>5, <2>1, RunFacts
<1> HIDE DEF s
<1>7. StepOf(u)
  BY <1>2, <1>3, <1>5, <1>6, RunFacts DEF StepOf, s
<1>8. Typed'
  <2>1. DOMAIN written' = Users
    BY <1>2, RunFacts
  <2>2. \A v \in Users : \A f \in written'[v] : ProcessFile(f)
    BY <1>4, <1>6, <1>7 DEF RunInv, Typed, StepOf
  <2>3. \A r \in Stamps : /\ \A f \in disk'[r].files : ProcessFile(f)
                         /\ disk'[r].flops \in Profile("VectorEngine138") /\ disk'[r].bytes \in Profile("ComputeBasic")
    BY <1>4, <1>6 DEF RunInv, Typed
  <2>4. \A v \in Users : pc'[v] = "start" => written'[v] = {}
    BY <1>6, <1>7 DEF RunInv, Typed, StepOf
  <2> QED
    BY <1>3, <2>1, <2>2, <2>3, <2>4, RunFacts DEF RunInv, Typed, ProcessFile
<1>9. SharedRun(u)'
  <2> SUFFICES ASSUME Shares(u)' PROVE disk'[s].exists /\ written'[u] \subseteq disk'[s].files
    BY <1>3, <1>6 DEF SharedRun, Read, s
  <2>1. Shares(u)
    <3>1. \A v \in Users \ {u} : pc'[v] = pc[v]
      BY <1>7 DEF StepOf
    <3> QED
      BY <1>3, <3>1 DEF Shares, Sharing
  <2>2. disk[s].exists /\ written[u] \subseteq disk[s].files
    BY <1>5, <2>1, RunFacts DEF SharedRun, Commands, s
  <2> QED
    BY <1>6, <2>2
<1>10. ReadRun(u)' /\ PlottedRun(u)'
  BY <1>3, <1>5, <1>6, RunFacts DEF ReadRun, PlottedRun, Commands
<1> QED
  BY <1>7, <1>8, <1>9, <1>10, OneRun

LEMMA MergeRun ==
  ASSUME RunInv, DirectoryInv', NEW u \in Users, NEW group, NEW name, NEW next,
         \/ group = "VectorEngine138" /\ name = "flops" /\ next = "bytes"
         \/ group = "ComputeBasic" /\ name = "bytes" /\ next = "open",
         MergeMetricsFiles(u, group, name, next)
  PROVE  RunInv'
<1> DEFINE s == stamp[u]
<1>1. /\ pc[u] = name /\ UNCHANGED <<stamp, written, profiles, result, points>>
      /\ \/ disk' = [disk EXCEPT ![s][name] = Merged(disk[s].files, group)] /\ pc' = [pc EXCEPT ![u] = next]
         \/ disk' = disk /\ pc' = [pc EXCEPT ![u] = "failed"] /\ ~disk[s].exists
  BY DEF MergeMetricsFiles, Goes, Failed, Merged
<1>2. s \in Stamps /\ group \in Groups /\ DOMAIN disk = Stamps /\ DOMAIN disk[s] = Parts
  BY <1>1, RunFacts DEF Groups, WithDirectory
<1> DEFINE m == Merged(disk[s].files, group)
<1>3. m \in Profile(group)
  BY <1>2, MergedSamples DEF RunInv, Typed
<1> HIDE DEF s, m
<1>4. ASSUME disk' = disk, pc' = [pc EXCEPT ![u] = "failed"], ~disk[s].exists PROVE RunInv'
  <2>1. StepOf(u) /\ pc'[u] = "failed"
    BY <1>1, <1>4, RunFacts DEF StepOf, Commands
  <2>2. Typed'
    BY <1>1, <1>4, <2>1, RunFacts DEF RunInv, Typed, ProcessFile, StepOf
  <2>3. SharedRun(u)' /\ ReadRun(u)' /\ PlottedRun(u)'
    BY <1>1, <2>1, RunFacts DEF SharedRun, Read, ReadRun, PlottedRun
  <2> QED
    BY <2>1, <2>2, <2>3, OneRun
<1>5. ASSUME disk' = [disk EXCEPT ![s][name] = m], pc' = [pc EXCEPT ![u] = next] PROVE RunInv'
  <2>1. /\ pc'[u] = next /\ DOMAIN disk' = Stamps /\ disk'[s] = [disk[s] EXCEPT ![name] = m]
        /\ \A r \in Stamps \ {s} : disk'[r] = disk[r]
    BY <1>2, <1>5, RunFacts
  <2>2. /\ disk'[s].exists = disk[s].exists /\ disk'[s].files = disk[s].files
        /\ disk'[s].flops = IF name = "flops" THEN m ELSE disk[s].flops
        /\ disk'[s].bytes = IF name = "bytes" THEN m ELSE disk[s].bytes
    BY <1>2, <2>1 DEF Parts
  <2>3. StepOf(u)
    BY <1>1, <1>5, <2>1, <2>2, RunFacts DEF StepOf, Commands, s
  <2>4. Typed'
    <3>1. \A r \in Stamps : /\ \A f \in disk'[r].files : ProcessFile(f)
                           /\ disk'[r].flops \in Profile("VectorEngine138") /\ disk'[r].bytes \in Profile("ComputeBasic")
      <4>1. ASSUME NEW r \in Stamps
            PROVE  /\ \A f \in disk[r].files : ProcessFile(f)
                   /\ disk[r].flops \in Profile("VectorEngine138") /\ disk[r].bytes \in Profile("ComputeBasic")
        BY DEF RunInv, Typed
      <4>2. ASSUME NEW r \in Stamps \ {s}
            PROVE  /\ \A f \in disk'[r].files : ProcessFile(f)
                   /\ disk'[r].flops \in Profile("VectorEngine138") /\ disk'[r].bytes \in Profile("ComputeBasic")
        BY <2>1, <4>1
      <4>3. /\ \A f \in disk'[s].files : ProcessFile(f)
            /\ disk'[s].flops \in Profile("VectorEngine138") /\ disk'[s].bytes \in Profile("ComputeBasic")
        BY <1>2, <1>3, <2>2, <4>1
      <4> QED
        BY <4>2, <4>3
    <3>2. \A v \in Users : pc'[v] = "start" => written'[v] = {}
      BY <1>1, <2>1, <2>3 DEF RunInv, Typed, StepOf
    <3> QED
      BY <1>1, <3>1, <3>2, RunFacts DEF RunInv, Typed, ProcessFile
  <2>5. SharedRun(u)'
    <3> SUFFICES ASSUME Shares(u)' PROVE SharedRun(u)'
      BY DEF SharedRun
    <3>0. \A v \in Users \ {u} : pc'[v] = pc[v]
      BY <2>3 DEF StepOf
    <3>1. Shares(u) /\ \A g, rows : Between(rows, u, g) => Between(rows, u, g)'
      BY <1>1, <3>0, OwnShare
    <3>2. /\ disk[s].exists /\ written[u] \subseteq disk[s].files
          /\ name = "bytes" => Between(FileToJson(disk[s].flops).rows, u, "VectorEngine138")
      BY <1>1, <3>1, RunFacts DEF SharedRun, s
    <3>3. PICK b, f : b = FileToJson(m).rows /\ f = FileToJson(disk[s].flops).rows
      OBVIOUS
    <3>4. Between(b, u, group)
      BY <1>2, <3>2, <3>3, MergedBetween DEF s, m
    <3>5. Between(b, u, group)' /\ (name = "bytes" => Between(f, u, "VectorEngine138")')
      BY <3>1, <3>2, <3>3, <3>4
    <3>6. /\ pc'[u] \in {"bytes", "open"} /\ disk'[s].exists /\ written'[u] \subseteq disk'[s].files
          /\ stamp'[u] = s
      BY <1>1, <2>1, <2>2, <3>2 DEF s
    <3>7. CASE group = "VectorEngine138" /\ name = "flops" /\ next = "bytes"
      <4>1. b = FileToJson(disk'[s].flops).rows
        BY <2>2, <3>3, <3>7
      <4> HIDE DEF s
      <4> QED
        BY <2>1, <3>5, <3>6, <3>7, <4>1 DEF SharedRun, Read
    <3>8. CASE group = "ComputeBasic" /\ name = "bytes" /\ next = "open"
      <4>1. b = FileToJson(disk'[s].bytes).rows /\ f = FileToJson(disk'[s].flops).rows
        BY <2>2, <3>3, <3>8
      <4> HIDE DEF s
      <4> QED
        BY <2>1, <3>5, <3>6, <3>8, <4>1 DEF SharedRun, Read
    <3> QED
      BY <3>7, <3>8
  <2>6. ReadRun(u)' /\ PlottedRun(u)'
    BY <1>1, <2>1, RunFacts DEF ReadRun, PlottedRun
  <2> QED
    BY <2>3, <2>4, <2>5, <2>6, OneRun
<1> QED
  BY <1>1, <1>4, <1>5 DEF s, m

LEMMA OpenRun ==
  ASSUME RunInv, DirectoryInv', NEW u \in Users, OpenMerged(u)
  PROVE  RunInv'
<1> DEFINE s == stamp[u]
<1>1. /\ pc[u] = "open" /\ pc' = [pc EXCEPT ![u] = "process"]
      /\ profiles' = [profiles EXCEPT ![u] = [flops |-> disk[s].flops, bytes |-> disk[s].bytes]]
      /\ UNCHANGED <<stamp, disk, written, result, points>>
  BY DEF OpenMerged, Goes
<1>2. s \in Stamps
  BY <1>1, RunFacts DEF WithDirectory
<1>3. StepOf(u) /\ pc'[u] = "process"
  BY <1>1, RunFacts DEF StepOf, Commands
<1>4. /\ profiles'[u].flops = disk[s].flops /\ profiles'[u].bytes = disk[s].bytes /\ DOMAIN profiles' = Users
      /\ \A v \in Users \ {u} : profiles'[v] = profiles[v]
  BY <1>1, RunFacts
<1> HIDE DEF s
<1>5. Typed'
  <2>1. "VectorEngine138" \in Groups /\ "ComputeBasic" \in Groups
    BY DEF Groups
  <2>2. disk[s].flops \in Profile("VectorEngine138") /\ disk[s].bytes \in Profile("ComputeBasic")
    BY <1>2 DEF RunInv, Typed
  <2>3. \A v \in Users : \E g, h \in Groups : profiles'[v].flops \in Profile(g) /\ profiles'[v].bytes \in Profile(h)
    BY <1>4, <2>1, <2>2 DEF RunInv, Typed
  <2> QED
    BY <1>1, <1>3, <1>4, <2>3 DEF RunInv, Typed, ProcessFile, StepOf
<1>6. SharedRun(u)'
  <2> SUFFICES ASSUME Shares(u)' PROVE SharedRun(u)'
    BY DEF SharedRun
  <2>0. \A v \in Users \ {u} : pc'[v] = pc[v]
    BY <1>3 DEF StepOf
  <2>1. Shares(u) /\ \A g, rows : Between(rows, u, g) => Between(rows, u, g)'
    BY <1>1, <2>0, OwnShare
  <2>2. PICK f, b : f = FileToJson(disk[s].flops).rows /\ b = FileToJson(disk[s].bytes).rows
    OBVIOUS
  <2>3. Between(f, u, "VectorEngine138")' /\ Between(b, u, "ComputeBasic")'
    BY <1>1, <2>1, <2>2, RunFacts DEF SharedRun, s
  <2>4. f = FileToJson(profiles'[u].flops).rows /\ b = FileToJson(profiles'[u].bytes).rows
    BY <1>4, <2>2
  <2> QED
    BY <1>3, <2>3, <2>4 DEF SharedRun
<1>7. ReadRun(u)' /\ PlottedRun(u)'
  BY <1>1, <1>3, RunFacts DEF ReadRun, PlottedRun
<1> QED
  BY <1>3, <1>5, <1>6, <1>7, OneRun

\* A step after the profiles were opened.
LEMMA LaterRun ==
  ASSUME RunInv, DirectoryInv', NEW u \in Users, NEW to \in {"failed", "summary", "plot", "remove", "done"},
         pc[u] \in {"process", "summary", "plot", "remove"}, pc' = [pc EXCEPT ![u] = to],
         UNCHANGED <<stamp, written, profiles>>, DOMAIN result' = Users, DOMAIN points' = Users,
         \A v \in Users \ {u} : result'[v] = result[v] /\ points'[v] = points[v],
         disk' = disk \/ (stamp[u] \in Stamps /\ \E left \in Remains(disk[stamp[u]]) : disk' = [disk EXCEPT ![stamp[u]] = left]),
         ReadRun(u)', PlottedRun(u)'
  PROVE  RunInv'
<1>0. \A s \in Stamps : /\ disk'[s] = disk[s] \/ (s = stamp[u] /\ disk'[s] \in Remains(disk[s]))
                       /\ disk'[s].files \subseteq disk[s].files
                       /\ disk'[s].flops \in {<<>>, disk[s].flops} /\ disk'[s].bytes \in {<<>>, disk[s].bytes}
  <2>1. ASSUME NEW d, NEW left \in Remains(d)
        PROVE  /\ left.files \subseteq d.files
               /\ left.flops \in {<<>>, d.flops} /\ left.bytes \in {<<>>, d.bytes}
    BY DEF Remains, NoDirectory
  <2>2. ASSUME NEW s \in Stamps PROVE disk'[s] = disk[s] \/ (s = stamp[u] /\ disk'[s] \in Remains(disk[s]))
    BY RunFacts
  <2> QED
    BY <2>1, <2>2
<1>1. StepOf(u) /\ pc'[u] = to
  BY <1>0, RunFacts DEF StepOf, Commands
<1>2. Typed'
  <2>1. <<>> \in Profile("VectorEngine138") /\ <<>> \in Profile("ComputeBasic")
    BY DEF Profile
  <2>3. \A s \in Stamps : /\ \A f \in disk'[s].files : ProcessFile(f)
                         /\ disk'[s].flops \in Profile("VectorEngine138") /\ disk'[s].bytes \in Profile("ComputeBasic")
    BY <1>0, <2>1 DEF RunInv, Typed
  <2> QED
    BY <1>1, <2>3 DEF RunInv, Typed, ProcessFile, StepOf
<1>3. SharedRun(u)'
  <2> SUFFICES ASSUME Shares(u)' PROVE SharedRun(u)'
    BY DEF SharedRun
  <2>0. \A v \in Users \ {u} : pc'[v] = pc[v]
    BY <1>1 DEF StepOf
  <2>1. Shares(u) /\ \A g, rows : Between(rows, u, g) => Between(rows, u, g)'
    BY <2>0, OwnShare
  <2>2. PICK f, b : f = FileToJson(profiles[u].flops).rows /\ b = FileToJson(profiles[u].bytes).rows
    OBVIOUS
  <2>3. Between(f, u, "VectorEngine138")' /\ Between(b, u, "ComputeBasic")'
    BY <2>1, <2>2, RunFacts DEF SharedRun, Read
  <2>4. f = FileToJson(profiles'[u].flops).rows /\ b = FileToJson(profiles'[u].bytes).rows
    BY <2>2
  <2> QED
    BY <1>1, <2>3, <2>4 DEF SharedRun
<1> QED
  BY <1>1, <1>2, <1>3, OneRun

LEMMA ReadRunStep ==
  ASSUME RunInv, DirectoryInv', NEW u \in Users, ReadUnitraceReport(u)
  PROVE  RunInv'
<1> DEFINE bytes == FileToJson(profiles[u].bytes)
           flops == FileToJson(profiles[u].flops)
<1>1. /\ pc[u] = "process" /\ UNCHANGED <<stamp, disk, written, profiles, points>>
      /\ \/ /\ bytes.group = "ComputeBasic" /\ flops.group = "VectorEngine138"
            /\ \E order \in ByTime(EntriesOf(bytes.rows, flops.rows)) : result' = [result EXCEPT ![u] = order]
            /\ pc' = [pc EXCEPT ![u] = "summary"]
         \/ pc' = [pc EXCEPT ![u] = "failed"] /\ UNCHANGED result
  BY DEF ReadUnitraceReport, Goes, Failed, EntriesOf
<1>2. PlottedRun(u)'
  BY <1>1, RunFacts DEF PlottedRun
<1>3. ReadRun(u)'
  <2>1. CASE pc' = [pc EXCEPT ![u] = "failed"] /\ UNCHANGED result
    BY <2>1, RunFacts DEF ReadRun
  <2>2. ASSUME bytes.group = "ComputeBasic", flops.group = "VectorEngine138",
               NEW order \in ByTime(EntriesOf(bytes.rows, flops.rows)), result' = [result EXCEPT ![u] = order]
        PROVE  ReadRun(u)'
    <3>1. result'[u] = order
      BY <2>2, RunFacts
    <3>2. FileToJson(profiles[u].bytes)' = bytes /\ FileToJson(profiles[u].flops)' = flops
      BY <1>1
    <3>3. EntriesOf(bytes.rows, flops.rows)' = EntriesOf(bytes.rows, flops.rows)
      BY <3>2
    <3> QED
      BY <2>2, <3>1, <3>2, <3>3 DEF ReadRun
  <2> QED
    BY <1>1, <2>1, <2>2
<1>4. DOMAIN result' = Users /\ DOMAIN points' = Users /\ \A v \in Users \ {u} : result'[v] = result[v] /\ points'[v] = points[v]
  BY <1>1, RunFacts
<1> QED
  BY <1>1, <1>2, <1>3, <1>4, LaterRun

LEMMA SummaryRun ==
  ASSUME RunInv, DirectoryInv', NEW u \in Users, Summary(u)
  PROVE  RunInv'
<1>1. PICK to \in {"failed", "plot"} :
        /\ pc[u] = "summary" /\ pc' = [pc EXCEPT ![u] = to]
        /\ UNCHANGED <<stamp, disk, written, profiles, result, points>>
  BY DEF Summary, Goes, Failed
<1>2. ReadRun(u)' /\ PlottedRun(u)'
  BY <1>1, RunFacts DEF ReadRun, PlottedRun
<1> QED
  BY <1>1, <1>2, RunFacts, LaterRun

LEMMA PlotRun ==
  ASSUME RunInv, DirectoryInv', NEW u \in Users, PlotHtmlRoofline(u)
  PROVE  RunInv'
<1>1. /\ pc[u] = "plot" /\ UNCHANGED <<stamp, disk, written, profiles, result>>
      /\ \/ pc' = [pc EXCEPT ![u] = "failed"] /\ UNCHANGED points
         \/ /\ points' = [points EXCEPT ![u] = PointsOf(Plotted(result[u]))]
            /\ \E to \in {"done", "remove"} : pc' = [pc EXCEPT ![u] = to]
  BY DEF PlotHtmlRoofline, Goes, Failed, PointsOf
<1>2. CASE pc' = [pc EXCEPT ![u] = "failed"] /\ UNCHANGED points
  <2>1. ReadRun(u)' /\ PlottedRun(u)'
    BY <1>1, <1>2, RunFacts DEF ReadRun, PlottedRun
  <2> QED
    BY <1>1, <1>2, <2>1, RunFacts, LaterRun
<1>3. ASSUME points' = [points EXCEPT ![u] = PointsOf(Plotted(result[u]))],
             NEW to \in {"done", "remove"}, pc' = [pc EXCEPT ![u] = to]
      PROVE  RunInv'
  <2>1. points'[u] = PointsOf(Plotted(result[u])) /\ pc'[u] = to
    BY <1>3, RunFacts
  <2>2. PointsOf(Plotted(result[u]))' = PointsOf(Plotted(result[u]))
    BY <1>1
  <2>3. PlottedRun(u)'
    BY <1>3, <2>1, <2>2 DEF PlottedRun
  <2>4. ReadRun(u)'
    BY <1>1, <1>3, RunFacts DEF ReadRun
  <2>5. DOMAIN points' = Users /\ \A v \in Users \ {u} : points'[v] = points[v]
    BY <1>3, RunFacts
  <2> QED
    BY <1>1, <1>3, <2>3, <2>4, <2>5, RunFacts, LaterRun
<1> QED
  BY <1>1, <1>2, <1>3

LEMMA RemoveRun ==
  ASSUME RunInv, DirectoryInv', NEW u \in Users, RemoveOutputDirectory(u)
  PROVE  RunInv'
<1>1. /\ pc[u] = "remove" /\ pc' = [pc EXCEPT ![u] = "done"]
      /\ \E left \in Remains(disk[stamp[u]]) : disk' = [disk EXCEPT ![stamp[u]] = left]
      /\ stamp[u] \in Stamps
      /\ UNCHANGED <<stamp, written, profiles, result, points>>
  BY RunFacts DEF RemoveOutputDirectory, Goes, WithDirectory
<1>2. ReadRun(u)' /\ PlottedRun(u)'
  BY <1>1, RunFacts DEF ReadRun, PlottedRun
<1> QED
  BY <1>1, <1>2, RunFacts, LaterRun

LEMMA RunNext == RunInv /\ [Next]_vars => RunInv'
<1> SUFFICES ASSUME RunInv, [Next]_vars PROVE RunInv'
  OBVIOUS
<1>1. DirectoryInv'
  BY DirectoryNext DEF RunInv
<1>2. ASSUME NEW u \in Users, RunUnitrace(u, "ComputeBasic", "VectorEngine138") PROVE RunInv'
  BY <1>1, <1>2, RunUnitraceRun DEF Groups
<1>3. ASSUME NEW u \in Users, RunUnitrace(u, "VectorEngine138", "flops") PROVE RunInv'
  BY <1>1, <1>3, RunUnitraceRun DEF Groups
<1>4. CASE UNCHANGED vars
  <2>1. Typed' /\ FilesWritten'
    BY <1>4 DEF RunInv, Typed, ProcessFile, FilesWritten, vars
  <2>2. ASSUME NEW u \in Users PROVE SharedRun(u)' /\ ReadRun(u)' /\ PlottedRun(u)'
    <3>1. UNCHANGED <<pc, stamp, disk, written, profiles, result, points>>
      BY <1>4 DEF vars
    <3>2. ReadRun(u)' /\ PlottedRun(u)'
      BY <3>1, RunFacts DEF ReadRun, PlottedRun
    <3>3. SharedRun(u)'
      <4>1. (Shares(u)' => Shares(u)) /\ \A g, rows : Between(rows, u, g) => Between(rows, u, g)'
        BY <3>1, OwnShare
      <4>2. PICK a, b, c, d : /\ a = FileToJson(disk[stamp[u]].flops).rows /\ b = FileToJson(disk[stamp[u]].bytes).rows
                              /\ c = FileToJson(profiles[u].flops).rows /\ d = FileToJson(profiles[u].bytes).rows
        OBVIOUS
      <4>3. /\ a = FileToJson(disk'[stamp'[u]].flops).rows /\ b = FileToJson(disk'[stamp'[u]].bytes).rows
            /\ c = FileToJson(profiles'[u].flops).rows /\ d = FileToJson(profiles'[u].bytes).rows
        BY <3>1, <4>2
      <4> QED
        BY <3>1, <4>1, <4>2, <4>3, RunFacts DEF SharedRun
    <3> QED
      BY <3>2, <3>3
  <2> QED
    BY <1>1, <2>1, <2>2 DEF RunInv
<1> QED
  BY <1>1, <1>2, <1>3, <1>4, UseProfilesRun, NoUnitraceRun, CreateRun, MergeRun, OpenRun, ReadRunStep, SummaryRun,
     PlotRun, RemoveRun DEF Next

--------------------------------------------------------------------------------
(* The result.                                                             *)

LEMMA EntriesFinite ==
  ASSUME NEW bytes, NEW flops, IsFiniteSet(bytes)
  PROVE  IsFiniteSet(EntriesOf(bytes, flops))
<1> DEFINE names == [row \in bytes |-> row.kernel]
           both == InBoth(bytes, flops)
           E == EntriesOf(bytes, flops)
           entry == [k \in both |-> Entry(bytes, flops, k)]
<1>1. IsFiniteSet(KernelsOf(bytes))
  <2>1. names \in [bytes -> KernelsOf(bytes)] /\ \A k \in KernelsOf(bytes) : \E row \in bytes : names[row] = k
    BY DEF KernelsOf
  <2> HIDE DEF names
  <2> QED
    BY <2>1, ImageFinite
<1>2. IsFiniteSet(both)
  BY <1>1, FS_Subset DEF InBoth
<1>3. entry \in [both -> E] /\ \A e \in E : \E k \in both : entry[k] = e
  <2> HIDE DEF both
  <2> QED
    BY DEF EntriesOf, both
<1> HIDE DEF both, entry, E
<1>4. IsFiniteSet(E)
  BY <1>2, <1>3, ImageFinite
<1> QED
  BY <1>4 DEF E

LEMMA OwnProfileFollows == RunInv => OwnProfile
<1> SUFFICES ASSUME RunInv, NEW u \in Users, stamp[u] # None, \A v \in Users \ {u} : stamp[v] # stamp[u],
                    pc[u] \in {"summary", "plot", "remove", "done"}
             PROVE  ToSet(result[u]) =
                      EntriesOf(AllSamples(u, "ComputeBasic"), AllSamples(u, "VectorEngine138"))
  BY DEF OwnProfile, EntriesOf, InBoth
<1> DEFINE bytes == FileToJson(profiles[u].bytes).rows
           flops == FileToJson(profiles[u].flops).rows
<1>1. Sharing(u) = {u} /\ Shares(u)
  BY DEF Sharing, Shares
<1>2. Between(flops, u, "VectorEngine138") /\ Between(bytes, u, "ComputeBasic")
  BY <1>1, RunFacts DEF SharedRun, Read
<1>3. \E g, h \in Groups : profiles[u].flops \in Profile(g) /\ profiles[u].bytes \in Profile(h)
  BY DEF RunInv, Typed
<1>4. \A group : UNION {AllSamples(v, group) : v \in Sharing(u)} = AllSamples(u, group)
  BY <1>1
<1>5. bytes = AllSamples(u, "ComputeBasic") /\ IsFiniteSet(bytes)
  BY <1>2, <1>3, <1>4, ReadProfile DEF Between
<1>6. flops = AllSamples(u, "VectorEngine138")
  BY <1>2, <1>4 DEF Between
<1>7. result[u] \in SetToSeqs(EntriesOf(bytes, flops))
  BY RunFacts DEF ReadRun, ByTime
<1>8. ToSet(result[u]) = EntriesOf(bytes, flops)
  <2> HIDE DEF bytes, flops
  <2> QED
    BY <1>5, <1>7, EntriesFinite, Permuted
<1> QED
  BY <1>5, <1>6, <1>8

\* A run whose directory no other run has used makes its plot of the samples of
\* all processes of its own application and of nothing else, whatever other runs
\* do in the meantime (roofline.py, main; roofline_libs.py, read_unitrace_report).
THEOREM OwnProfileCorrect == Spec => []OwnProfile
<1> QED
  BY RunInit, RunNext, OwnProfileFollows, PTL DEF Spec

LEMMA SharedProfileFollows == RunInv => SharedProfile
<1> SUFFICES ASSUME RunInv, NEW u \in Users, stamp[u] # None,
                    \A v \in Sharing(u) \ {u} : pc[v] \in {"ComputeBasic", "VectorEngine138"},
                    pc[u] \in {"process", "summary", "plot", "remove", "done"}, NEW group \in Groups
             PROVE  Between(FileToJson(IF group = "ComputeBasic" THEN profiles[u].bytes ELSE profiles[u].flops).rows, u, group)
  BY DEF SharedProfile, Between
<1>1. Shares(u)
  BY DEF Shares, Commands
<1> QED
  BY <1>1, RunFacts DEF SharedRun, Read, Groups

\* A run in whose directory others have not begun to merge when it reads its
\* profiles has read all samples of its own application, and others only of the
\* same group and of the runs that use its directory (roofline.py, main).
THEOREM SharedProfileCorrect == Spec => []SharedProfile
<1> QED
  BY RunInit, RunNext, SharedProfileFollows, PTL DEF Spec

--------------------------------------------------------------------------------
(* The points.                                                             *)

Selects(g, s, kept) ==
  g = [n \in 0..Len(s) |-> IF n = 0 THEN <<>> ELSE IF n \in kept THEN Append(g[n - 1], s[n]) ELSE g[n - 1]]

\* q has those of the first n members of s that are kept, at[i] being where its
\* i-th member was.
Picks(at, q, s, kept, n) ==
  /\ at \in [1..Len(q) -> kept \cap (1..n)]
  /\ \A i \in 1..Len(q) : q[i] = s[at[i]]
  /\ \A i, j \in 1..Len(q) : i < j => at[i] < at[j]
  /\ \A m \in kept \cap (1..n) : \E i \in 1..Len(q) : at[i] = m

LEMMA PickOneMore ==
  ASSUME NEW X, NEW s \in Seq(X), NEW kept, NEW n \in 1..Len(s), NEW q \in Seq(X), NEW at,
         Picks(at, q, s, kept, n - 1)
  PROVE  LET r == IF n \in kept THEN Append(q, s[n]) ELSE q
         IN r \in Seq(X) /\ \E a : Picks(a, r, s, kept, n)
<1>1. /\ Len(s) \in Nat /\ n \in Nat /\ n # 0 /\ s[n] \in X /\ Len(q) \in Nat
      /\ (1..n) = (1..(n - 1)) \cup {n} /\ n \notin 1..(n - 1)
  BY LenProperties, ElementOfSeq
<1>2. CASE n \notin kept
  <2>1. kept \cap (1..n) = kept \cap (1..(n - 1))
    BY <1>1, <1>2
  <2>2. Picks(at, q, s, kept, n)
    BY <2>1 DEF Picks
  <2> QED
    BY <1>2, <2>2
<1>3. CASE n \in kept
  <2> DEFINE r == Append(q, s[n])
             L == Len(q)
             a == [i \in 1..(L + 1) |-> IF i = L + 1 THEN n ELSE at[i]]
  <2>1. r \in Seq(X) /\ Len(r) = L + 1 /\ r[L + 1] = s[n] /\ \A i \in 1..L : r[i] = q[i]
    BY <1>1, AppendProperties
  <2>2. kept \cap (1..n) = (kept \cap (1..(n - 1))) \cup {n}
    BY <1>1, <1>3
  <2>3. \A i \in 1..(L + 1) : i = L + 1 \/ (i \in 1..L /\ i # L + 1)
    BY <1>1
  <2>4. /\ \A i \in 1..L : a[i] = at[i] /\ at[i] \in kept /\ at[i] \in 1..(n - 1) /\ i \in 1..(L + 1)
        /\ a[L + 1] = n /\ L + 1 \in 1..(L + 1)
    BY <1>1 DEF Picks
  <2>5. \A i \in 1..L : q[i] = s[at[i]]
    BY DEF Picks
  <2> HIDE DEF r
  <2>6. a \in [1..(L + 1) -> kept \cap (1..n)]
    <3>1. ASSUME NEW i \in 1..(L + 1) PROVE (IF i = L + 1 THEN n ELSE at[i]) \in kept \cap (1..n)
      BY <2>2, <2>3, <2>4
    <3> QED
      BY <3>1
  <2> HIDE DEF a
  <2>7. \A i \in 1..(L + 1) : r[i] = s[a[i]]
    BY <2>1, <2>3, <2>4, <2>5
  <2>8. ASSUME NEW i \in 1..(L + 1), NEW j \in 1..(L + 1), i < j PROVE a[i] < a[j]
    <3>1. i \in 1..L
      BY <1>1, <2>8
    <3>2. CASE j = L + 1
      BY <1>1, <2>4, <3>1, <3>2
    <3>3. CASE j # L + 1
      <4>1. j \in 1..L
        BY <2>3, <3>3
      <4> QED
        BY <2>4, <2>8, <3>1, <4>1 DEF Picks
    <3> QED
      BY <3>2, <3>3
  <2>9. \A m \in kept \cap (1..n) : \E i \in 1..(L + 1) : a[i] = m
    <3>1. \A m \in kept \cap (1..(n - 1)) : \E i \in 1..L : at[i] = m
      BY DEF Picks
    <3> HIDE DEF L
    <3> QED
      BY <2>2, <2>4, <3>1
  <2>10. Picks(a, r, s, kept, n)
    BY <2>1, <2>6, <2>7, <2>8, <2>9 DEF Picks
  <2> QED
    BY <1>3, <2>1, <2>10 DEF r
<1> QED
  BY <1>2, <1>3

LEMMA SelectedMembers ==
  ASSUME NEW X, NEW s \in Seq(X), NEW kept \in SUBSET (DOMAIN s)
  PROVE  Selected(s, kept) \in Seq(X) /\ \E at : Picks(at, Selected(s, kept), s, kept, Len(s))
<1> DEFINE b == Len(s)
           step(n, q) == IF n \in kept THEN Append(q, s[n]) ELSE q
           G == [p \in (1..b) \X Seq(X) |-> step(p[1], p[2])]
<1>1. b \in Nat /\ \A n \in 1..b : s[n] \in X
  BY LenProperties, ElementOfSeq
<1>2. G \in StepsOver(Seq(X), b)
  <2>1. ASSUME NEW p \in (1..b) \X Seq(X) PROVE step(p[1], p[2]) \in Seq(X)
    <3>1. p[1] \in 1..b /\ p[2] \in Seq(X)
      OBVIOUS
    <3>2. s[p[1]] \in X
      BY <1>1, <3>1
    <3> QED
      BY <3>1, <3>2, AppendProperties
  <2> QED
    BY <2>1 DEF StepsOver
<1>3. PICK f : Computes(f, Seq(X), <<>>, b, G)
  <2>1. <<>> \in Seq(X)
    OBVIOUS
  <2> HIDE DEF G, b
  <2> QED
    BY <1>1, <1>2, <2>1, Recursion
<1>4. f \in [0..b -> Seq(X)] /\ f[0] = <<>> /\ \A n \in 1..b : f[n] = step(n, f[n - 1])
  <2>1. f \in [0..b -> Seq(X)] /\ f[0] = <<>> /\ \A n \in 1..b : f[n] = G[<<n, f[n - 1]>>]
    BY <1>3 DEF Computes
  <2>2. ASSUME NEW n \in 1..b PROVE f[n] = step(n, f[n - 1])
    <3>1. n - 1 \in 0..b
      BY <1>1
    <3>2. <<n, f[n - 1]>> \in (1..b) \X Seq(X)
      BY <2>1, <3>1
    <3> QED
      BY <2>1, <3>2
  <2> QED
    BY <2>1, <2>2
<1>5. Selects(f, s, kept)
  <2>1. \A n \in 0..b : n = 0 \/ n \in 1..b
    BY <1>1
  <2>2. f = [n \in 0..b |-> IF n = 0 THEN <<>> ELSE step(n, f[n - 1])]
    BY <1>4, <2>1
  <2> QED
    BY <2>2 DEF Selects
<1> DEFINE g == CHOOSE g : Selects(g, s, kept)
<1>6. Selects(g, s, kept)
  BY <1>5
<1>7. Selected(s, kept) = g[b]
  BY DEF Selected, Selects
<1> HIDE DEF g
<1> DEFINE T == {n \in 0..b : g[n] \in Seq(X) /\ \E at : Picks(at, g[n], s, kept, n)}
<1>8. 0 \in T
  <2>1. g[0] = <<>> /\ Len(<<>>) = 0
    BY <1>1, <1>6 DEF Selects
  <2>2. kept \cap (1..0) = {}
    OBVIOUS
  <2>3. Picks(<<>>, <<>>, s, kept, 0)
    BY <2>2 DEF Picks
  <2>4. g[0] \in Seq(X) /\ \E at : Picks(at, g[0], s, kept, 0)
    BY <2>1, <2>3
  <2>5. 0 \in 0..b
    BY <1>1
  <2> HIDE DEF b
  <2> QED
    BY <2>4, <2>5
<1>9. ASSUME NEW n \in 0..(b - 1), n \in T PROVE n + 1 \in T
  <2> DEFINE d == n + 1
  <2>1. d \in 1..b /\ d \in 0..b /\ d # 0 /\ d - 1 = n
    BY <1>1
  <2> HIDE DEF d
  <2>2. g[d] = IF d \in kept THEN Append(g[n], s[d]) ELSE g[n]
    BY <1>6, <2>1 DEF Selects
  <2>3. PICK at : g[n] \in Seq(X) /\ Picks(at, g[n], s, kept, d - 1)
    BY <1>9, <2>1
  <2>4. g[d] \in Seq(X) /\ \E a : Picks(a, g[d], s, kept, d)
    BY <2>1, <2>2, <2>3, PickOneMore
  <2> QED
    BY <2>1, <2>4 DEF d
<1>10. b \in T
  <2> HIDE DEF T, b
  <2>1. 0..b \subseteq T
    BY <1>1, <1>8, <1>9, UpTo
  <2> QED
    BY <1>1, <2>1
<1> QED
  BY <1>7, <1>10

\* A sum over rows of what each has under p, as the library computes it.
FieldSums(g, S, p) ==
  g = [s \in SUBSET S |-> IF s = {} THEN 0
                          ELSE (CHOOSE x \in s : TRUE)[p] + g[s \ {CHOOSE x \in s : TRUE}]]
FieldSum(S, p) == (CHOOSE g : FieldSums(g, S, p))[S]

LEMMA FieldSumPositive ==
  ASSUME NEW S, IsFiniteSet(S), NEW p, \A row \in S : row[p] \in Nat
  PROVE  FieldSum(S, p) \in Nat /\ (FieldSum(S, p) > 0 <=> \E row \in S : row[p] > 0)
<1> DEFINE f == [row \in S |-> row[p]]
<1>1. f \in [S -> Nat] /\ \A row \in S : f[row] = row[p]
  OBVIOUS
<1>2. ASSUME NEW g PROVE FieldSums(g, S, p) <=> Sums(g, f, S)
  <2>1. ASSUME NEW s \in SUBSET S, s # {}
        PROVE  (CHOOSE x \in s : TRUE)[p] + g[s \ {CHOOSE x \in s : TRUE}] = f[Some(s)] + g[Rest(s)]
    <3>1. Some(s) \in S
      BY <2>1 DEF Some
    <3> QED
      BY <1>1, <3>1 DEF Some, Rest
  <2>2. [s \in SUBSET S |-> IF s = {} THEN 0
                            ELSE (CHOOSE x \in s : TRUE)[p] + g[s \ {CHOOSE x \in s : TRUE}]]
        = [s \in SUBSET S |-> IF s = {} THEN 0 ELSE f[Some(s)] + g[Rest(s)]]
    BY <2>1
  <2> QED
    BY <2>2 DEF FieldSums, Sums
<1> HIDE DEF f
<1>3. \E g : FieldSums(g, S, p)
  BY <1>1, <1>2, SumExists
<1> DEFINE c == CHOOSE g : FieldSums(g, S, p)
<1>4. FieldSums(c, S, p)
  BY <1>3
<1>5. FieldSum(S, p) = c[S]
  BY DEF FieldSum
<1> HIDE DEF c
<1>6. Sums(c, f, S)
  BY <1>2, <1>4
<1>7. c[S] \in Nat /\ (c[S] > 0 <=> \E row \in S : f[row] > 0)
  BY <1>1, <1>6, SumPositive
<1> QED
  BY <1>1, <1>5, <1>7

LEMMA TimesOf ==
  ASSUME NEW bytes, NEW flops, NEW k, NEW entry, entry = Entry(bytes, flops, k)
  PROVE  entry.kernel_name = k /\ entry.kernel_time = TimeOf(bytes, k) /\ entry.total_gpu_time = TotalTime(bytes)
BY DEF Entry

\* The two precisions of an entry.
LEMMA OperationsOf ==
  ASSUME NEW bytes, NEW flops, NEW k
  PROVE  /\ Entry(bytes, flops, k).FP16 = 64 * FieldSum({row \in flops : row.kernel = k}, "FP16")
         /\ Entry(bytes, flops, k).FP32 = 32 * FieldSum({row \in flops : row.kernel = k}, "FP32")
<1>1. SumOver(flops, k, LAMBDA row : row.FP16) = FieldSum({row \in flops : row.kernel = k}, "FP16")
  BY DEF SumOver, MapThenSumSet, MapThenFoldSet, FieldSums, FieldSum
<1>2. SumOver(flops, k, LAMBDA row : row.FP32) = FieldSum({row \in flops : row.kernel = k}, "FP32")
  BY DEF SumOver, MapThenSumSet, MapThenFoldSet, FieldSums, FieldSum
<1> QED
  BY <1>1, <1>2 DEF Entry

LEMMA UsesPrecision ==
  ASSUME NEW bytes, NEW flops \in SUBSET Sample("VectorEngine138"), IsFiniteSet(flops), NEW k,
         NEW p \in {"FP16", "FP32"}
  PROVE  Entry(bytes, flops, k)[p] > 0 <=> \E row \in flops : row.kernel = k /\ row[p] > 0
<1> DEFINE S == {row \in flops : row.kernel = k}
<1>1. IsFiniteSet(S) /\ S \subseteq flops
  BY FS_Subset
<1>2. \A row \in S : row[p] \in Nat
  BY DEF Sample
<1> HIDE DEF S
<1>3. FieldSum(S, p) \in Nat /\ (FieldSum(S, p) > 0 <=> \E row \in S : row[p] > 0)
  BY <1>1, <1>2, FieldSumPositive
<1>4. \E x \in {32, 64} : Entry(bytes, flops, k)[p] = x * FieldSum(S, p)
  BY OperationsOf DEF S
<1>5. Entry(bytes, flops, k)[p] > 0 <=> FieldSum(S, p) > 0
  BY ONLY <1>3, <1>4
<1> QED
  BY <1>3, <1>5 DEF S

--------------------------------------------------------------------------------
(* The precision.                                                          *)

\* What FoldLeft goes through: the members from the last to the first.
FromLast(g, q, p) ==
  g = [s \in SUBSET DOMAIN q |-> IF s = {} THEN 0 ELSE g[s \ {Max(s)}] + q[Max(s)][p]]

LEMMA OperationsFold ==
  ASSUME NEW q, NEW p
  PROVE  Operations(q, p) = (CHOOSE g : FromLast(g, q, p))[DOMAIN q]
BY DEF Operations, FoldLeft, MapThenFoldSet, FromLast

LEMMA LargestOf ==
  ASSUME NEW b \in Nat, NEW s \in SUBSET (1..b), s # {}
  PROVE  Max(s) \in s /\ \A m \in s : Max(s) >= m
<1> DEFINE T == {n \in Nat : b - n \in s}
<1>1. PICK m \in s : TRUE
  OBVIOUS
<1>2. b - m \in T
  BY <1>1
<1>3. PICK n \in T : \A k \in T : n <= k
  <2>1. T \in SUBSET Nat /\ T # {}
    BY <1>2
  <2> HIDE DEF T
  <2> QED
    BY <2>1, LeastNat
<1>4. ASSUME NEW k \in s PROVE b - n >= k
  <2>1. b - k \in T /\ k \in Nat
    OBVIOUS
  <2>2. n <= b - k /\ n \in Nat
    BY <1>3, <2>1
  <2> HIDE DEF T
  <2> QED
    BY <2>1, <2>2
<1>5. \E x \in s : \A y \in s : x >= y
  BY <1>3, <1>4
<1> QED
  BY <1>5 DEF Max

\* The operations of all entries are added up.
LEMMA OperationsAdded ==
  ASSUME NEW X, NEW q \in Seq(X), NEW p, \A i \in 1..Len(q) : q[i][p] \in Nat
  PROVE  Operations(q, p) = SumOn([i \in 1..Len(q) |-> q[i][p]], 1..Len(q))
<1> DEFINE b == Len(q)
           f == [i \in 1..b |-> q[i][p]]
           Sum(s) == SumOn(f, s)
           h == [s \in SUBSET (1..b) |-> Sum(s)]
<1>1. b \in Nat /\ DOMAIN q = 1..b /\ IsFiniteSet(1..b)
  BY LenProperties, FS_Interval
<1>2. \A i \in 1..b : f[i] = q[i][p] /\ f[i] \in Nat
  OBVIOUS
<1> HIDE DEF b, f
<1>3. ASSUME NEW s \in SUBSET (1..b) PROVE Sum(s) \in Nat
  <2>1. IsFiniteSet(s)
    BY <1>1, FS_Subset
  <2> QED
    BY <1>2, <2>1, SumOnIs
<1>4. ASSUME NEW s \in SUBSET (1..b), NEW x \in s PROVE Sum(s) = Sum(s \ {x}) + q[x][p]
  <2>1. PICK r : r = s \ {x}
    OBVIOUS
  <2>2. IsFiniteSet(r) /\ x \notin r /\ r \cup {x} = s /\ r \in SUBSET (1..b)
    BY <1>1, <2>1, FS_Subset
  <2>3. SumOn(f, r \cup {x}) = f[x] + SumOn(f, r)
    BY <1>2, <2>2, SumOnOneMore
  <2>4. SumOn(f, r) \in Nat /\ f[x] \in Nat /\ f[x] = q[x][p]
    BY <1>2, <1>3, <2>2
  <2>5. f[x] + SumOn(f, r) = SumOn(f, r) + f[x]
    BY <2>4
  <2> QED
    BY <2>1, <2>2, <2>3, <2>4, <2>5
<1>5. Sum({}) = 0
  BY SumOnEmpty
<1> HIDE DEF Sum
<1>6. FromLast(h, q, p)
  <2>1. ASSUME NEW s \in SUBSET (1..b), s # {} PROVE Sum(s) = h[s \ {Max(s)}] + q[Max(s)][p]
    <3>1. Max(s) \in s
      BY <1>1, <2>1, LargestOf
    <3> QED
      BY <1>4, <3>1
  <2> QED
    BY <1>1, <1>5, <2>1 DEF FromLast
<1> DEFINE g == CHOOSE g : FromLast(g, q, p)
<1>7. FromLast(g, q, p)
  BY <1>6
<1>8. Operations(q, p) = g[1..b]
  BY <1>1, OperationsFold
<1> HIDE DEF g, h
<1> DEFINE T == {n \in 0..b : g[1..n] = Sum(1..n)}
<1>9. 0 \in T
  <2>1. 1..0 = {} /\ 0 \in 0..b
    BY <1>1
  <2>2. g[{}] = 0
    BY <1>7 DEF FromLast
  <2> QED
    BY <1>5, <2>1, <2>2
<1>10. ASSUME NEW n \in 0..(b - 1), n \in T PROVE n + 1 \in T
  <2> DEFINE d == n + 1
  <2>1. d \in 0..b /\ d \in 1..d /\ 1..d \in SUBSET (1..b) /\ (1..d) \ {d} = 1..n /\ \A m \in 1..d : d >= m
    BY <1>1
  <2> HIDE DEF d
  <2>2. Max(1..d) = d
    <3>1. Max(1..d) \in 1..d /\ Max(1..d) >= d
      BY <1>1, <2>1, LargestOf
    <3> QED
      BY <1>1, <2>1, <3>1
  <2>3. g[1..d] = g[1..n] + q[d][p]
    BY <1>1, <1>7, <2>1, <2>2 DEF FromLast
  <2>4. Sum(1..d) = Sum(1..n) + q[d][p]
    BY <1>4, <2>1
  <2>5. d \in T
    BY <1>10, <2>1, <2>3, <2>4
  <2> QED
    BY <2>5 DEF d
<1>11. b \in T
  <2> HIDE DEF T
  <2>1. 0..b \subseteq T
    BY <1>1, <1>9, <1>10, UpTo
  <2> QED
    BY <1>1, <2>1
<1> QED
  BY <1>8, <1>11 DEF Sum, f, b

\* A factor may be taken out of a sum.
LEMMA SumOnTimes ==
  ASSUME NEW S, IsFiniteSet(S), NEW f, NEW e, NEW c \in {32, 64},
         \A x \in S : f[x] \in Nat /\ e[x] = c * f[x]
  PROVE  SumOn(e, S) = c * SumOn(f, S)
<1> DEFINE P == {s \in SUBSET S : SumOn(e, s) = c * SumOn(f, s)}
<1>1. {} \in P
  <2>1. SumOn(e, {}) = 0 /\ SumOn(f, {}) = 0
    BY SumOnEmpty
  <2> QED
    BY <2>1
<1>2. ASSUME NEW s \in SUBSET S, s # {}, Rest(s) \in P PROVE s \in P
  <2> DEFINE r == Rest(s)
             x == Some(s)
  <2>1. s = r \cup {x} /\ x \notin r /\ x \in s /\ r \in SUBSET S
    BY ONLY IsFiniteSet(S), <1>2, OneRemoved DEF Rest
  <2>2. s = r \cup {x} /\ x \notin r /\ x \in S /\ IsFiniteSet(r) /\ r \in SUBSET S
    BY ONLY IsFiniteSet(S), s \in SUBSET S, <2>1, FS_Subset
  <2>3. SumOn(e, r) = c * SumOn(f, r)
    BY <1>2
  <2> HIDE DEF r, x
  <2>4. \A y \in r \cup {x} : f[y] \in Nat /\ e[y] \in Nat
    BY <2>2
  <2>5. SumOn(f, r \cup {x}) = f[x] + SumOn(f, r) /\ SumOn(e, r \cup {x}) = e[x] + SumOn(e, r)
    BY <2>2, <2>4, SumOnOneMore
  <2>6. SumOn(f, r) \in Nat
    BY <2>2, <2>4, SumOnIs
  <2>7. \A m, n \in Nat : c * m + c * n = c * (m + n)
    OBVIOUS
  <2>8. f[x] \in Nat /\ e[x] = c * f[x]
    BY <2>2
  <2>9. c * f[x] + c * SumOn(f, r) = c * (f[x] + SumOn(f, r))
    BY <2>6, <2>7, <2>8
  <2> QED
    BY <2>2, <2>3, <2>5, <2>8, <2>9
<1>3. SUBSET S \subseteq P
  <2> HIDE DEF P
  <2> QED
    BY <1>1, <1>2, AllParts
<1> QED
  BY <1>3

LEMMA FieldSumIs ==
  ASSUME NEW S, IsFiniteSet(S), NEW p, \A row \in S : row[p] \in Nat
  PROVE  FieldSum(S, p) = SumOn([row \in S |-> row[p]], S)
<1> DEFINE f == [row \in S |-> row[p]]
<1>1. \A row \in S : f[row] = row[p]
  OBVIOUS
<1>2. ASSUME NEW g PROVE FieldSums(g, S, p) <=> Sums(g, f, S)
  <2>1. ASSUME NEW s \in SUBSET S, s # {}
        PROVE  (CHOOSE x \in s : TRUE)[p] + g[s \ {CHOOSE x \in s : TRUE}] = f[Some(s)] + g[Rest(s)]
    <3>1. Some(s) \in S
      BY <2>1 DEF Some
    <3> QED
      BY <1>1, <3>1 DEF Some, Rest
  <2>2. [s \in SUBSET S |-> IF s = {} THEN 0
                            ELSE (CHOOSE x \in s : TRUE)[p] + g[s \ {CHOOSE x \in s : TRUE}]]
        = [s \in SUBSET S |-> IF s = {} THEN 0 ELSE f[Some(s)] + g[Rest(s)]]
    BY <2>1
  <2> QED
    BY <2>2 DEF FieldSums, Sums
<1> HIDE DEF f
<1>3. (CHOOSE g : FieldSums(g, S, p)) = (CHOOSE g : Sums(g, f, S))
  BY <1>2, Zenon
<1> QED
  BY <1>3 DEF FieldSum, SumOn, f

LEMMA TotalIs ==
  ASSUME NEW memory, NEW compute, NEW p
  PROVE  Total(memory, compute, p) =
           Width(p) * FieldSum({row \in compute : row.kernel \in InBoth(memory, compute)}, p)
BY DEF Total, InBoth, FieldSum, FieldSums, MapThenSumSet, MapThenFoldSet

LEMMA OperationsTotal ==
  ASSUME NEW memory, IsFiniteSet(memory), NEW compute \in SUBSET Sample("VectorEngine138"), IsFiniteSet(compute),
         NEW order \in SetToSeqs(EntriesOf(memory, compute)), NEW p \in {"FP16", "FP32"}
  PROVE  Operations(order, p) = Total(memory, compute, p) /\ Total(memory, compute, p) \in Nat
<1> DEFINE both == InBoth(memory, compute)
           E == EntriesOf(memory, compute)
           rows == {row \in compute : row.kernel \in both}
           part == [k \in both |-> {row \in compute : row.kernel = k}]
           c == Width(p)
           entry == [k \in both |-> Entry(memory, compute, k)]
           field == [row \in compute |-> row[p]]
           sum == [k \in both |-> SumOn(field, part[k])]
           ops == [e \in E |-> e[p]]
           own == [k \in both |-> entry[k][p]]
<1>1. c \in {32, 64} /\ \A row \in compute : row[p] \in Nat
  BY DEF Width, Sample
<1>2. IsFiniteSet(E) /\ IsFiniteSet(both)
  <2>1. KernelsOf(memory) = {row.kernel : row \in memory}
    BY DEF KernelsOf
  <2>2. IsFiniteSet(KernelsOf(memory))
    <3> DEFINE names == [row \in memory |-> row.kernel]
    <3>1. names \in [memory -> KernelsOf(memory)] /\ \A k \in KernelsOf(memory) : \E row \in memory : names[row] = k
      BY DEF KernelsOf
    <3> HIDE DEF names
    <3> QED
      BY <3>1, ImageFinite
  <2>3. IsFiniteSet(both)
    BY <2>2, FS_Subset DEF InBoth
  <2> QED
    BY <2>3, EntriesFinite
<1>3. Parted(rows, part, both) /\ rows \subseteq compute /\ IsFiniteSet(rows)
  <2>1. IsFiniteSet(rows)
    BY FS_Subset
  <2>2. \A k \in both : IsFiniteSet(part[k])
    <3> SUFFICES ASSUME NEW k \in both PROVE IsFiniteSet({row \in compute : row.kernel = k})
      OBVIOUS
    <3> QED
      BY FS_Subset
  <2>3. rows = UNION {part[k] : k \in both} /\ \A k, l \in both : k # l => part[k] \cap part[l] = {}
    <3> HIDE DEF both
    <3> QED
      OBVIOUS
  <2> HIDE DEF rows, part, both
  <2> QED
    BY <2>1, <2>2, <2>3 DEF Parted, rows
<1>4. SumOn(field, rows) = SumOn(sum, both) /\ \A k \in both : sum[k] \in Nat
  <2>1. \A row \in rows : field[row] \in Nat
    BY <1>1
  <2>2. \A k \in both : sum[k] = SumOn(field, part[k])
    OBVIOUS
  <2>3. (\A k \in both : SumOn(field, part[k]) \in Nat) /\ SumOn(field, rows) = SumOn([k \in both |-> SumOn(field, part[k])], both)
    <3> HIDE DEF field, rows, part, both
    <3> QED
      BY <1>2, <1>3, <2>1, SumOnParts
  <2> QED
    BY <2>2, <2>3
<1>5. ASSUME NEW s \in SUBSET compute PROVE FieldSum(s, p) = SumOn(field, s)
  <2>1. IsFiniteSet(s) /\ \A row \in s : row[p] \in Nat
    BY <1>1, FS_Subset
  <2>2. FieldSum(s, p) = SumOn([row \in s |-> row[p]], s)
    BY <2>1, FieldSumIs
  <2>3. \A row \in s : [r \in s |-> r[p]][row] \in Nat /\ [r \in s |-> r[p]][row] = field[row]
    BY <2>1
  <2> HIDE DEF field
  <2>4. SumOn([row \in s |-> row[p]], s) = SumOn(field, s)
    BY <2>1, <2>3, SumOnAgrees
  <2> QED
    BY <2>2, <2>4
<1>6. ASSUME NEW k \in both PROVE own[k] = c * sum[k]
  <2>1. Entry(memory, compute, k)[p] = c * FieldSum({row \in compute : row.kernel = k}, p)
    BY OperationsOf DEF Width
  <2>2. part[k] = {row \in compute : row.kernel = k} /\ part[k] \in SUBSET compute
    OBVIOUS
  <2>3. own[k] = Entry(memory, compute, k)[p] /\ sum[k] = SumOn(field, part[k])
    OBVIOUS
  <2> HIDE DEF own, sum, part, c, both
  <2> QED
    BY <1>5, <2>1, <2>2, <2>3
<1>7. SumOn(own, both) = c * SumOn(sum, both)
  <2> HIDE DEF own, sum, both, c
  <2>1. \A k \in both : sum[k] \in Nat /\ own[k] = c * sum[k]
    BY <1>4, <1>6
  <2>2. c \in {32, 64} /\ IsFiniteSet(both)
    BY <1>1, <1>2
  <2> QED
    BY ONLY <2>1, <2>2, SumOnTimes
<1>8. SumOn(ops, E) = SumOn(own, both)
  <2>1. \A k, l \in both : k # l => entry[k] # entry[l]
    <3>1. ASSUME NEW k \in both PROVE entry[k].kernel_name = k
      BY TimesOf
    <3> HIDE DEF entry
    <3> QED
      BY <3>1
  <2>2. E = {entry[k] : k \in both}
    BY DEF EntriesOf
  <2>3. \A k \in both : ops[entry[k]] = own[k]
    BY <2>2
  <2>4. \A k \in both : own[k] \in Nat
    <3> HIDE DEF own, sum, c
    <3> QED
      BY <1>1, <1>4, <1>6
  <2> HIDE DEF own, entry, ops, E, both
  <2> QED
    BY <1>2, <2>1, <2>2, <2>3, <2>4, SumOnNames
<1>9. Operations(order, p) = SumOn(ops, E)
  <2>1. /\ order \in Seq(E) /\ Len(order) \in Nat /\ DOMAIN order = 1..Len(order) /\ ToSet(order) = E
        /\ \A i, j \in DOMAIN order : i # j => order[i] # order[j]
    BY <1>2, Permuted
  <2>2. \A e \in E : ops[e] = e[p] /\ e[p] \in Nat
    <3>1. ASSUME NEW e \in E PROVE e[p] \in Nat
      <4>1. PICK k \in both : e = Entry(memory, compute, k)
        BY DEF EntriesOf
      <4>2. own[k] = e[p] /\ own[k] = c * sum[k] /\ sum[k] \in Nat
        BY <1>4, <1>6, <4>1
      <4> HIDE DEF own, sum, c
      <4> QED
        BY <1>1, <4>2
    <3> HIDE DEF E
    <3> QED
      BY <3>1
  <2> DEFINE at == [i \in 1..Len(order) |-> order[i][p]]
             n == Len(order)
  <2>3. \A i \in 1..n : order[i] \in E /\ ops[order[i]] = at[i] /\ at[i] = order[i][p] /\ at[i] \in Nat
    <3>1. \A i \in 1..n : order[i] \in E
      BY <2>1, ElementOfSeq
    <3> HIDE DEF E, ops
    <3> QED
      BY <2>2, <3>1
  <2>4. Operations(order, p) = SumOn(at, 1..n)
    <3>1. \A i \in 1..Len(order) : order[i][p] \in Nat
      BY <2>3
    <3> HIDE DEF E
    <3> QED
      BY <2>1, <3>1, OperationsAdded
  <2> HIDE DEF at, ops, E
  <2>5. n \in Nat /\ IsFiniteSet(1..n)
    BY <2>1, FS_Interval
  <2>6. {order[i] : i \in 1..n} = E
    BY <2>1 DEF ToSet
  <2>7. \A i, j \in 1..n : i # j => order[i] # order[j]
    BY <2>1
  <2>8. \A i \in 1..n : ops[order[i]] = at[i] /\ at[i] \in Nat
    BY <2>3
  <2> HIDE DEF n
  <2>9. SumOn(ops, {order[i] : i \in 1..n}) = SumOn(at, 1..n)
    <3>1. PICK N : N = 1..n
      OBVIOUS
    <3>2. /\ IsFiniteSet(N) /\ \A i, j \in N : i # j => order[i] # order[j]
          /\ \A i \in N : ops[order[i]] = at[i] /\ at[i] \in Nat
      BY <2>5, <2>7, <2>8, <3>1
    <3>3. SumOn(ops, {order[i] : i \in N}) = SumOn(at, N)
      BY ONLY <3>2, SumOnNames
    <3> QED
      BY <3>1, <3>3
  <2> QED
    BY <2>4, <2>6, <2>9
<1>10. FieldSum(rows, p) = SumOn(field, rows) /\ SumOn(field, rows) \in Nat
  <2>1. rows \in SUBSET compute /\ \A row \in rows : field[row] \in Nat
    BY <1>1, <1>3
  <2> HIDE DEF rows, field
  <2> QED
    BY <1>3, <1>5, <2>1, SumOnIs
<1>11. Total(memory, compute, p) = c * FieldSum(rows, p)
  BY TotalIs
<1> HIDE DEF own, sum, ops, E, field, rows, c, both
<1> QED
  BY <1>1, <1>4, <1>7, <1>8, <1>9, <1>10, <1>11

--------------------------------------------------------------------------------
(* The plot.                                                               *)

LEMMA PointsFollow == RunInv => PointForEachKernel
<1> SUFFICES ASSUME RunInv, NEW u \in Users, pc[u] \in {"remove", "done"}
             PROVE  /\ ShowsMostUsed(points[u], FileToJson(profiles[u].bytes).rows, FileToJson(profiles[u].flops).rows)
                    /\ ShowsByTime(points[u], FileToJson(profiles[u].bytes).rows)
  <2>1. ASSUME RunInv, NEW v \in Users, pc[v] \notin {"remove", "done"} PROVE points[v] = <<>>
    BY <2>1, RunFacts DEF PlottedRun
  <2> QED
    BY <2>1 DEF PointForEachKernel
<1> DEFINE compute == FileToJson(profiles[u].flops).rows
           memory == FileToJson(profiles[u].bytes).rows
           both == InBoth(memory, compute)
           Ops(p) == {k \in both : \E row \in compute : row.kernel = k /\ row[p] > 0}
           order == result[u]
           E == EntriesOf(memory, compute)
           P == Precision(order)
           kept == {n \in DOMAIN order : Shown(order[n]) /\ order[n][P] > 0}
           q == Selected(order, kept)
           shown == points[u]
<1>1. compute \subseteq Sample("VectorEngine138") /\ IsFiniteSet(compute) /\ IsFiniteSet(memory)
  <2>1. \E g, h \in Groups : profiles[u].flops \in Profile(g) /\ profiles[u].bytes \in Profile(h)
    BY DEF RunInv, Typed
  <2>2. FileToJson(profiles[u].flops).group = "VectorEngine138"
    BY RunFacts DEF ReadRun
  <2>3. "VectorEngine138" # None
    BY DEF None
  <2> QED
    BY <2>1, <2>2, <2>3, ReadProfile
<1>2. order \in SetToSeqs(E) /\ \A m, n \in DOMAIN order : m < n => order[m].kernel_time >= order[n].kernel_time
  BY RunFacts DEF ReadRun, ByTime
<1>3. /\ P \in {"FP16", "FP32"} /\ P \in ToSet(Precisions)
      /\ \A other \in ToSet(Precisions) : Total(memory, compute, P) >= Total(memory, compute, other)
  <2>1. P \in {"FP16", "FP32"} /\ \A other \in {"FP16", "FP32"} : P # other => Operations(order, P) >= Operations(order, other)
    <3>1. Operations(order, "FP16") \in Nat /\ Operations(order, "FP32") \in Nat
      BY <1>1, <1>2, OperationsTotal
    <3> HIDE DEF order
    <3> QED
      BY <3>1 DEF Precision
  <2>2. ToSet(Precisions) = {"FP16", "FP32"}
    BY DEF ToSet, Precisions
  <2>3. \A p \in {"FP16", "FP32"} : Operations(order, p) = Total(memory, compute, p) /\ Total(memory, compute, p) \in Nat
    BY <1>1, <1>2, OperationsTotal
  <2> HIDE DEF P, order, memory, compute
  <2> QED
    BY <2>1, <2>2, <2>3
<1>4. shown = PointsOf(q)
  BY RunFacts DEF PlottedRun, Plotted
<1>m. both = KernelsOf(memory) \cap KernelsOf(compute)
  BY DEF InBoth
<1>a. E = {Entry(memory, compute, k) : k \in both}
  BY DEF EntriesOf
<1> HIDE DEF compute, memory, both, order, E, P, q, shown
<1>5. /\ order \in Seq(E) /\ DOMAIN order = 1..Len(order) /\ Len(order) \in Nat /\ ToSet(order) = E
      /\ \A i, j \in DOMAIN order : i # j => order[i] # order[j]
  <2>1. IsFiniteSet(E)
    BY <1>1, EntriesFinite DEF E
  <2> QED
    BY <1>2, <2>1, Permuted
<1>6. PICK at : q \in Seq(E) /\ Picks(at, q, order, kept, Len(order))
  <2>1. kept \in SUBSET (DOMAIN order)
    OBVIOUS
  <2> HIDE DEF kept
  <2> QED
    BY <1>5, <2>1, SelectedMembers DEF q
<1>7. ASSUME NEW n \in DOMAIN order
      PROVE  /\ order[n] \in E /\ order[n].kernel_name \in both
             /\ order[n] = Entry(memory, compute, order[n].kernel_name)
             /\ order[n].kernel_time = TimeOf(memory, order[n].kernel_name)
             /\ n \in kept <=> /\ order[n].kernel_name \in Ops(P)
                               /\ TimeOf(memory, order[n].kernel_name) > TotalTime(memory) \div 100000
  <2>1. order[n] \in E
    BY <1>5 DEF ToSet
  <2>2. PICK k \in both : order[n] = Entry(memory, compute, k)
    BY <1>a, <2>1
  <2>3. order[n].kernel_name = k /\ order[n].kernel_time = TimeOf(memory, k) /\ order[n].total_gpu_time = TotalTime(memory)
    BY <2>2, TimesOf
  <2>4. order[n][P] > 0 <=> \E row \in compute : row.kernel = k /\ row[P] > 0
    BY <1>1, <1>3, <2>2, UsesPrecision
  <2>5. Shown(order[n]) <=> TimeOf(memory, k) > TotalTime(memory) \div 100000
    BY <2>3 DEF Shown
  <2> QED
    BY <2>1, <2>2, <2>3, <2>4, <2>5
<1>8. /\ Len(q) \in Nat /\ DOMAIN q = 1..Len(q) /\ DOMAIN shown = 1..Len(q)
      /\ \A i \in 1..Len(q) : shown[i].kernel = q[i].kernel_name /\ shown[i].order = i
  <2>1. Len(q) \in Nat /\ DOMAIN q = 1..Len(q)
    BY <1>6, LenProperties
  <2> QED
    BY <1>4, <2>1 DEF PointsOf, Point
<1>9. ASSUME NEW i \in 1..Len(q) PROVE at[i] \in kept /\ at[i] \in DOMAIN order /\ shown[i].kernel = order[at[i]].kernel_name
  <2>1. at[i] \in kept /\ q[i] = order[at[i]]
    BY <1>6 DEF Picks
  <2> QED
    BY <1>8, <2>1
<1> DEFINE names == [n \in DOMAIN shown |-> shown[n].kernel]
           Wanted == {k \in Ops(P) : TimeOf(memory, k) > TotalTime(memory) \div 100000}
<1>10. ToSet(names) = Wanted
  <2>1. ASSUME NEW i \in 1..Len(q) PROVE names[i] \in Wanted
    BY <1>7, <1>8, <1>9
  <2>2. ASSUME NEW k \in Wanted PROVE \E i \in 1..Len(q) : names[i] = k
    <3>1. k \in both /\ Entry(memory, compute, k) \in E
      BY <1>a
    <3>2. PICK n \in DOMAIN order : order[n] = Entry(memory, compute, k)
      BY <1>5, <3>1 DEF ToSet
    <3>3. order[n].kernel_name = k
      BY <3>2, TimesOf
    <3>4. n \in kept
      <4> HIDE DEF kept
      <4> QED
        BY <1>7, <3>3
    <3>5. PICK i \in 1..Len(q) : at[i] = n
      <4>1. n \in kept \cap (1..Len(order))
        BY <1>5, <3>4
      <4> HIDE DEF kept
      <4> QED
        BY <1>6, <4>1 DEF Picks
    <3> QED
      BY <1>8, <1>9, <3>3, <3>5
  <2>3. DOMAIN names = 1..Len(q)
    BY <1>8
  <2> HIDE DEF names, Wanted
  <2> QED
    BY <2>1, <2>2, <2>3 DEF ToSet
<1>11. ASSUME NEW m \in DOMAIN shown, NEW n \in DOMAIN shown, m < n
       PROVE  /\ shown[m].order < shown[n].order
              /\ shown[m].kernel # shown[n].kernel
              /\ TimeOf(memory, shown[m].kernel) >= TimeOf(memory, shown[n].kernel)
  <2>1. m \in 1..Len(q) /\ n \in 1..Len(q) /\ shown[m].order = m /\ shown[n].order = n
    BY <1>8
  <2> DEFINE a == at[m]
             b == at[n]
  <2>2. /\ a \in DOMAIN order /\ b \in DOMAIN order
        /\ shown[m].kernel = order[a].kernel_name /\ shown[n].kernel = order[b].kernel_name
    BY <1>9, <2>1
  <2>3. a < b /\ a # b
    <3>1. a < b
      BY <1>6, <1>11, <2>1 DEF Picks
    <3> QED
      BY <1>5, <2>2, <3>1
  <2> HIDE DEF a, b, kept
  <2>4. order[a] # order[b] /\ order[a].kernel_time >= order[b].kernel_time
    BY <1>2, <1>5, <2>2, <2>3
  <2>5. order[a].kernel_name # order[b].kernel_name
    BY <1>7, <2>2, <2>4
  <2> QED
    BY <1>7, <1>11, <2>1, <2>2, <2>4, <2>5
<1>12. ShowsMostUsed(shown, memory, compute)
  <2>1. Ops(P) = Uses(memory, compute, P)
    BY <1>m DEF Uses
  <2> HIDE DEF Ops
  <2> QED
    BY <1>3, <1>10, <2>1 DEF ShowsMostUsed
<1>13. ShowsByTime(shown, memory)
  BY <1>11 DEF ShowsByTime
<1> QED
  BY <1>12, <1>13 DEF compute, memory, shown

\* A plot that was written has a point for each kernel that both profiles have,
\* that takes more than a 100000th of the time and that has operations of the
\* precision that all kernels together use most, by the time they take and none
\* twice (roofline_libs.py, plot_html_roofline).
THEOREM PointsCorrect == Spec => []PointForEachKernel
<1> QED
  BY RunInit, RunNext, PointsFollow, PTL DEF Spec
================================================================================
