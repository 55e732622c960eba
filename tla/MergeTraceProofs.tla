----------------------------- MODULE MergeTraceProofs ---------------------------
(***************************************************************************)
(* Proofs about MergeTrace.tla, for any arguments, any order of merges and *)
(* views and any number of runs, killed and failing ones included.         *)
(***************************************************************************)
EXTENDS MergeTrace, NatLemmas, SequenceTheorems, TLAPS

Tokens == {Header, Footer, Remains, OtherJson} \cup {Event(f, n) : f \in InputFiles, n \in {1, 2}}

\* An input, from what it was, if there was no mishap, and while the script works
\* on it.
Kept(was, is, quiet, touched) ==
  /\ IsPrefix(was, is)
  /\ Loads(was) => is = was
  /\ quiet /\ ~touched => is = was \/ IsTrace(is)

KeptInv ==
  /\ original \in [InputFiles -> Seq(Tokens)] /\ disk \in [InputFiles -> Seq(Tokens)]
  /\ args \in Seq(InputFiles) /\ i \in Nat /\ 1 <= i
  /\ \A f \in InputFiles :
       Kept(original[f], disk[f], ~mishap, pc \in {"reload", "rollback"} /\ f = File)
  /\ pc \in {"validate", "tags", "reload", "rollback"} => i <= Len(args)
  /\ pc \in {"validate", "tags"} => fsize = Len(disk[File])
  /\ pc = "tags" => ~Loads(disk[File])
  /\ pc \in {"reload", "rollback"} =>
       /\ ~Loads(original[File])
       /\ fsize = Len(disk[File]) - 1 /\ disk[File][Len(disk[File])] = Footer
       /\ Len(original[File]) <= fsize
       /\ ~mishap => fsize = Len(original[File])

--------------------------------------------------------------------------------
LEMMA Prefix ==
  ASSUME NEW S, NEW s \in Seq(S), NEW t \in Seq(S)
  PROVE  IsPrefix(s, t) <=> Len(s) <= Len(t) /\ \A n \in 1..Len(s) : t[n] = s[n]
<1>1. Len(s) \in Nat /\ Len(t) \in Nat
  BY LenProperties
<1>2. /\ SubSeq(s, 1, Len(s)) \in Seq(S) /\ Len(SubSeq(s, 1, Len(s))) = Len(s)
      /\ \A n \in 1..Len(s) : SubSeq(s, 1, Len(s))[n] = s[n]
  <2>1. \A n \in 1..Len(s) : s[n] \in S
    BY ElementOfSeq
  <2>2. /\ SubSeq(s, 1, Len(s)) \in Seq(S)
        /\ Len(SubSeq(s, 1, Len(s))) = IF 1 <= Len(s) THEN Len(s) - 1 + 1 ELSE 0
        /\ \A n \in 1..(Len(s) - 1 + 1) : SubSeq(s, 1, Len(s))[n] = s[1 + n - 1]
    BY <1>1, <2>1, SubSeqProperties
  <2> QED
    BY <1>1, <2>2
<1>3. ASSUME Len(s) <= Len(t)
      PROVE  /\ SubSeq(t, 1, Len(s)) \in Seq(S) /\ Len(SubSeq(t, 1, Len(s))) = Len(s)
             /\ \A n \in 1..Len(s) : SubSeq(t, 1, Len(s))[n] = t[n]
  <2>1. \A n \in 1..Len(s) : t[n] \in S
    BY <1>1, <1>3, ElementOfSeq
  <2>2. /\ SubSeq(t, 1, Len(s)) \in Seq(S)
        /\ Len(SubSeq(t, 1, Len(s))) = IF 1 <= Len(s) THEN Len(s) - 1 + 1 ELSE 0
        /\ \A n \in 1..(Len(s) - 1 + 1) : SubSeq(t, 1, Len(s))[n] = t[1 + n - 1]
    BY <1>1, <2>1, SubSeqProperties
  <2> QED
    BY <1>1, <2>2
<1>4. CASE Len(s) <= Len(t)
  <2>1. IsPrefix(s, t) <=> SubSeq(s, 1, Len(s)) = SubSeq(t, 1, Len(s))
    BY <1>4 DEF IsPrefix
  <2>2. (\A n \in 1..Len(s) : t[n] = s[n]) => SubSeq(s, 1, Len(s)) = SubSeq(t, 1, Len(s))
    BY <1>2, <1>3, <1>4, SeqEqual
  <2>3. SubSeq(s, 1, Len(s)) = SubSeq(t, 1, Len(s)) => \A n \in 1..Len(s) : t[n] = s[n]
    BY <1>2, <1>3, <1>4
  <2> QED
    BY <1>4, <2>1, <2>2, <2>3
<1> QED
  BY <1>4 DEF IsPrefix

\* What completing a file and cutting it back do to it.
LEMMA Completed ==
  ASSUME NEW S, NEW was \in Seq(S), NEW is \in Seq(S), NEW e \in S, IsPrefix(was, is)
  PROVE  /\ Append(is, e) \in Seq(S) /\ IsPrefix(was, Append(is, e))
         /\ Len(was) <= Len(is) /\ Len(is) = Len(Append(is, e)) - 1
         /\ Append(is, e)[Len(Append(is, e))] = e
<1>1. Len(was) \in Nat /\ Len(is) \in Nat
  BY LenProperties
<1>2. Len(was) <= Len(is) /\ \A n \in 1..Len(was) : is[n] = was[n]
  BY Prefix
<1>3. /\ Append(is, e) \in Seq(S) /\ Len(Append(is, e)) = Len(is) + 1
      /\ \A n \in 1..Len(is) : Append(is, e)[n] = is[n]
      /\ Append(is, e)[Len(is) + 1] = e
  BY AppendProperties
<1>4. Len(was) <= Len(Append(is, e)) /\ \A n \in 1..Len(was) : Append(is, e)[n] = was[n]
  BY <1>1, <1>2, <1>3
<1>5. IsPrefix(was, Append(is, e))
  BY <1>3, <1>4, Prefix
<1>6. Len(is) = Len(Append(is, e)) - 1 /\ Append(is, e)[Len(Append(is, e))] = e
  BY <1>1, <1>3
<1> QED
  BY <1>2, <1>3, <1>5, <1>6

LEMMA CutBack ==
  ASSUME NEW S, NEW was \in Seq(S), NEW is \in Seq(S), IsPrefix(was, is),
         NEW size \in Int, Len(was) <= size, size <= Len(is)
  PROVE  /\ SubSeq(is, 1, size) \in Seq(S) /\ IsPrefix(was, SubSeq(is, 1, size))
         /\ size = Len(was) => SubSeq(is, 1, size) = was
<1>1. Len(was) \in Nat /\ Len(is) \in Nat
  BY LenProperties
<1>2. \A n \in 1..Len(was) : is[n] = was[n]
  BY Prefix
<1>3. \A n \in 1..size : is[n] \in S
  BY <1>1, ElementOfSeq
<1>4. /\ SubSeq(is, 1, size) \in Seq(S)
      /\ Len(SubSeq(is, 1, size)) = IF 1 <= size THEN size - 1 + 1 ELSE 0
      /\ \A n \in 1..(size - 1 + 1) : SubSeq(is, 1, size)[n] = is[1 + n - 1]
  BY <1>1, <1>3, SubSeqProperties
<1>5. /\ Len(SubSeq(is, 1, size)) = size
      /\ \A n \in 1..size : SubSeq(is, 1, size)[n] = is[n]
  BY <1>1, <1>4
<1>6. \A n \in 1..Len(was) : SubSeq(is, 1, size)[n] = was[n]
  BY <1>1, <1>2, <1>5
<1>7. IsPrefix(was, SubSeq(is, 1, size))
  BY <1>4, <1>5, <1>6, Prefix
<1>8. size = Len(was) => SubSeq(is, 1, size) = was
  BY <1>4, <1>5, <1>6, SeqEqual
<1> QED
  BY <1>4, <1>7, <1>8

LEMMA PrefixOfItself == ASSUME NEW s PROVE IsPrefix(s, s) <=> Len(s) <= Len(s)
BY DEF IsPrefix

LEMMA FileFacts ==
  ASSUME KeptInv, pc \in {"validate", "tags", "reload", "rollback"}
  PROVE  /\ File \in InputFiles
         /\ original[File] \in Seq(Tokens) /\ disk[File] \in Seq(Tokens)
         /\ Len(original[File]) \in Nat /\ Len(disk[File]) \in Nat
         /\ IsPrefix(original[File], disk[File])
<1>1. args \in Seq(InputFiles) /\ i \in 1..Len(args)
  <2>1. args \in Seq(InputFiles) /\ i \in Nat /\ 1 <= i /\ i <= Len(args)
    BY DEF KeptInv
  <2>2. Len(args) \in Nat
    BY <2>1, LenProperties
  <2> QED
    BY <2>1, <2>2
<1>2. File \in InputFiles
  BY <1>1, ElementOfSeq DEF File
<1>3. original[File] \in Seq(Tokens) /\ disk[File] \in Seq(Tokens)
  BY <1>2 DEF KeptInv
<1>4. IsPrefix(original[File], disk[File])
  BY <1>2 DEF KeptInv, Kept
<1> QED
  BY <1>2, <1>3, <1>4, LenProperties

--------------------------------------------------------------------------------
LEMMA KeptInit == Init => KeptInv
<1> SUFFICES ASSUME Init PROVE KeptInv
  OBVIOUS
<1>1. \A f \in InputFiles : Contents(f) \subseteq Seq(Tokens)
  <2> TAKE f \in InputFiles
  <2>1. /\ Header \in Tokens /\ Footer \in Tokens /\ Remains \in Tokens /\ OtherJson \in Tokens
        /\ Event(f, 1) \in Tokens /\ Event(f, 2) \in Tokens
    BY DEF Tokens
  <2> DEFINE e1 == Event(f, 1)
             e2 == Event(f, 2)
  <2> HIDE DEF e1, e2
  <2>2. /\ <<>> \in Seq(Tokens) /\ <<OtherJson>> \in Seq(Tokens)
        /\ <<Header, e1, e2, Footer>> \in Seq(Tokens)
        /\ <<Header, e1>> \in Seq(Tokens) /\ <<Header, e1, Remains>> \in Seq(Tokens)
    BY <2>1 DEF e1, e2
  <2> QED
    BY <2>2 DEF Contents, e1, e2
<1>2. /\ original \in [InputFiles -> Seq(Tokens)] /\ disk = original
      /\ args = <<>> /\ i = 1 /\ pc = "ended"
  <2>1. /\ original \in [InputFiles -> UNION {Contents(f) : f \in InputFiles}]
        /\ \A f \in InputFiles : original[f] \in Contents(f)
    BY DEF Init
  <2>2. \A f \in InputFiles : original[f] \in Seq(Tokens)
    BY <1>1, <2>1
  <2> QED
    BY <2>1, <2>2 DEF Init
<1>3. \A f \in InputFiles : IsPrefix(original[f], disk[f])
  <2> TAKE f \in InputFiles
  <2>1. Len(original[f]) \in Nat
    BY <1>2, LenProperties
  <2> QED
    BY <1>2, <2>1, PrefixOfItself
<1>4. args \in Seq(InputFiles)
  BY <1>2, EmptySeq
<1> QED
  BY <1>2, <1>3, <1>4 DEF KeptInv, Kept

\* A step that changes no file and does not work on one.
LEMMA FilesAsTheyAre ==
  ASSUME KeptInv, UNCHANGED <<disk, original>>, ~mishap' => ~mishap,
         args' \in Seq(InputFiles), i' \in Nat, 1 <= i',
         pc' \notin {"validate", "tags", "reload", "rollback"},
         mishap' \/ pc \notin {"reload", "rollback"}
  PROVE  KeptInv'
BY DEF KeptInv, Kept

LEMMA KeptByStart ==
  ASSUME KeptInv, NEW name, NEW files \in Seq(InputFiles), NEW o, Start(name, files, o)
  PROVE  KeptInv'
<1>1. /\ UNCHANGED <<disk, original, mishap>> /\ args' = files /\ i' = 1
      /\ pc' \in {"failed", "file"} /\ pc \in {"ended", "failed"}
  BY DEF Start, inputs
<1>2. i' \in Nat /\ 1 <= i'
  BY <1>1
<1> QED
  BY <1>1, <1>2, FilesAsTheyAre

LEMMA KeptByOpen == ASSUME KeptInv, OpenFile PROVE KeptInv'
<1>1. /\ UNCHANGED <<disk, original, mishap, args>> /\ pc = "file"
      /\ i <= Len(args) /\ fsize' = Len(disk[File])
  BY DEF OpenFile, inputs
<1>2. args \in Seq(InputFiles) /\ i \in Nat /\ 1 <= i
  BY DEF KeptInv
<1>3. CASE fsize' = 0
  <2>1. i' = i + 1 /\ pc' \in {"file", "failed"}
    BY <1>3 DEF OpenFile, Skip
  <2>2. i' \in Nat /\ 1 <= i'
    BY <1>2, <2>1
  <2> QED
    BY <1>1, <1>2, <2>1, <2>2, FilesAsTheyAre
<1>4. CASE fsize' # 0
  <2>1. i' = i /\ pc' = "validate"
    BY <1>4 DEF OpenFile
  <2>2. File' = File
    BY <1>1, <2>1 DEF File
  <2> QED
    BY <1>1, <1>2, <2>1, <2>2 DEF KeptInv
<1> QED
  BY <1>3, <1>4

LEMMA KeptByValidate == ASSUME KeptInv, Validate PROVE KeptInv'
<1>1. /\ UNCHANGED <<disk, original, mishap, args, i, fsize>> /\ pc = "validate"
      /\ pc' = IF Loads(disk[File]) THEN "write" ELSE "tags"
  BY DEF Validate, Load, inputs
<1>2. File' = File
  BY <1>1 DEF File
<1> QED
  BY <1>1, <1>2 DEF KeptInv

LEMMA KeptByTags == ASSUME KeptInv, AddTags PROVE KeptInv'
<1>1. /\ UNCHANGED <<original, mishap, args, i, fsize>> /\ pc = "tags" /\ File' = File
      /\ args \in Seq(InputFiles) /\ i \in Nat /\ 1 <= i /\ i <= Len(args)
      /\ fsize = Len(disk[File]) /\ ~Loads(disk[File])
  BY DEF KeptInv, AddTags, File
<1>2. CASE pc' = "failed" /\ UNCHANGED disk
  BY <1>1, <1>2, FilesAsTheyAre
<1>3. CASE disk' = [disk EXCEPT ![File] = Append(@, Footer)] /\ pc' = "reload"
  <2>1. /\ File \in InputFiles /\ Footer \in Tokens
        /\ original[File] \in Seq(Tokens) /\ disk[File] \in Seq(Tokens)
        /\ IsPrefix(original[File], disk[File])
    BY <1>1, FileFacts DEF Tokens
  <2>2. /\ Loads(original[File]) => disk[File] = original[File]
        /\ ~mishap => disk[File] = original[File] \/ IsTrace(disk[File])
    BY <1>1, <2>1 DEF KeptInv, Kept
  <2>3. /\ ~Loads(original[File])
        /\ ~mishap => disk[File] = original[File]
    BY <1>1, <2>2 DEF Loads
  <2>4. /\ disk' \in [InputFiles -> Seq(Tokens)]
        /\ disk'[File] = Append(disk[File], Footer)
        /\ \A f \in InputFiles \ {File} : disk'[f] = disk[f]
    <3>1. Append(disk[File], Footer) \in Seq(Tokens)
      BY <2>1, Completed
    <3>2. disk \in [InputFiles -> Seq(Tokens)]
      BY DEF KeptInv
    <3> QED
      BY <1>3, <2>1, <3>1, <3>2
  <2>5. /\ IsPrefix(original[File], disk'[File])
        /\ Len(original[File]) <= fsize /\ fsize = Len(disk'[File]) - 1
        /\ disk'[File][Len(disk'[File])] = Footer
    BY <1>1, <2>1, <2>4, Completed
  <2>6. ASSUME NEW f \in InputFiles
        PROVE  Kept(original[f], disk'[f], ~mishap, f = File)
    <3>1. CASE f = File
      BY <2>3, <2>5, <3>1 DEF Kept
    <3>2. CASE f # File
      BY <1>1, <2>4, <3>2 DEF KeptInv, Kept
    <3> QED
      BY <3>1, <3>2
  <2> QED
    BY <1>1, <1>3, <2>3, <2>4, <2>5, <2>6 DEF KeptInv
<1> QED
  BY <1>2, <1>3 DEF AddTags

LEMMA KeptByReload == ASSUME KeptInv, Reload PROVE KeptInv'
<1>1. /\ UNCHANGED <<disk, original, mishap, args, i, fsize>> /\ pc = "reload" /\ File' = File
      /\ pc' = IF Loads(disk[File]) THEN "write" ELSE "rollback"
  BY DEF Reload, Load, inputs, File
<1>2. CASE ~Loads(disk[File])
  BY <1>1, <1>2 DEF KeptInv
<1>3. CASE Loads(disk[File])
  <2>1. disk[File][Len(disk[File])] = Footer
    BY <1>1 DEF KeptInv
  <2>2. disk[File] # <<OtherJson>>
    BY <2>1 DEF Footer, OtherJson, Token
  <2>3. IsTrace(disk[File])
    BY <1>3, <2>2 DEF Loads
  <2>4. \A f \in InputFiles : Kept(original[f], disk[f], ~mishap, FALSE)
    BY <1>1, <2>3 DEF KeptInv, Kept
  <2> QED
    BY <1>1, <1>3, <2>4 DEF KeptInv
<1> QED
  BY <1>2, <1>3

LEMMA KeptByRollback == ASSUME KeptInv, Rollback PROVE KeptInv'
<1>1. /\ UNCHANGED <<original, args>> /\ pc = "rollback"
      /\ i' = i + 1 /\ pc' \in {"file", "failed"}
      /\ args \in Seq(InputFiles) /\ i \in Nat /\ 1 <= i
  BY DEF KeptInv, Rollback, Skip
<1>2. i' \in Nat /\ 1 <= i'
  BY <1>1
<1>3. CASE mishap' = TRUE /\ UNCHANGED disk
  BY <1>1, <1>2, <1>3, FilesAsTheyAre
<1>4. CASE disk' = [disk EXCEPT ![File] = SubSeq(@, 1, fsize)] /\ UNCHANGED mishap
  <2>1. /\ File \in InputFiles
        /\ original[File] \in Seq(Tokens) /\ disk[File] \in Seq(Tokens)
        /\ Len(original[File]) \in Nat /\ Len(disk[File]) \in Nat
        /\ IsPrefix(original[File], disk[File])
    BY <1>1, FileFacts
  <2>2. /\ fsize = Len(disk[File]) - 1 /\ Len(original[File]) <= fsize
        /\ ~Loads(original[File]) /\ (~mishap => fsize = Len(original[File]))
    BY <1>1 DEF KeptInv
  <2>3. fsize \in Int /\ fsize <= Len(disk[File])
    BY <2>1, <2>2
  <2>4. /\ SubSeq(disk[File], 1, fsize) \in Seq(Tokens)
        /\ IsPrefix(original[File], SubSeq(disk[File], 1, fsize))
        /\ fsize = Len(original[File]) => SubSeq(disk[File], 1, fsize) = original[File]
    BY <2>1, <2>2, <2>3, CutBack
  <2>5. /\ disk' \in [InputFiles -> Seq(Tokens)]
        /\ disk'[File] = SubSeq(disk[File], 1, fsize)
        /\ \A f \in InputFiles \ {File} : disk'[f] = disk[f]
    <3>1. disk \in [InputFiles -> Seq(Tokens)]
      BY DEF KeptInv
    <3> QED
      BY <1>4, <2>1, <2>4, <3>1
  <2>6. ASSUME NEW f \in InputFiles
        PROVE  Kept(original[f], disk'[f], ~mishap, FALSE)
    <3>1. CASE f = File
      BY <2>2, <2>4, <2>5, <3>1 DEF Kept
    <3>2. CASE f # File
      BY <1>1, <2>5, <3>2 DEF KeptInv, Kept
    <3> QED
      BY <3>1, <3>2
  <2>7. original \in [InputFiles -> Seq(Tokens)] /\ mishap' = mishap
    BY <1>4 DEF KeptInv
  <2>8. \A f \in InputFiles : Kept(original'[f], disk'[f], ~mishap', pc' \in {"reload", "rollback"} /\ f = File')
    BY <1>1, <2>6, <2>7 DEF Kept
  <2> QED
    BY <1>1, <1>2, <2>5, <2>7, <2>8 DEF KeptInv
<1> QED
  BY <1>3, <1>4 DEF Rollback

LEMMA KeptByOthers ==
  ASSUME KeptInv,
         WriteEvents \/ Finish \/ LoadTrace \/ HandleRequest \/ ServeMetrics \/ Killed
  PROVE  KeptInv'
<1>1. /\ UNCHANGED <<disk, original, args>> /\ i' \in {i, i + 1}
      /\ pc' \in {"file", "ended", "serve", "metrics", "failed"}
      /\ args \in Seq(InputFiles) /\ i \in Nat /\ 1 <= i
  BY DEF KeptInv, WriteEvents, Finish, LoadTrace, HandleRequest, ServeMetrics, Killed, inputs
<1>2. \/ UNCHANGED mishap /\ pc \notin {"reload", "rollback"}
      \/ mishap' = TRUE
  BY DEF WriteEvents, Finish, LoadTrace, HandleRequest, ServeMetrics, Killed, inputs
<1>3. i' \in Nat /\ 1 <= i'
  BY <1>1
<1> QED
  BY <1>1, <1>2, <1>3, FilesAsTheyAre

LEMMA KeptStep == KeptInv /\ [Next]_vars => KeptInv'
<1> SUFFICES ASSUME KeptInv, [Next]_vars PROVE KeptInv'
  OBVIOUS
<1>1. CASE Start("merge", Inputs, NoOptions)
  BY <1>1, InputAssumption, KeptByStart
<1>2. CASE \E f \in InputFiles, o \in Options : Start("view", <<f>>, o)
  <2>1. PICK f \in InputFiles, o \in Options : Start("view", <<f>>, o)
    BY <1>2
  <2>2. <<f>> \in Seq(InputFiles)
    OBVIOUS
  <2> QED
    BY <2>1, <2>2, KeptByStart
<1>3. CASE OpenFile
  BY <1>3, KeptByOpen
<1>4. CASE Validate
  BY <1>4, KeptByValidate
<1>5. CASE AddTags
  BY <1>5, KeptByTags
<1>6. CASE Reload
  BY <1>6, KeptByReload
<1>7. CASE Rollback
  BY <1>7, KeptByRollback
<1>8. CASE WriteEvents \/ Finish \/ LoadTrace \/ HandleRequest \/ ServeMetrics \/ Killed
  BY <1>8, KeptByOthers
<1>9. CASE UNCHANGED vars
  BY <1>9 DEF vars, inputs, KeptInv, File
<1> QED
  BY <1>1, <1>2, <1>3, <1>4, <1>5, <1>6, <1>7, <1>8, <1>9 DEF Next

\* No run of a script takes anything from an input or changes a complete one, in
\* whatever order runs succeed, fail or are killed; and what it cannot complete
\* it leaves as it was unless it is killed or cannot truncate.
THEOREM InputsKeptCorrect == Spec => []InputsKept
<1>1. KeptInv => InputsKept
  BY DEF KeptInv, Kept, InputsKept
<1> QED
  BY <1>1, KeptInit, KeptStep, PTL DEF Spec

--------------------------------------------------------------------------------
(* What can be read of a file, in whatever state the scripts left it.        *)

\* What the scripts make of an input: what it was, that with a footer, or
\* something with a footer that no footer makes a trace of.
Extended(was, is) ==
  \/ is = was
  \/ is = Append(was, Footer)
  \/ ~Loads(is) /\ ~IsTrace(Append(was, Footer)) /\ is[Len(is)] = Footer

ReadableOf(was) == EventsIn(IF Loads(was) THEN was ELSE Append(was, Footer))

FilesInv ==
  /\ KeptInv
  /\ \A f \in InputFiles : Extended(original[f], disk[f])
  /\ pc = "rollback" => ~Loads(disk[File])
  /\ pc \in {"reload", "rollback"} =>
       \E was \in Seq(Tokens) : /\ disk[File] = Append(was, Footer) /\ fsize = Len(was)
                                /\ ~Loads(was) /\ Extended(original[File], was)
  /\ pc = "write" => i <= Len(args) /\ Loads(disk[File]) /\ data = disk[File]

LEMMA TokensDiffer ==
  /\ Footer \in Tokens /\ Footer.kind # "event" /\ Footer # OtherJson /\ Footer # Header
BY DEF Tokens, Footer, OtherJson, Header, Token

\* After a footer nothing makes a trace of a file.
LEMMA TwoFooters ==
  ASSUME NEW s \in Seq(Tokens), Len(s) = 0 \/ s[Len(s)] = Footer
  PROVE  ~Loads(Append(s, Footer))
<1> DEFINE t == Append(s, Footer)
<1>1. /\ Len(s) \in Nat /\ t \in Seq(Tokens) /\ Len(t) = Len(s) + 1
      /\ \A n \in 1..Len(s) : t[n] = s[n]
      /\ t[Len(t)] = Footer
  BY LenProperties, AppendProperties, TokensDiffer
<1> HIDE DEF t
<1>2. ~IsTrace(t)
  <2> SUFFICES ASSUME IsTrace(t) PROVE FALSE
    OBVIOUS
  <2>1. Len(s) \in 2..(Len(t) - 1) /\ Len(s) \in 1..Len(s) /\ Len(s) # 0
    <3>1. Len(t) > 2
      BY DEF IsTrace
    <3> QED
      BY ONLY <1>1, <3>1
  <2>2. t[Len(s)].kind = "event"
    BY <2>1 DEF IsTrace
  <2> QED
    BY <1>1, <2>1, <2>2, TokensDiffer
<1>3. t # <<OtherJson>>
  <2> SUFFICES ASSUME t = <<OtherJson>> PROVE FALSE
    OBVIOUS
  <2>1. t[Len(t)] = OtherJson
    OBVIOUS
  <2> QED
    BY <1>1, <2>1, TokensDiffer
<1> QED
  BY <1>2, <1>3 DEF Loads, t

\* A footer more.
LEMMA FooterAdded ==
  ASSUME NEW was \in Seq(Tokens), NEW is \in Seq(Tokens), Extended(was, is), ~Loads(is)
  PROVE  Extended(was, Append(is, Footer))
<1>1. CASE is = was
  BY <1>1 DEF Extended
<1>2. CASE is = Append(was, Footer) \/ (~IsTrace(Append(was, Footer)) /\ is[Len(is)] = Footer)
  <2>1. ~IsTrace(Append(was, Footer)) /\ is[Len(is)] = Footer
    <3>1. Append(was, Footer)[Len(Append(was, Footer))] = Footer
      BY AppendProperties, TokensDiffer, LenProperties
    <3> QED
      BY <1>2, <3>1 DEF Loads
  <2>2. ~Loads(Append(is, Footer))
    BY <2>1, TwoFooters
  <2>3. Append(is, Footer)[Len(Append(is, Footer))] = Footer
    BY AppendProperties, TokensDiffer, LenProperties
  <2> QED
    BY <2>1, <2>2, <2>3 DEF Extended
<1> QED
  BY <1>1, <1>2 DEF Extended

\* What is read from a file is what can be read of it, in whatever state it is.
LEMMA ReadAll ==
  ASSUME NEW was, NEW is, Extended(was, is), Loads(was) => is = was, Loads(is)
  PROVE  EventsIn(is) = ReadableOf(was)
BY DEF Extended, ReadableOf

LEMMA ReadNone ==
  ASSUME NEW was, NEW is, Extended(was, is), ~Loads(was), ~Loads(is), ~Loads(Append(is, Footer))
  PROVE  ReadableOf(was) = <<>>
<1>1. ~IsTrace(Append(was, Footer))
  BY DEF Extended, Loads
<1> QED
  BY <1>1 DEF ReadableOf, EventsIn

LEMMA ReadEmpty ==
  ASSUME NEW was \in Seq(Tokens), NEW is \in Seq(Tokens), IsPrefix(was, is), Len(is) = 0
  PROVE  ReadableOf(was) = <<>>
<1>1. Len(was) = 0
  <2>1. Len(was) <= Len(is)
    BY Prefix
  <2>2. Len(was) \in Nat
    BY LenProperties
  <2> QED
    BY <2>1, <2>2
<1>2. ~Loads(Append(was, Footer)) /\ ~IsTrace(was)
  <2>1. ~Loads(Append(was, Footer))
    BY <1>1, TwoFooters
  <2>2. ~(0 > 2)
    OBVIOUS
  <2> QED
    BY <1>1, <2>1, <2>2 DEF IsTrace
<1>3. was # <<OtherJson>>
  BY <1>1
<1> QED
  BY <1>2, <1>3 DEF ReadableOf, EventsIn, Loads

LEMMA EventsType == ASSUME NEW c \in Seq(Tokens) PROVE EventsIn(c) \in Seq(Tokens)
<1>1. Len(c) \in Nat /\ \A n \in 2..(Len(c) - 1) : c[n] \in Tokens
  BY LenProperties, ElementOfSeq
<1>2. SubSeq(c, 2, Len(c) - 1) \in Seq(Tokens)
  BY <1>1, SubSeqProperties
<1> QED
  BY <1>2, EmptySeq DEF EventsIn

LEMMA ReadableType == ASSUME NEW c \in Seq(Tokens) PROVE ReadableOf(c) \in Seq(Tokens)
<1>1. Append(c, Footer) \in Seq(Tokens)
  BY AppendProperties, TokensDiffer
<1> QED
  BY <1>1, EventsType DEF ReadableOf

--------------------------------------------------------------------------------
LEMMA FilesInit == Init => FilesInv
<1> SUFFICES ASSUME Init PROVE FilesInv
  OBVIOUS
<1>1. disk = original /\ pc = "ended"
  BY DEF Init
<1> QED
  BY <1>1, KeptInit DEF FilesInv, Extended

\* A step that changes no file.
LEMMA FilesSame ==
  ASSUME FilesInv, KeptInv', UNCHANGED <<disk, original>>, pc' \notin {"reload", "rollback", "write"}
  PROVE  FilesInv'
<1>1. \A f \in InputFiles : Extended(original'[f], disk'[f])
  BY DEF FilesInv
<1> QED
  BY <1>1 DEF FilesInv

LEMMA FilesStep == FilesInv /\ [Next]_vars => FilesInv'
<1> SUFFICES ASSUME FilesInv, [Next]_vars PROVE FilesInv'
  OBVIOUS
<1>k. KeptInv /\ KeptInv'
  BY KeptStep DEF FilesInv
<1>1. CASE \/ Start("merge", Inputs, NoOptions)
           \/ \E f \in InputFiles, o \in Options : Start("view", <<f>>, o)
           \/ OpenFile \/ WriteEvents \/ Finish \/ LoadTrace \/ HandleRequest \/ ServeMetrics \/ Killed
  <2>1. UNCHANGED <<disk, original>>
    BY <1>1 DEF Start, OpenFile, WriteEvents, Finish, LoadTrace, HandleRequest, ServeMetrics, Killed, inputs
  <2>2. pc' \notin {"reload", "rollback", "write"}
    BY <1>1 DEF Start, OpenFile, Skip, WriteEvents, Finish, LoadTrace, HandleRequest, ServeMetrics, Killed
  <2> QED
    BY <1>k, <2>1, <2>2, FilesSame
<1>2. CASE Validate
  <2>1. /\ UNCHANGED <<disk, original, args, i>> /\ File' = File /\ pc = "validate"
        /\ IF Loads(disk[File]) THEN data' = disk[File] /\ pc' = "write" ELSE pc' = "tags"
    BY <1>2 DEF Validate, Load, inputs, File
  <2>2. i <= Len(args)
    BY <1>k, <2>1 DEF KeptInv
  <2> QED
    BY <1>k, <2>1, <2>2 DEF FilesInv
<1>3. CASE AddTags
  <2>1. /\ UNCHANGED <<original, fsize>> /\ File' = File /\ pc = "tags"
        /\ fsize = Len(disk[File]) /\ ~Loads(disk[File])
    BY <1>k, <1>3 DEF KeptInv, AddTags, File
  <2>2. File \in InputFiles /\ original[File] \in Seq(Tokens) /\ disk[File] \in Seq(Tokens)
    BY <1>k, <2>1, FileFacts
  <2>3. CASE disk' = [disk EXCEPT ![File] = Append(@, Footer)] /\ pc' = "reload"
    <3>1. /\ disk'[File] = Append(disk[File], Footer)
          /\ \A f \in InputFiles \ {File} : disk'[f] = disk[f]
      BY <1>k, <2>2, <2>3 DEF KeptInv
    <3>2. Extended(original[File], disk[File])
      BY <2>2 DEF FilesInv
    <3>3. Extended(original[File], Append(disk[File], Footer))
      BY <2>1, <2>2, <3>2, FooterAdded
    <3>4. \A f \in InputFiles : Extended(original[f], disk'[f])
      BY <3>1, <3>3 DEF FilesInv
    <3> QED
      BY <1>k, <2>1, <2>2, <2>3, <3>1, <3>2, <3>4 DEF FilesInv
  <2>4. CASE pc' = "failed" /\ UNCHANGED disk
    BY <1>k, <2>1, <2>4, FilesSame
  <2> QED
    BY <1>3, <2>3, <2>4 DEF AddTags
<1>4. CASE Reload
  <2>1. /\ UNCHANGED <<disk, original, args, i, fsize>> /\ File' = File /\ pc = "reload"
        /\ IF Loads(disk[File]) THEN data' = disk[File] /\ pc' = "write" ELSE pc' = "rollback"
    BY <1>4 DEF Reload, Load, inputs, File
  <2>2. i <= Len(args)
    BY <1>k, <2>1 DEF KeptInv
  <2> QED
    BY <1>k, <2>1, <2>2 DEF FilesInv
<1>5. CASE Rollback
  <2>1. original' = original /\ pc = "rollback" /\ pc' \in {"file", "failed"}
    BY <1>5 DEF Rollback, Skip
  <2>2. CASE UNCHANGED disk
    BY <1>k, <2>1, <2>2, FilesSame
  <2>3. CASE disk' = [disk EXCEPT ![File] = SubSeq(@, 1, fsize)]
    <3>1. File \in InputFiles /\ disk[File] \in Seq(Tokens)
      BY <1>k, <2>1, FileFacts
    <3>2. PICK was \in Seq(Tokens) : /\ disk[File] = Append(was, Footer) /\ fsize = Len(was)
                                     /\ Extended(original[File], was)
      BY <2>1 DEF FilesInv
    <3>3. SubSeq(Append(was, Footer), 1, Len(was)) = was
      <4>1. IsPrefix(was, was) /\ Len(was) \in Nat
        BY LenProperties, PrefixOfItself
      <4>2. /\ Append(was, Footer) \in Seq(Tokens) /\ IsPrefix(was, Append(was, Footer))
            /\ Len(was) <= Len(Append(was, Footer))
        <5>1. Len(was) = Len(Append(was, Footer)) - 1 /\ Append(was, Footer) \in Seq(Tokens)
              /\ IsPrefix(was, Append(was, Footer))
          BY <4>1, Completed, TokensDiffer
        <5>2. Len(Append(was, Footer)) \in Nat
          BY <5>1, LenProperties
        <5> QED
          BY <4>1, <5>1, <5>2
      <4> QED
        BY <4>1, <4>2, CutBack
    <3>4. disk'[File] = was /\ \A f \in InputFiles \ {File} : disk'[f] = disk[f]
      BY <1>k, <2>3, <3>1, <3>2, <3>3 DEF KeptInv
    <3>5. \A f \in InputFiles : Extended(original'[f], disk'[f])
      BY <2>1, <3>2, <3>4 DEF FilesInv
    <3> QED
      BY <1>k, <2>1, <3>5 DEF FilesInv
  <2> QED
    BY <1>5, <2>2, <2>3 DEF Rollback
<1>6. CASE UNCHANGED vars
  <2>1. UNCHANGED <<disk, original, pc, args, i, fsize, data>> /\ File' = File
    BY <1>6 DEF vars, inputs, File
  <2> QED
    BY <1>k, <2>1 DEF FilesInv
<1> QED
  BY <1>1, <1>2, <1>3, <1>4, <1>5, <1>6 DEF Next

--------------------------------------------------------------------------------
(* What the viewer serves.                                                 *)

ViewInv ==
  script = "view" =>
    /\ Len(args) = 1 /\ options \in Options
    /\ pc # "failed" => i = 1 /\ ~Refused(options)
    /\ pc \in {"file", "validate", "tags", "reload", "rollback", "write", "serve"} => out = <<>>
    /\ pc \in {"serve", "metrics", "ended"} => Loads(disk[File]) /\ out \in {<<>>, disk[File]}
    /\ pc = "ended" =>
         server = IF options.metrics = "none" THEN "none"
                  ELSE IF File \in Linked THEN "https" ELSE "http"

Pcs == {"file", "validate", "tags", "reload", "rollback", "write", "serve", "metrics", "ended", "failed"}
RunInv == script \in {"merge", "view"} /\ pc \in Pcs

LEMMA RunStep == RunInv /\ [Next]_vars => RunInv'
<1> SUFFICES ASSUME RunInv, [Next]_vars PROVE RunInv'
  OBVIOUS
<1>1. CASE Next
  <2>1. script' \in {"merge", "view"}
    BY <1>1 DEF RunInv, Next, Start, OpenFile, Validate, Load, AddTags, Reload, Rollback, WriteEvents,
                Finish, LoadTrace, HandleRequest, ServeMetrics, Killed
  <2>2. pc' \in Pcs
    BY <1>1 DEF Pcs, RunInv, Next, Start, OpenFile, Skip, Validate, Load, AddTags, Reload, Rollback, WriteEvents,
                Finish, LoadTrace, HandleRequest, ServeMetrics, Killed
  <2> QED
    BY <2>1, <2>2 DEF RunInv
<1>2. CASE UNCHANGED vars
  BY <1>2 DEF vars, RunInv
<1> QED
  BY <1>1, <1>2

LEMMA ViewStep == FilesInv /\ RunInv /\ ViewInv /\ [Next]_vars => ViewInv'
<1> SUFFICES ASSUME FilesInv, RunInv, ViewInv, [Next]_vars, script' = "view" PROVE ViewInv'
  BY DEF ViewInv
<1>1. CASE Start("merge", Inputs, NoOptions)
  BY <1>1 DEF Start
<1>2. CASE \E f \in InputFiles, o \in Options : Start("view", <<f>>, o)
  <2>1. PICK f \in InputFiles, o \in Options : Start("view", <<f>>, o)
    BY <1>2
  <2>2. /\ args' = <<f>> /\ options' = o /\ i' = 1 /\ out' = <<>>
        /\ pc' = IF Refused(o) THEN "failed" ELSE "file"
    BY <2>1 DEF Start
  <2>3. Len(<<f>>) = 1
    OBVIOUS
  <2> QED
    BY <2>2, <2>3 DEF ViewInv
<1>3. CASE UNCHANGED vars
  <2>1. UNCHANGED <<script, args, options, pc, i, out, disk, server>> /\ File' = File
    BY <1>3 DEF vars, inputs, view, File
  <2> QED
    BY <2>1 DEF ViewInv
<1>4. CASE ~Start("merge", Inputs, NoOptions) /\ ~(\E f \in InputFiles, o \in Options : Start("view", <<f>>, o)) /\ Next
  <2>1. script = "view" /\ UNCHANGED <<args, options>>
    BY <1>4 DEF Next, OpenFile, Validate, Load, AddTags, Reload, Rollback, WriteEvents,
                Finish, LoadTrace, HandleRequest, ServeMetrics, Killed, view
  <2>2. Len(args) = 1 /\ options \in Options
    BY <2>1 DEF ViewInv
  <2>3. CASE pc' = "failed"
    BY <2>1, <2>2, <2>3 DEF ViewInv
  <2>4. ASSUME pc' # "failed", UNCHANGED i, pc # "failed",
               pc' \in {"file", "validate", "tags", "reload", "rollback", "write", "serve"}, out' = <<>>,
               pc' = "serve" => Loads(disk'[File])
        PROVE  ViewInv'
    <3>1. File' = File
      BY <2>1, <2>4 DEF File
    <3>2. i = 1 /\ ~Refused(options)
      BY <2>1, <2>4 DEF ViewInv
    <3> QED
      BY <2>1, <2>2, <2>4, <3>1, <3>2 DEF ViewInv
  <2>5. CASE (OpenFile \/ Validate \/ AddTags \/ Reload \/ Rollback) /\ pc' # "failed"
    <3>1. /\ UNCHANGED i /\ pc \in {"file", "validate", "tags", "reload"} /\ out' = out
          /\ pc' \in {"file", "validate", "tags", "reload", "rollback", "write"}
      BY <2>1, <2>5 DEF OpenFile, Validate, Load, AddTags, Reload, Rollback, Skip
    <3>2. out = <<>>
      BY <2>1, <3>1 DEF ViewInv
    <3> QED
      BY <2>4, <2>5, <3>1, <3>2
  <2>6. CASE WriteEvents \/ Finish
    <3>1. Finish
      BY <2>1, <2>6 DEF WriteEvents
    <3>2. pc = "file" /\ i > Len(args)
      BY <3>1 DEF Finish
    <3>3. i = 1
      BY <2>1, <3>2 DEF ViewInv
    <3> QED
      BY <2>2, <3>2, <3>3
  <2>7. CASE LoadTrace /\ pc' # "failed"
    <3>1. pc = "write" /\ pc' = "serve" /\ UNCHANGED <<i, disk, out>>
      BY <2>7 DEF LoadTrace, inputs
    <3>2. Loads(disk[File]) /\ out = <<>>
      BY <2>1, <3>1 DEF FilesInv, ViewInv
    <3> QED
      BY <2>4, <2>7, <3>1, <3>2
  <2>8. CASE HandleRequest
    <3>1. /\ pc = "serve" /\ UNCHANGED <<i, disk>> /\ File' = File
          /\ \/ UNCHANGED <<out, pc>>
             \/ pc' = "metrics" /\ out' \in {disk[File], <<>>}
      BY <2>1, <2>8 DEF HandleRequest, inputs, File
    <3>2. i = 1 /\ ~Refused(options) /\ out = <<>> /\ Loads(disk[File])
      BY <2>1, <3>1 DEF ViewInv
    <3> QED
      BY <2>1, <2>2, <3>1, <3>2 DEF ViewInv
  <2>9. CASE ServeMetrics
    <3>1. /\ pc = "metrics" /\ pc' = "ended" /\ UNCHANGED <<i, disk, out>> /\ File' = File
          /\ server' = IF options.metrics = "none" THEN "none"
                       ELSE IF File \in Linked THEN "https" ELSE "http"
      BY <2>1, <2>9 DEF ServeMetrics, inputs, File
    <3>2. i = 1 /\ ~Refused(options) /\ out \in {<<>>, disk[File]} /\ Loads(disk[File])
      BY <2>1, <3>1 DEF ViewInv
    <3> QED
      BY <2>1, <2>2, <3>1, <3>2 DEF ViewInv
  <2>10. CASE Killed
    BY <2>3, <2>10 DEF Killed
  <2> QED
    BY <1>4, <2>3, <2>5, <2>6, <2>7, <2>8, <2>9, <2>10 DEF Next
<1> QED
  BY <1>1, <1>2, <1>3, <1>4

LEMMA ViewImplies == FilesInv /\ ViewInv => ViewServed
<1> SUFFICES ASSUME FilesInv, ViewInv, pc \in {"serve", "metrics", "ended"}, script = "view"
             PROVE  /\ Loads(disk[File]) /\ EventsIn(disk[File]) = Readable(File)
                    /\ out \in {<<>>, disk[File]}
                    /\ options.metrics \in {"none", "perf", "stall"}
                    /\ pc = "ended" =>
                         server = IF options.metrics = "none" THEN "none"
                                  ELSE IF args[1] \in Linked THEN "https" ELSE "http"
  BY DEF ViewServed
<1>1. /\ Len(args) = 1 /\ i = 1 /\ ~Refused(options) /\ options \in Options
      /\ Loads(disk[File]) /\ out \in {<<>>, disk[File]}
  BY DEF ViewInv
<1>2. File \in InputFiles /\ File = args[1]
  <2>1. args \in Seq(InputFiles) /\ 1 \in 1..Len(args)
    BY <1>1 DEF FilesInv, KeptInv
  <2> QED
    BY <1>1, <2>1, ElementOfSeq DEF File
<1>3. EventsIn(disk[File]) = Readable(File)
  <2>1. Extended(original[File], disk[File]) /\ (Loads(original[File]) => disk[File] = original[File])
    BY <1>2 DEF FilesInv, KeptInv, Kept
  <2>2. Readable(File) = ReadableOf(original[File])
    BY DEF Readable, ReadableOf
  <2> QED
    BY <1>1, <2>1, <2>2, ReadAll
<1>4. options.metrics \in {"none", "perf", "stall"}
  BY <1>1 DEF Refused, Options
<1>5. pc = "ended" => server = IF options.metrics = "none" THEN "none"
                               ELSE IF args[1] \in Linked THEN "https" ELSE "http"
  BY <1>2 DEF ViewInv
<1> QED
  BY <1>1, <1>3, <1>4, <1>5

LEMMA ViewInit == Init => FilesInv /\ RunInv /\ ViewInv
<1>1. Init => RunInv /\ ViewInv
  BY DEF Init, RunInv, ViewInv, Pcs
<1> QED
  BY <1>1, FilesInit

\* A browser gets the trace with all events that can be read of it, or nothing,
\* and the metrics server that follows is of the protocol that the links of the
\* trace have, whatever was done to the file by runs that failed or were killed.
THEOREM ViewCorrect == Spec => []ViewServed
<1>1. FilesInv /\ RunInv /\ ViewInv => ViewServed
  BY ViewImplies
<1> QED
  BY <1>1, ViewInit, FilesStep, RunStep, ViewStep, PTL DEF Spec

--------------------------------------------------------------------------------
(* What a merge writes.                                                    *)

Marks == {Token("open"), Token("bracket"), Token("comma"), Token("unbracket"), Token("close")}
Outs == Tokens \cup Marks
Before(k) == Token(IF k = 1 THEN "bracket" ELSE "comma")

\* The output after the events w, and after the end of the list.
Listed(o, w) ==
  /\ o \in Seq(Outs) /\ w \in Seq(Tokens) /\ Len(o) = 2 * Len(w) + 2
  /\ o[1] = Token("open")
  /\ \A k \in 1..(Len(w) + 1) : o[2 * k] = Before(k)
  /\ \A k \in 1..Len(w) : o[2 * k + 1] = w[k]
Closed(o, w) ==
  /\ Len(o) = 2 * Len(w) + 3
  /\ \A k \in 1..Len(w) : o[2 * k] = Before(k) /\ o[2 * k + 1] = w[k]
  /\ o[1] = Token("open")
  /\ o[Len(o) - 1] = Token("unbracket") /\ o[Len(o)] = Token("close")

LEMMA OddAndEven ==
  ASSUME NEW j \in Nat, j > 0
  PROVE  /\ (2 * j) % 2 = 0 /\ (2 * j - 1) % 2 = 1 /\ ((2 * j - 1) + 1) \div 2 = j
OBVIOUS

LEMMA SeparatedType ==
  ASSUME NEW e \in Seq(Tokens)
  PROVE  /\ Separated(e) \in Seq(Outs) /\ Len(Separated(e)) = 2 * Len(e)
         /\ \A j \in 1..Len(e) : Separated(e)[2 * j - 1] = e[j] /\ Separated(e)[2 * j] = Token("comma")
<1>1. Len(e) \in Nat /\ 2 * Len(e) \in Nat
  BY LenProperties
<1>2. ASSUME NEW n \in 1..(2 * Len(e)), n % 2 = 1 PROVE (n + 1) \div 2 \in 1..Len(e)
  BY <1>1, <1>2
<1>3. ASSUME NEW n \in 1..(2 * Len(e))
      PROVE  (IF n % 2 = 1 THEN e[(n + 1) \div 2] ELSE Token("comma")) \in Outs
  <2>1. n % 2 = 1 => e[(n + 1) \div 2] \in Tokens
    BY <1>2, ElementOfSeq
  <2> QED
    BY <2>1 DEF Outs, Marks
<1>4. Separated(e) \in [1..(2 * Len(e)) -> Outs]
  BY <1>3 DEF Separated
<1>5. Separated(e) \in Seq(Outs) /\ Len(Separated(e)) = 2 * Len(e)
  <2> HIDE DEF Separated
  <2>1. Separated(e) \in Seq(Outs)
    BY <1>1, <1>4, SeqDef
  <2>2. DOMAIN Separated(e) = 1..(2 * Len(e)) /\ DOMAIN Separated(e) = 1..Len(Separated(e))
        /\ Len(Separated(e)) \in Nat
    BY <1>4, <2>1, LenProperties
  <2> QED
    BY <1>1, <2>1, <2>2
<1>6. ASSUME NEW j \in 1..Len(e) PROVE Separated(e)[2 * j - 1] = e[j] /\ Separated(e)[2 * j] = Token("comma")
  <2>1. j \in Nat /\ j > 0 /\ 2 * j - 1 \in 1..(2 * Len(e)) /\ 2 * j \in 1..(2 * Len(e))
    BY <1>1
  <2>2. (2 * j) % 2 = 0 /\ (2 * j - 1) % 2 = 1 /\ ((2 * j - 1) + 1) \div 2 = j
    BY <2>1, OddAndEven
  <2> QED
    BY <2>1, <2>2 DEF Separated
<1> QED
  BY <1>5, <1>6

LEMMA ListedStart == Listed(<<Token("open"), Token("bracket")>>, <<>>)
<1> DEFINE a == Token("open")
           b == Token("bracket")
<1>1. a \in Outs /\ b \in Outs
  BY DEF Outs, Marks
<1> HIDE DEF a, b
<1>2. <<a, b>> \in Seq(Outs) /\ <<>> \in Seq(Tokens) /\ Len(<<a, b>>) = 2 /\ Len(<<>>) = 0
      /\ <<a, b>>[1] = a /\ <<a, b>>[2] = b
  BY <1>1
<1>3. 2 * 0 + 2 = 2 /\ 1..(0 + 1) = {1} /\ 2 * 1 = 2 /\ 1..0 = {}
  OBVIOUS
<1>4. a = Token("open") /\ b = Before(1)
  BY DEF a, b, Before
<1>5. Listed(<<a, b>>, <<>>)
  BY <1>2, <1>3, <1>4 DEF Listed
<1> QED
  BY <1>5 DEF a, b

LEMMA ListedMore ==
  ASSUME NEW o, NEW w, Listed(o, w), NEW e \in Seq(Tokens)
  PROVE  Listed(o \o Separated(e), w \o e)
<1> DEFINE s == Separated(e)
<1>1. /\ o \in Seq(Outs) /\ w \in Seq(Tokens) /\ s \in Seq(Outs)
      /\ Len(o) = 2 * Len(w) + 2 /\ Len(s) = 2 * Len(e) /\ Len(w) \in Nat /\ Len(e) \in Nat
      /\ \A j \in 1..Len(e) : s[2 * j - 1] = e[j] /\ s[2 * j] = Token("comma")
  BY SeparatedType, LenProperties DEF Listed
<1> HIDE DEF s
<1>2. /\ o \o s \in Seq(Outs) /\ w \o e \in Seq(Tokens)
      /\ Len(o \o s) = Len(o) + Len(s) /\ Len(w \o e) = Len(w) + Len(e)
      /\ \A n \in 1..(Len(o) + Len(s)) : (o \o s)[n] = IF n <= Len(o) THEN o[n] ELSE s[n - Len(o)]
      /\ \A n \in 1..(Len(w) + Len(e)) : (w \o e)[n] = IF n <= Len(w) THEN w[n] ELSE e[n - Len(w)]
  BY <1>1, ConcatProperties
<1> DEFINE os == o \o s
           we == w \o e
<1>3. Len(os) = 2 * Len(we) + 2
  BY <1>1, <1>2
<1>4. os[1] = Token("open")
  <2>1. 1 \in 1..(Len(o) + Len(s)) /\ 1 <= Len(o)
    BY <1>1
  <2> QED
    BY <1>2, <2>1 DEF Listed
<1>5. ASSUME NEW k \in 1..(Len(we) + 1) PROVE os[2 * k] = Before(k)
  <2>1. CASE k <= Len(w) + 1
    <3>1. 2 * k \in 1..(Len(o) + Len(s)) /\ 2 * k <= Len(o) /\ k \in 1..(Len(w) + 1)
      BY <1>1, <1>2, <2>1
    <3> QED
      BY <1>2, <3>1 DEF Listed
  <2>2. CASE ~(k <= Len(w) + 1)
    <3> DEFINE j == k - Len(w) - 1
    <3>1. /\ j \in 1..Len(e) /\ 2 * k \in 1..(Len(o) + Len(s)) /\ ~(2 * k <= Len(o))
          /\ 2 * k - Len(o) = 2 * j /\ k # 1
      BY <1>1, <1>2, <2>2
    <3>2. os[2 * k] = s[2 * j]
      BY <1>2, <3>1
    <3> QED
      BY <1>1, <3>1, <3>2 DEF Before
  <2> QED
    BY <2>1, <2>2
<1>6. ASSUME NEW k \in 1..Len(we) PROVE os[2 * k + 1] = we[k]
  <2>1. CASE k <= Len(w)
    <3>1. 2 * k + 1 \in 1..(Len(o) + Len(s)) /\ 2 * k + 1 <= Len(o) /\ k \in 1..Len(w)
          /\ k \in 1..(Len(w) + Len(e))
      BY <1>1, <1>2, <2>1
    <3> QED
      BY <1>2, <2>1, <3>1 DEF Listed
  <2>2. CASE ~(k <= Len(w))
    <3> DEFINE j == k - Len(w)
    <3>1. /\ j \in 1..Len(e) /\ 2 * k + 1 \in 1..(Len(o) + Len(s)) /\ ~(2 * k + 1 <= Len(o))
          /\ 2 * k + 1 - Len(o) = 2 * j - 1 /\ k \in 1..(Len(w) + Len(e))
      BY <1>1, <1>2, <2>2
    <3>2. os[2 * k + 1] = s[2 * j - 1] /\ we[k] = e[j]
      BY <1>2, <2>2, <3>1
    <3> QED
      BY <1>1, <3>1, <3>2
  <2> QED
    BY <2>1, <2>2
<1>7. Listed(os, we)
  <2> HIDE DEF os, we
  <2>1. os \in Seq(Outs) /\ we \in Seq(Tokens)
    BY <1>2 DEF os, we
  <2> QED
    BY <1>3, <1>4, <1>5, <1>6, <2>1 DEF Listed
<1> QED
  BY <1>7 DEF s

\* The bracket of an empty list is undone too.
LEMMA ListedEnd ==
  ASSUME NEW o, NEW w, Listed(o, w)
  PROVE  Closed(Front(o) \o <<Token("unbracket"), Token("close")>>, w)
<1> DEFINE a == Token("unbracket")
           b == Token("close")
           z == <<a, b>>
           h == Front(o)
<1>1. o \in Seq(Outs) /\ Len(o) = 2 * Len(w) + 2 /\ Len(w) \in Nat
  BY LenProperties DEF Listed
<1>2. z \in Seq(Outs) /\ Len(z) = 2 /\ z[1] = a /\ z[2] = b
  <2>1. a \in Outs /\ b \in Outs
    BY DEF Outs, Marks
  <2> HIDE DEF a, b
  <2> QED
    BY <2>1
<1>3. h \in Seq(Outs) /\ Len(h) = 2 * Len(w) + 1 /\ \A n \in 1..(2 * Len(w) + 1) : h[n] = o[n]
  <2>1. \A n \in 1..(Len(o) - 1) : o[n] \in Outs
    <3>1. \A n \in 1..(Len(o) - 1) : n \in 1..Len(o)
      BY <1>1
    <3> QED
      BY <1>1, <3>1, ElementOfSeq
  <2>2. /\ h \in Seq(Outs) /\ Len(h) = IF 1 <= Len(o) - 1 THEN Len(o) - 1 - 1 + 1 ELSE 0
        /\ \A n \in 1..(Len(o) - 1 - 1 + 1) : h[n] = o[1 + n - 1]
    <3>1. 1 \in Int /\ Len(o) - 1 \in Int
      BY <1>1
    <3> QED
      BY <2>1, <3>1, SubSeqProperties DEF Front
  <2>3. /\ 1 <= Len(o) - 1 /\ Len(o) - 1 - 1 + 1 = 2 * Len(w) + 1
        /\ \A n \in 1..(2 * Len(w) + 1) : 1 + n - 1 = n
    BY <1>1
  <2> HIDE DEF h
  <2> QED
    BY <2>2, <2>3
<1> HIDE DEF a, b, z, h
<1> DEFINE r == h \o z
<1>4. /\ Len(r) = 2 * Len(w) + 3
      /\ \A n \in 1..(2 * Len(w) + 1) : r[n] = o[n]
      /\ r[2 * Len(w) + 2] = a /\ r[2 * Len(w) + 3] = b
  <2>1. /\ Len(r) = Len(h) + Len(z)
        /\ \A n \in 1..(Len(h) + Len(z)) : r[n] = IF n <= Len(h) THEN h[n] ELSE z[n - Len(h)]
    BY <1>2, <1>3, ConcatProperties
  <2> HIDE DEF r
  <2>2. /\ \A n \in 1..(2 * Len(w) + 1) : n \in 1..(Len(h) + Len(z)) /\ n <= Len(h)
        /\ 2 * Len(w) + 2 \in 1..(Len(h) + Len(z)) /\ ~(2 * Len(w) + 2 <= Len(h)) /\ 2 * Len(w) + 2 - Len(h) = 1
        /\ 2 * Len(w) + 3 \in 1..(Len(h) + Len(z)) /\ ~(2 * Len(w) + 3 <= Len(h)) /\ 2 * Len(w) + 3 - Len(h) = 2
        /\ Len(h) + Len(z) = 2 * Len(w) + 3
    BY <1>1, <1>2, <1>3
  <2> QED
    BY <1>2, <1>3, <2>1, <2>2
<1> HIDE DEF r
<1>5. /\ 1 \in 1..(2 * Len(w) + 1)
      /\ \A k \in 1..Len(w) : /\ 2 * k \in 1..(2 * Len(w) + 1) /\ 2 * k + 1 \in 1..(2 * Len(w) + 1)
                              /\ k \in 1..(Len(w) + 1)
      /\ Len(r) - 1 = 2 * Len(w) + 2
  BY <1>1, <1>4
<1>6. Closed(r, w)
  BY <1>4, <1>5 DEF Listed, Closed, a, b
<1> QED
  BY <1>6 DEF r, h, z, a, b

\* The events to write, for each number of inputs.
Reads(was, w) ==
  /\ w[0] = <<>>
  /\ \A n \in 0..Len(Inputs) : w[n] \in Seq(Tokens)
  /\ \A n \in 1..Len(Inputs) : w[n] = w[n - 1] \o ReadableOf(was[Inputs[n]])

LEMMA InputsFacts ==
  /\ Inputs \in Seq(InputFiles) /\ Len(Inputs) \in Nat
  /\ \A n \in 1..Len(Inputs) : Inputs[n] \in InputFiles
<1>1. Inputs \in Seq(InputFiles)
  BY InputAssumption
<1> QED
  BY ONLY <1>1, LenProperties, ElementOfSeq

LEMMA WantedReads == ASSUME KeptInv PROVE Reads(original, WantedOf)
<1> DEFINE b == Len(Inputs)
           X == Seq(Tokens)
           R == [n \in 1..b |-> Readable(Inputs[n])]
           G == [p \in (1..b) \X X |-> p[2] \o R[p[1]]]
<1>1. b \in Nat /\ <<>> \in X
  BY InputsFacts, EmptySeq
<1>2. \A n \in 1..b : R[n] = ReadableOf(original[Inputs[n]]) /\ R[n] \in X
  <2> TAKE n \in 1..b
  <2>1. original[Inputs[n]] \in Seq(Tokens)
    BY InputsFacts DEF KeptInv
  <2>2. R[n] = ReadableOf(original[Inputs[n]])
    BY DEF Readable, ReadableOf
  <2> QED
    BY <2>1, <2>2, ReadableType
<1>3. /\ G \in [(1..b) \X X -> X]
      /\ \A n \in 1..b, x \in X : G[<<n, x>>] = x \o R[n]
  <2> HIDE DEF R, b
  <2>1. ASSUME NEW p \in (1..b) \X X PROVE p[2] \o R[p[1]] \in X
    <3>1. p[2] \in X /\ R[p[1]] \in X
      BY <1>2
    <3> QED
      BY <3>1, ConcatProperties
  <2>2. G \in [(1..b) \X X -> X]
    BY <2>1
  <2>3. ASSUME NEW n \in 1..b, NEW x \in X PROVE G[<<n, x>>] = x \o R[n]
    <3>1. <<n, x>> \in (1..b) \X X
      OBVIOUS
    <3> HIDE DEF X
    <3> QED
      BY <3>1
  <2> QED
    BY <2>2, <2>3
<1>4. PICK f \in [0..b -> X] : f[0] = <<>> /\ \A n \in 1..b : f[n] = G[<<n, f[n - 1]>>]
  <2>1. PICK f : Computes(f, X, <<>>, b, G)
    <3>1. G \in StepsOver(X, b)
      BY <1>3 DEF StepsOver
    <3> HIDE DEF b, X, G
    <3> QED
      BY <1>1, <3>1, Recursion
  <2> QED
    BY <2>1 DEF Computes
<1>5. WantedOf = [n \in 0..b |-> IF n = 0 THEN <<>> ELSE WantedOf[n - 1] \o Readable(Inputs[n])]
  <2> DEFINE V(g) == [n \in 0..b |-> IF n = 0 THEN <<>> ELSE g[n - 1] \o Readable(Inputs[n])]
  <2>1. f = V(f)
    <3>1. ASSUME NEW n \in 0..b PROVE f[n] = IF n = 0 THEN <<>> ELSE f[n - 1] \o Readable(Inputs[n])
      <4>1. CASE n = 0
        BY <1>4, <4>1
      <4>2. CASE n # 0
        <5>1. n \in 1..b /\ n - 1 \in 0..b
          BY <1>1, <4>2
        <5>2. f[n - 1] \in X /\ f[n] = G[<<n, f[n - 1]>>]
          BY <1>4, <5>1
        <5>3. f[n] = f[n - 1] \o R[n]
          <6> HIDE DEF G, R, X, b
          <6> QED
            BY <1>3, <5>1, <5>2
        <5> QED
          BY <4>2, <5>1, <5>3
      <4> QED
        BY <4>1, <4>2
    <3> HIDE DEF b, X
    <3> QED
      BY <1>4, <3>1
  <2>2. WantedOf = CHOOSE g : g = V(g)
    BY DEF WantedOf
  <2> HIDE DEF V
  <2>3. WantedOf = V(WantedOf)
    BY <2>1, <2>2
  <2> QED
    BY <2>3 DEF V
<1> HIDE DEF b
<1>6. WantedOf[0] = <<>> /\ \A n \in 1..b : WantedOf[n] = WantedOf[n - 1] \o R[n]
  <2>1. 0 \in 0..b /\ \A n \in 1..b : n \in 0..b /\ n # 0
    BY <1>1
  <2>2. \A n \in 1..b : R[n] = Readable(Inputs[n])
    OBVIOUS
  <2> HIDE DEF R
  <2> QED
    BY ONLY <1>5, <2>1, <2>2
<1>7. \A n \in 0..b : WantedOf[n] \in X
  <2> DEFINE S == {n \in Nat : WantedOf[n] \in X}
  <2> HIDE DEF R, X
  <2>1. 0 \in S
    BY <1>1, <1>6
  <2>2. ASSUME NEW n \in 0..(b - 1), n \in S PROVE n + 1 \in S
    <3>1. n + 1 \in 1..b /\ n + 1 - 1 = n /\ n + 1 \in Nat
      BY <1>1
    <3>2. WantedOf[n + 1] = WantedOf[n] \o R[n + 1] /\ R[n + 1] \in X /\ WantedOf[n] \in X
      <4>1. WantedOf[n + 1] = WantedOf[n + 1 - 1] \o R[n + 1] /\ R[n + 1] \in X
        <5> DEFINE d == n + 1
        <5>1. d \in 1..b
          BY <3>1
        <5> HIDE DEF d
        <5>2. WantedOf[d] = WantedOf[d - 1] \o R[d] /\ R[d] \in X
          BY <1>2, <1>6, <5>1
        <5> QED
          BY <5>2 DEF d
      <4>2. WantedOf[n + 1 - 1] = WantedOf[n]
        BY ONLY <3>1
      <4>3. WantedOf[n] \in X
        BY <2>2
      <4> QED
        BY <4>1, <4>2, <4>3
    <3>3. WantedOf[n + 1] \in X
      BY <3>2, ConcatProperties DEF X
    <3> QED
      BY <3>1, <3>3
  <2>3. 0..b \subseteq S
    <3> HIDE DEF S
    <3> QED
      BY <1>1, <2>1, <2>2, UpTo
  <2> QED
    BY <2>3
<1> QED
  BY <1>2, <1>6, <1>7 DEF Reads, b

--------------------------------------------------------------------------------
MergeInv ==
  /\ runs \in Nat
  /\ runs = 0 => pc = "ended"
  /\ script = "merge" /\ runs > 0 /\ pc # "failed" =>
       /\ args = Inputs /\ pc \notin {"serve", "metrics"}
       /\ pc # "ended" => /\ i <= Len(Inputs) + 1
                          /\ \A w : Reads(original, w) => Listed(out, w[i - 1])
       /\ pc = "ended" => \A w : Reads(original, w) => Closed(out, w[Len(Inputs)])

LEMMA MergeInit == Init => MergeInv
BY DEF Init, MergeInv

\* One input more.
LEMMA OneMore ==
  ASSUME FilesInv, i \in 1..Len(Inputs), args = Inputs, NEW e, NEW o,
         \A w : Reads(original, w) => Listed(out, w[i - 1]),
         e = ReadableOf(original[File]), o = out \o Separated(e)
  PROVE  \A w : Reads(original, w) => Listed(o, w[i])
<1> SUFFICES ASSUME NEW w, Reads(original, w) PROVE Listed(o, w[i])
  OBVIOUS
<1>1. w[i] = w[i - 1] \o e
  BY DEF Reads, File
<1>2. Listed(out, w[i - 1])
  OBVIOUS
<1>3. e \in Seq(Tokens)
  <2>1. File \in InputFiles
    BY InputsFacts DEF File
  <2>2. original[File] \in Seq(Tokens)
    BY <2>1 DEF FilesInv, KeptInv
  <2> QED
    BY <2>2, ReadableType
<1> QED
  BY <1>1, <1>2, <1>3, ListedMore

\* And one that nothing can be read of.
LEMMA OneLess ==
  ASSUME FilesInv, i \in 1..Len(Inputs), args = Inputs,
         \A w : Reads(original, w) => Listed(out, w[i - 1]),
         ReadableOf(original[File]) = <<>>
  PROVE  \A w : Reads(original, w) => Listed(out, w[i])
<1> SUFFICES ASSUME NEW w, Reads(original, w) PROVE Listed(out, w[i])
  OBVIOUS
<1>1. w[i] = w[i - 1] \o <<>> /\ w[i - 1] \in Seq(Tokens)
  <2>1. i - 1 \in 0..Len(Inputs)
    BY InputsFacts
  <2> QED
    BY <2>1 DEF Reads, File
<1>2. w[i] = w[i - 1]
  BY <1>1, ConcatEmptySeq
<1> QED
  BY <1>2

LEMMA MergeStep == FilesInv /\ FilesInv' /\ RunInv /\ MergeInv /\ [Next]_vars => MergeInv'
<1> SUFFICES ASSUME FilesInv, FilesInv', RunInv, MergeInv, [Next]_vars PROVE MergeInv'
  OBVIOUS
<1>k. KeptInv
  BY DEF FilesInv
<1>1. CASE Start("merge", Inputs, NoOptions)
  <2>1. /\ args' = Inputs /\ i' = 1 /\ out' = <<Token("open"), Token("bracket")>>
        /\ pc' \in {"failed", "file"} /\ runs' = runs + 1 /\ original' = original
    BY <1>1 DEF Start, inputs
  <2>2. runs \in Nat /\ runs' \in Nat /\ runs' # 0
    BY <2>1 DEF MergeInv
  <2>3. i' <= Len(Inputs) + 1 /\ i' - 1 = 0
    BY <2>1, InputsFacts
  <2>4. ASSUME NEW w, Reads(original', w) PROVE Listed(out', w[i' - 1])
    <3>1. w[i' - 1] = <<>>
      BY <2>3, <2>4 DEF Reads
    <3> QED
      BY <2>1, <3>1, ListedStart
  <2> QED
    BY <2>1, <2>2, <2>3, <2>4 DEF MergeInv
<1>2. CASE \E f \in InputFiles, o \in Options : Start("view", <<f>>, o)
  <2>1. script' = "view" /\ runs' = runs + 1
    BY <1>2 DEF Start
  <2>2. runs' \in Nat /\ runs' # 0
    BY <2>1 DEF MergeInv
  <2> QED
    BY <2>1, <2>2 DEF MergeInv
<1>3. CASE UNCHANGED vars
  BY <1>3 DEF vars, inputs, MergeInv
<1>4. CASE /\ OpenFile \/ Validate \/ AddTags \/ Reload \/ Rollback \/ WriteEvents \/ Finish
              \/ LoadTrace \/ HandleRequest \/ ServeMetrics \/ Killed
  <2>1. UNCHANGED <<script, args, original, runs>> /\ pc # "ended"
    BY <1>4 DEF OpenFile, Validate, Load, AddTags, Reload, Rollback, WriteEvents, Finish, LoadTrace,
                HandleRequest, ServeMetrics, Killed, inputs
  <2>2. runs \in Nat /\ runs # 0 /\ runs > 0
    BY <2>1 DEF MergeInv
  <2>3. ASSUME script = "merge", pc' # "failed" PROVE pc # "failed"
    BY <1>4, <2>3 DEF OpenFile, Validate, Load, AddTags, Reload, Rollback, WriteEvents, Finish, LoadTrace,
                HandleRequest, ServeMetrics, Killed
  <2> SUFFICES ASSUME script = "merge", pc' # "failed"
               PROVE  /\ pc' \notin {"serve", "metrics"}
                      /\ pc' # "ended" => /\ i' <= Len(Inputs) + 1
                                          /\ \A w : Reads(original, w) => Listed(out', w[i' - 1])
                      /\ pc' = "ended" => \A w : Reads(original, w) => Closed(out', w[Len(Inputs)])
    <3>1. script' = "merge" /\ runs' > 0 /\ pc' # "failed" => args' = Inputs
      BY <2>1, <2>2, <2>3 DEF MergeInv
    <3> QED
      BY <2>1, <2>2, <3>1 DEF MergeInv
  <2>4. /\ args = Inputs /\ pc \notin {"serve", "metrics", "failed"} /\ i <= Len(Inputs) + 1
        /\ \A w : Reads(original, w) => Listed(out, w[i - 1])
    BY <2>1, <2>2, <2>3 DEF MergeInv
  <2>5. i \in Nat /\ 1 <= i /\ Len(Inputs) \in Nat
    BY <1>k, InputsFacts DEF KeptInv
  <2>6. ASSUME i' = i, out' = out, pc' \notin {"serve", "metrics", "ended"} 
        PROVE  /\ pc' \notin {"serve", "metrics"}
               /\ pc' # "ended" => /\ i' <= Len(Inputs) + 1
                                   /\ \A w : Reads(original, w) => Listed(out', w[i' - 1])
               /\ pc' = "ended" => \A w : Reads(original, w) => Closed(out', w[Len(Inputs)])
    BY <2>4, <2>6
  <2>7. ASSUME i \in 1..Len(Inputs), i' = i + 1, pc' = "file", \A w : Reads(original, w) => Listed(out', w[i])
        PROVE  /\ pc' \notin {"serve", "metrics"}
               /\ pc' # "ended" => /\ i' <= Len(Inputs) + 1
                                   /\ \A w : Reads(original, w) => Listed(out', w[i' - 1])
               /\ pc' = "ended" => \A w : Reads(original, w) => Closed(out', w[Len(Inputs)])
    <3>1. i' <= Len(Inputs) + 1 /\ i' - 1 = i
      BY <2>7
    <3> QED
      BY <2>7, <3>1
  <2>8. CASE OpenFile
    <3>1. i <= Len(Inputs) /\ out' = out /\ pc = "file" /\ fsize' = Len(disk[File])
      BY <2>4, <2>8 DEF OpenFile
    <3>2. i \in 1..Len(Inputs)
      BY <2>5, <3>1
    <3>3. CASE fsize' = 0
      <4>1. i' = i + 1 /\ pc' = "file"
        BY <2>8, <3>3 DEF OpenFile, Skip
      <4>2. File \in InputFiles
        BY <2>4, <3>2, InputsFacts DEF File
      <4>3. /\ original[File] \in Seq(Tokens) /\ disk[File] \in Seq(Tokens)
            /\ IsPrefix(original[File], disk[File])
        BY <1>k, <4>2 DEF KeptInv, Kept
      <4>4. ReadableOf(original[File]) = <<>>
        BY <3>1, <3>3, <4>3, ReadEmpty
      <4>5. \A w : Reads(original, w) => Listed(out', w[i])
        BY <2>4, <3>1, <3>2, <4>4, OneLess
      <4> QED
        BY <2>7, <3>2, <4>1, <4>5
    <3>4. CASE fsize' # 0
      BY <2>6, <2>8, <3>1, <3>4 DEF OpenFile
    <3> QED
      BY <3>3, <3>4
  <2>9. CASE Validate \/ AddTags \/ Reload
    BY <2>6, <2>9 DEF Validate, Load, AddTags, Reload
  <2>10. CASE Rollback
    <3>1. i' = i + 1 /\ pc' = "file" /\ out' = out /\ pc = "rollback"
      BY <2>10 DEF Rollback, Skip
    <3>2. i \in 1..Len(Inputs)
      <4>1. i <= Len(args)
        BY <1>k, <3>1 DEF KeptInv
      <4> QED
        BY <2>4, <2>5, <4>1
    <3>3. ReadableOf(original[File]) = <<>>
      <4>1. PICK was \in Seq(Tokens) : /\ disk[File] = Append(was, Footer)
                                       /\ ~Loads(was) /\ Extended(original[File], was)
        BY <3>1 DEF FilesInv
      <4>2. ~Loads(disk[File]) /\ ~Loads(original[File])
        BY <3>1 DEF FilesInv, KeptInv
      <4> QED
        BY <4>1, <4>2, ReadNone
    <3>4. \A w : Reads(original, w) => Listed(out', w[i])
      BY <2>4, <3>1, <3>2, <3>3, OneLess
    <3> QED
      BY <2>7, <3>1, <3>2, <3>4
  <2>11. CASE WriteEvents
    <3>1. i' = i + 1 /\ pc' = "file" /\ out' = out \o Separated(EventsIn(data)) /\ pc = "write"
      BY <2>11 DEF WriteEvents
    <3>2. i <= Len(args) /\ Loads(disk[File]) /\ data = disk[File]
      BY <3>1 DEF FilesInv
    <3>3. i \in 1..Len(Inputs)
      BY <2>4, <2>5, <3>2
    <3>4. EventsIn(data) = ReadableOf(original[File])
      <4>1. File \in InputFiles
        BY <2>4, <3>3, InputsFacts DEF File
      <4>2. Extended(original[File], disk[File]) /\ (Loads(original[File]) => disk[File] = original[File])
        BY <1>k, <4>1 DEF FilesInv, KeptInv, Kept
      <4> QED
        BY <3>2, <4>2, ReadAll
    <3>5. \A w : Reads(original, w) => Listed(out', w[i])
      BY <2>4, <3>1, <3>3, <3>4, OneMore
    <3> QED
      BY <2>7, <3>1, <3>3, <3>5
  <2>12. CASE Finish
    <3>1. /\ i > Len(Inputs) /\ pc' = "ended"
          /\ out' = Front(out) \o <<Token("unbracket"), Token("close")>>
      BY <2>4, <2>12 DEF Finish
    <3>2. i - 1 = Len(Inputs)
      BY <2>4, <2>5, <3>1
    <3>3. ASSUME NEW w, Reads(original, w) PROVE Closed(out', w[Len(Inputs)])
      BY <2>4, <3>1, <3>2, <3>3, ListedEnd
    <3> QED
      BY <3>1, <3>3
  <2>13. CASE LoadTrace \/ HandleRequest \/ ServeMetrics \/ Killed
    BY <2>4, <2>13 DEF LoadTrace, HandleRequest, ServeMetrics, Killed
  <2> QED
    BY <1>4, <2>8, <2>9, <2>10, <2>11, <2>12, <2>13
<1> QED
  BY <1>1, <1>2, <1>3, <1>4 DEF Next

LEMMA MergeImplies == FilesInv /\ MergeInv => MergedOnce
<1> SUFFICES ASSUME FilesInv, MergeInv, pc = "ended", runs > 0, script = "merge"
             PROVE  /\ Len(out) = 2 * Len(Wanted) + 3
                    /\ \A k \in 1..Len(Wanted) :
                         /\ out[2 * k] = Token(IF k = 1 THEN "bracket" ELSE "comma")
                         /\ out[2 * k + 1] = Wanted[k]
                    /\ out[1] = Token("open")
                    /\ out[Len(out) - 1] = Token("unbracket") /\ out[Len(out)] = Token("close")
  BY DEF MergedOnce
<1>1. Reads(original, WantedOf)
  BY WantedReads DEF FilesInv
<1>2. Closed(out, Wanted)
  BY <1>1 DEF MergeInv, Wanted
<1> QED
  BY <1>2 DEF Closed, Before

\* A merge that ends has written every event that can be read of its inputs once
\* and in order, between brackets and with separators between them, for any
\* number of inputs, whatever earlier runs did to them and however those ended.
THEOREM MergedCorrect == Spec => []MergedOnce
<1>1. FilesInv /\ MergeInv => MergedOnce
  BY MergeImplies
<1>2. Init => FilesInv /\ RunInv /\ MergeInv
  BY ViewInit, MergeInit
<1> QED
  BY <1>1, <1>2, FilesStep, RunStep, MergeStep, PTL DEF Spec
================================================================================
