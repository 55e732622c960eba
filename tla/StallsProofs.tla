------------------------------ MODULE StallsProofs -----------------------------
(***************************************************************************)
(* Proofs about Stalls.tla, for kernels of any size, any number of stalls  *)
(* and any layout of the report: what the search for the causes of a stall *)
(* finds and whose source lines it gives, and what the report has.         *)
(***************************************************************************)
EXTENDS Stalls, NatLemmas, SequenceTheorems, FiniteSetTheorems, TLAPS

--------------------------------------------------------------------------------
(* The invariants.                                                         *)

Waits == Tokens(Item(Position))
ReportLine == {Text, Blank} \cup ({"code", "stalled"} \X Positions(program))

Typed ==
  /\ program \in Programs
  /\ type \in DOMAIN program.stalls
  /\ row \in 0..Len(program.stalls[type])
  /\ bound \in BOOLEAN
  /\ pc \in {"next", "search", "found", "pages", "ended", "failed"}
  /\ Searching => type = 1 /\ row > 0 /\ Position # Nowhere
  /\ report \in Seq(ReportLine)

\* What has been found of the tokens that are waited for, and where.
Found ==
  /\ sbids_stalled \in Seq(ToSet(Waits))
  /\ \A m, n \in DOMAIN sbids_stalled : sbids_stalled[m] = sbids_stalled[n] => m = n
  /\ stall \in Seq(Before(Position))
  /\ \A k \in DOMAIN stall : \E t \in ToSet(Waits) : SetsAt(stall[k], t)
  /\ \A t \in ToSet(Waits) \ ToSet(sbids_stalled) : \E q \in Before(Position) : SetsAt(q, t)
  /\ Len(stall) + Len(sbids_stalled) = Len(Waits)

\* Nothing that an entry of the list has below a place sets a token that is still
\* looked for.
Passed(entry, n) ==
  \A m \in (n + 1)..entry[3] : \A t \in ToSet(sbids_stalled) : ~SetsAt(<<entry[1], m>>, t)
IsListed(c) == \E m \in 2..Len(bbs_to_check) : bbs_to_check[m] = WholeBlock(c)

\* The list: the part of the block that is above the stall, then whole blocks that
\* are ahead of it; those that lead to a block that was checked are listed.
ToCheck ==
  /\ bbs_to_check \in Seq((DOMAIN program.blocks) \X {1} \X Nat) /\ bbs_to_check # <<>>
  /\ bbs_to_check[1] = <<Position[1], 1, Position[2] - 1>>
  /\ \A i \in 2..Len(bbs_to_check) : \E c \in Ahead(Position[1]) : bbs_to_check[i] = WholeBlock(c)
Checked ==
  /\ j \in 0..Len(bbs_to_check)
  /\ \A i \in 1..j : /\ Passed(bbs_to_check[i], 0)
                     /\ \A c \in ToSet(Preds(bbs_to_check[i][1])) : IsListed(c)
  /\ Searching /\ j < Len(bbs_to_check) =>
       /\ place \in 0..bbs_to_check[j + 1][3]
       /\ Passed(bbs_to_check[j + 1], place)
  /\ Searching /\ j = Len(bbs_to_check) => place = 0
  /\ pc = "found" => j < Len(bbs_to_check) /\ sbids_stalled = <<>>
  /\ ~Searching => sbids_stalled = <<>> \/ j = Len(bbs_to_check)

Where(p) == IF p = Nowhere THEN Position ELSE p
NoneBetween(kind, p, n) == \A m \in 1..(p[2] - 1) : n <= m => Item(<<p[1], m>>).kind # kind

\* What has no comment yet: the comment is looked for in the block where it is, or
\* there is none there.
Near(kind, p) ==
  LET from == IF pc = "found" THEN place ELSE place + 1
  IN /\ j < Len(bbs_to_check)
     /\ p[1] = bbs_to_check[j + 1][1] /\ from <= p[2] /\ NoneBetween(kind, p, from)
Far(kind, p) == j > 0 /\ NoneBetween(kind, p, 1)

Closest(kind, p) ==
  \/ source[kind][p] = Above(kind, Where(p))
  \/ j > 0 /\ Above(kind, Where(p))[1] # Where(p)[1]

Sourced ==
  /\ DOMAIN source = Kinds /\ DOMAIN unresolved = Kinds
  /\ \A kind \in Kinds :
       /\ DOMAIN source[kind] \cup unresolved[kind] = ToSet(stall) \cup {Nowhere}
       /\ \A p \in DOMAIN source[kind] : source[kind][p] \in Positions(program) /\ Closest(kind, p)
       /\ Searching => \A p \in unresolved[kind] : Near(kind, Where(p)) \/ Far(kind, Where(p))
       /\ ~Searching /\ j = 0 /\ sbids_stalled = <<>> /\ SourceAvailable =>
            \A p \in unresolved[kind] : Above(kind, Where(p)) = Nowhere

Named == ~Searching => \A k \in DOMAIN stall : Code(stall[k]) \in ToSet(report)

SearchInv == Searched => Found /\ ToCheck /\ Checked /\ Sourced /\ Named

All == FlattenSeq([t \in 1..type |-> Located(t)])
StalledLines(all) == [k \in DOMAIN all |-> <<"stalled", all[k]>>]

ReportInv ==
  /\ pc = "failed" => ~SourceAvailable /\ Located(1) = <<>>
  /\ ~bound => Reported = <<>> /\ (pc # "failed" => \A t \in 1..type : Located(t) = <<>>)
  /\ pc = "failed" => ~bound
  /\ Searching => bound
  /\ pc \in {"next", "pages", "ended"} => Reported = StalledLines(All)
  /\ Searching => Append(Reported, <<"stalled", Position>>) = StalledLines(All)

\* Of a line, m - 1 pieces are on pages, and all of the lines before it.
PutUpTo(m) ==
  /\ put < Len(report) /\ m > 1 => m <= Len(Pieces(put + 1))
  /\ put = Len(report) => m = 1
  /\ cut = line_width * (m - 1)
  /\ FlattenSeq(Append(pages, page)) =
       FlattenSeq([k \in 1..put |-> Pieces(k)]) \o [n \in 1..(m - 1) |-> <<put + 1, line_width * (n - 1)>>]

PagesInv ==
  /\ pages \in Seq(Seq(Nat \X Nat)) /\ page \in Seq(Nat \X Nat)
  /\ Len(page) < page_size
  /\ pc # "ended" => \A k \in DOMAIN pages : Len(pages[k]) = page_size
  /\ pc \notin {"pages", "ended"} => pages = <<>> /\ page = <<>> /\ put = 0 /\ cut = 0
  /\ pc = "pages" => put \in 0..Len(report) /\ \E m \in Nat \ {0} : PutUpTo(m)
  /\ pc = "ended" =>
       /\ FlattenSeq(pages) = FlattenSeq([k \in DOMAIN report |-> Pieces(k)])
       /\ \A k \in DOMAIN pages : Len(pages[k]) \in 1..page_size
       /\ \A k \in 1..(Len(pages) - 1) : Len(pages[k]) = page_size

StallInv == Typed /\ SearchInv /\ ReportInv /\ PagesInv

--------------------------------------------------------------------------------
(* The members of a sequence that are in a set.                            *)

Keeps(g, s, S) ==
  g = [n \in 0..Len(s) |-> IF n = 0 THEN <<>> ELSE IF s[n] \in S THEN Append(g[n - 1], s[n]) ELSE g[n - 1]]

\* What Those goes through.
KeptUpTo(g, s, S, X) ==
  /\ g \in [0..Len(s) -> Seq(X)] /\ g[0] = <<>> /\ Those(s, S) = g[Len(s)]
  /\ \A n \in 1..Len(s) : g[n] = IF s[n] \in S THEN Append(g[n - 1], s[n]) ELSE g[n - 1]

LEMMA ThoseUpTo ==
  ASSUME NEW X, NEW s \in Seq(X), NEW S
  PROVE  \E g : KeptUpTo(g, s, S, X)
<1> DEFINE b == Len(s)
           step(n, q) == IF s[n] \in S THEN Append(q, s[n]) ELSE q
           G == [p \in (1..b) \X Seq(X) |-> step(p[1], p[2])]
<1>1. b \in Nat /\ \A n \in 1..b : s[n] \in X
  BY LenProperties, ElementOfSeq
<1>2. G \in StepsOver(Seq(X), b)
  <2>1. ASSUME NEW p \in (1..b) \X Seq(X) PROVE step(p[1], p[2]) \in Seq(X)
    <3>1. p[1] \in 1..b /\ p[2] \in Seq(X)
      OBVIOUS
    <3>2. s[p[1]] \in X
      BY <1>1, <3>1
    <3> QED
      BY <3>1, <3>2, AppendProperties
  <2> QED
    BY <2>1 DEF StepsOver
<1>3. PICK f : Computes(f, Seq(X), <<>>, b, G)
  <2>1. <<>> \in Seq(X)
    OBVIOUS
  <2> HIDE DEF G, b
  <2> QED
    BY <1>1, <1>2, <2>1, Recursion
<1>4. f \in [0..b -> Seq(X)] /\ f[0] = <<>> /\ \A n \in 1..b : f[n] = step(n, f[n - 1])
  <2>1. f \in [0..b -> Seq(X)] /\ f[0] = <<>> /\ \A n \in 1..b : f[n] = G[<<n, f[n - 1]>>]
    BY <1>3 DEF Computes
  <2>2. ASSUME NEW n \in 1..b PROVE f[n] = step(n, f[n - 1])
    <3>1. n - 1 \in 0..b
      BY <1>1
    <3>2. <<n, f[n - 1]>> \in (1..b) \X Seq(X)
      BY <2>1, <3>1
    <3> QED
      BY <2>1, <3>2
  <2> QED
    BY <2>1, <2>2
<1>5. Keeps(f, s, S)
  <2>1. \A n \in 0..b : n = 0 \/ n \in 1..b
    BY <1>1
  <2>2. f = [n \in 0..b |-> IF n = 0 THEN <<>> ELSE step(n, f[n - 1])]
    BY <1>4, <2>1
  <2> QED
    BY <2>2 DEF Keeps
<1> DEFINE g == CHOOSE g : Keeps(g, s, S)
<1>6. Keeps(g, s, S)
  BY <1>5
<1>7. Those(s, S) = g[b]
  BY DEF Those, Keeps
<1> HIDE DEF g
<1>8. /\ g[0] = <<>>
      /\ \A n \in 1..b : g[n] = step(n, g[n - 1])
  <2>1. 0 \in 0..b /\ \A n \in 1..b : n \in 0..b /\ n # 0
    BY <1>1
  <2> QED
    BY <1>6, <2>1 DEF Keeps
<1> DEFINE T == {n \in 0..b : g[n] \in Seq(X)}
<1>9. 0 \in T
  <2>1. <<>> \in Seq(X) /\ 0 \in 0..b
    BY <1>1, EmptySeq
  <2> QED
    BY <1>8, <2>1
<1>10. ASSUME NEW n \in 0..(b - 1), n \in T PROVE n + 1 \in T
  <2> DEFINE d == n + 1
  <2>1. d \in 1..b /\ d \in 0..b /\ d - 1 = n
    BY <1>1
  <2> HIDE DEF d
  <2>2. g[d] = step(d, g[n]) /\ s[d] \in X /\ g[n] \in Seq(X)
    BY <1>1, <1>8, <1>10, <2>1
  <2>3. g[d] \in Seq(X)
    BY <2>2, AppendProperties
  <2> QED
    BY <2>1, <2>3 DEF d
<1>11. 0..b \subseteq T
  <2> HIDE DEF T, b
  <2> QED
    BY <1>1, <1>9, <1>10, UpTo
<1>12. g \in [0..b -> Seq(X)]
  BY <1>6, <1>11 DEF Keeps
<1> QED
  BY <1>7, <1>8, <1>12 DEF KeptUpTo

LEMMA ThoseTyped ==
  ASSUME NEW X, NEW s \in Seq(X), NEW S
  PROVE  Those(s, S) \in Seq(X)
<1>1. PICK g : KeptUpTo(g, s, S, X)
  BY ThoseUpTo
<1>2. Len(s) \in 0..Len(s)
  BY LenProperties
<1> QED
  BY <1>1, <1>2 DEF KeptUpTo

LEMMA ThoseIn ==
  ASSUME NEW X, NEW s \in Seq(X), NEW S
  PROVE  Those(s, S) \in Seq(S)
<1> DEFINE N == Len(s)
<1>1. N \in Nat
  BY LenProperties
<1>2. PICK g : KeptUpTo(g, s, S, X)
  BY ThoseUpTo
<1> DEFINE T == {n \in 0..N : g[n] \in Seq(S)}
<1>3. 0 \in T
  BY <1>1, <1>2, EmptySeq DEF KeptUpTo
<1>4. ASSUME NEW n \in 0..(N - 1), n \in T PROVE n + 1 \in T
  <2> DEFINE d == n + 1
  <2>1. d \in 1..N /\ d \in 0..N /\ d - 1 = n
    BY <1>1
  <2> HIDE DEF d
  <2>2. g[d] = (IF s[d] \in S THEN Append(g[n], s[d]) ELSE g[n]) /\ g[n] \in Seq(S)
    BY <1>1, <1>2, <1>4, <2>1 DEF KeptUpTo
  <2>3. g[d] \in Seq(S)
    BY <2>2, AppendProperties
  <2> QED
    BY <2>1, <2>3 DEF d
<1>5. 0..N \subseteq T
  <2> HIDE DEF T, N
  <2> QED
    BY <1>1, <1>3, <1>4, UpTo
<1> QED
  BY <1>1, <1>2, <1>5 DEF KeptUpTo

\* Those of two sequences, one behind the other.
LEMMA ThoseJoin ==
  ASSUME NEW X, NEW s \in Seq(X), NEW t \in Seq(X), NEW S
  PROVE  Those(s \o t, S) = Those(s, S) \o Those(t, S)
<1> DEFINE r == s \o t
           M == Len(s)
           N == Len(t)
<1>1. /\ r \in Seq(X) /\ M \in Nat /\ N \in Nat /\ Len(r) = M + N
      /\ \A n \in 1..M : r[n] = s[n]
      /\ \A n \in 1..N : r[M + n] = t[n] /\ t[n] \in X
  BY ConcatProperties, LenProperties, ElementOfSeq
<1>2. PICK f : KeptUpTo(f, s, S, X)
  BY ThoseUpTo
<1>3. PICK g : KeptUpTo(g, t, S, X)
  BY ThoseUpTo
<1> HIDE DEF r, M, N
<1>4. PICK h : KeptUpTo(h, r, S, X)
  BY <1>1, ThoseUpTo
<1> DEFINE T == {n \in 0..M : h[n] = f[n]}
           U == {n \in 0..N : h[M + n] = f[M] \o g[n]}
<1>5. 0 \in T
  BY <1>1, <1>2, <1>4 DEF KeptUpTo
<1>6. ASSUME NEW n \in 0..(M - 1), n \in T PROVE n + 1 \in T
  <2> DEFINE d == n + 1
  <2>1. d \in 1..M /\ d \in 1..Len(r) /\ d \in 0..M /\ d - 1 = n
    BY <1>1
  <2> HIDE DEF d
  <2>2. f[d] = (IF s[d] \in S THEN Append(f[n], s[d]) ELSE f[n])
    BY <1>2, <2>1 DEF KeptUpTo, M
  <2>3. h[d] = IF r[d] \in S THEN Append(h[n], r[d]) ELSE h[n]
    BY <1>4, <2>1 DEF KeptUpTo
  <2>4. r[d] = s[d] /\ h[n] = f[n]
    BY <1>1, <1>6, <2>1
  <2>5. h[d] = f[d]
    BY <2>2, <2>3, <2>4
  <2> QED
    BY <2>1, <2>5 DEF d
<1>7. M \in T
  <2>1. 0..M \subseteq T
    <3> HIDE DEF T
    <3> QED
      BY <1>1, <1>5, <1>6, UpTo
  <2> QED
    BY <1>1, <2>1
<1>8. 0 \in U
  <2>1. M \in 0..Len(s) /\ M + 0 = M /\ 0 \in 0..N
    BY <1>1 DEF M
  <2>2. f[M] \in Seq(X) /\ g[0] = <<>>
    BY <1>2, <1>3, <2>1 DEF KeptUpTo
  <2>3. f[M] \o <<>> = f[M]
    BY <2>2, ConcatEmptySeq
  <2> QED
    BY <1>7, <2>1, <2>2, <2>3
<1>9. ASSUME NEW n \in 0..(N - 1), n \in U PROVE n + 1 \in U
  <2> DEFINE d == n + 1
             e == M + d
  <2>1. d \in 1..N /\ d \in 0..N /\ d - 1 = n /\ e \in 1..Len(r) /\ e - 1 = M + n /\ n \in 0..N
    BY <1>1
  <2> HIDE DEF d
  <2>2. g[d] = (IF t[d] \in S THEN Append(g[n], t[d]) ELSE g[n])
    BY <1>3, <2>1 DEF KeptUpTo, N
  <2> HIDE DEF e
  <2>3. h[e] = IF r[e] \in S THEN Append(h[M + n], r[e]) ELSE h[M + n]
    BY <1>4, <2>1 DEF KeptUpTo
  <2>4. r[e] = t[d] /\ h[M + n] = f[M] \o g[n] /\ t[d] \in X
    BY <1>1, <1>9, <2>1 DEF e
  <2>5. f[M] \in Seq(X) /\ g[n] \in Seq(X)
    <3>1. M \in 0..Len(s) /\ n \in 0..Len(t)
      BY <1>1, <2>1 DEF M, N
    <3> QED
      BY <1>2, <1>3, <3>1 DEF KeptUpTo
  <2>6. Append(f[M] \o g[n], t[d]) = f[M] \o Append(g[n], t[d])
    <3> DEFINE a == f[M]
               c == g[n]
               x == t[d]
    <3>1. a \in Seq(X) /\ c \in Seq(X) /\ x \in X
      BY <2>4, <2>5
    <3> HIDE DEF a, c, x
    <3>2. Append(a \o c, x) = a \o Append(c, x)
      <4>1. <<x>> \in Seq(X) /\ a \o c \in Seq(X)
        BY <3>1, ConcatProperties
      <4>2. Append(a \o c, x) = (a \o c) \o <<x>> /\ Append(c, x) = c \o <<x>>
        BY <3>1, <4>1, AppendIsConcat
      <4> QED
        BY SMTT(30), <3>1, <4>1, <4>2, ConcatAssociative
    <3> QED
      BY <3>2 DEF a, c, x
  <2>7. h[e] = f[M] \o g[d]
    BY <2>2, <2>3, <2>4, <2>6
  <2> QED
    BY <2>1, <2>7 DEF d, e
<1>10. N \in U
  <2> HIDE DEF U
  <2>1. 0..N \subseteq U
    BY <1>1, <1>8, <1>9, UpTo
  <2>2. N \in 0..N
    BY <1>1
  <2> QED
    BY <2>1, <2>2
<1> QED
  BY <1>1, <1>2, <1>3, <1>4, <1>10 DEF KeptUpTo, M, N, r

LEMMA ThoseOneMore ==
  ASSUME NEW X, NEW s \in Seq(X), NEW x \in X, NEW S
  PROVE  Those(Append(s, x), S) = IF x \in S THEN Append(Those(s, S), x) ELSE Those(s, S)
<1> DEFINE t == <<x>>
<1>1. t \in Seq(X) /\ Len(t) = 1 /\ t[1] = x /\ Append(s, x) = s \o t
  OBVIOUS
<1> HIDE DEF t
<1>2. PICK g : KeptUpTo(g, t, S, X)
  BY <1>1, ThoseUpTo
<1>3. Those(t, S) = IF x \in S THEN Append(<<>>, x) ELSE <<>>
  <2>1. g[1] = IF t[1] \in S THEN Append(g[0], t[1]) ELSE g[0]
    <3>1. 1 \in 1..Len(t) /\ 1 - 1 = 0
      BY <1>1
    <3> QED
      BY <1>2, <3>1 DEF KeptUpTo
  <2> QED
    BY <1>1, <1>2, <2>1 DEF KeptUpTo
<1>4. Those(s, S) \in Seq(X)
  BY ThoseTyped
<1>5. Those(s \o t, S) = Those(s, S) \o Those(t, S)
  BY <1>1, ThoseJoin
<1>6. CASE x \in S
  <2>1. Those(s, S) \o Append(<<>>, x) = Append(Those(s, S), x)
    BY <1>4
  <2> QED
    BY <1>1, <1>3, <1>5, <1>6, <2>1
<1>7. CASE x \notin S
  <2>1. Those(s, S) \o <<>> = Those(s, S)
    BY <1>4, ConcatEmptySeq
  <2> QED
    BY <1>1, <1>3, <1>5, <1>7, <2>1
<1> QED
  BY <1>6, <1>7

LEMMA NoneOfThose ==
  ASSUME NEW X, NEW s \in Seq(X), NEW S, X \cap S = {}
  PROVE  Those(s, S) = <<>>
<1> DEFINE N == Len(s)
<1>1. N \in Nat /\ \A n \in 1..N : s[n] \notin S
  BY LenProperties, ElementOfSeq
<1>2. PICK g : KeptUpTo(g, s, S, X)
  BY ThoseUpTo
<1> DEFINE T == {n \in 0..N : g[n] = <<>>}
<1>3. 0 \in T
  BY <1>1, <1>2 DEF KeptUpTo
<1>4. ASSUME NEW n \in 0..(N - 1), n \in T PROVE n + 1 \in T
  <2> DEFINE d == n + 1
  <2>1. d \in 1..N /\ d \in 0..N /\ d - 1 = n
    BY <1>1
  <2> HIDE DEF d
  <2>2. g[d] = <<>>
    BY <1>1, <1>2, <1>4, <2>1 DEF KeptUpTo
  <2> QED
    BY <2>1, <2>2 DEF d
<1>5. 0..N \subseteq T
  <2> HIDE DEF T, N
  <2> QED
    BY <1>1, <1>3, <1>4, UpTo
<1> QED
  BY <1>1, <1>2, <1>5 DEF KeptUpTo

LEMMA TokensTyped ==
  ASSUME NEW ins \in Instruction
  PROVE  Tokens(ins) \in Seq(Token)
<1>1. ins.braces \in Seq(Token) /\ ins.parens \in Seq(Token)
  BY DEF Instruction
<1> QED
  BY <1>1, ThoseTyped DEF Tokens

--------------------------------------------------------------------------------
(* The tokens that are removed.                                            *)

\* A member of a sequence without repetitions is removed.
LEMMA RemovedAt ==
  ASSUME NEW W, NEW s \in Seq(W), NEW i \in 1..Len(s),
         \A m, n \in 1..Len(s) : s[m] = s[n] => m = n
  PROVE  LET r == RemoveFirst(s, s[i])
         IN /\ r \in Seq(W) /\ Len(r) = Len(s) - 1
            /\ \A n \in 1..Len(r) : r[n] = IF n < i THEN s[n] ELSE s[n + 1]
<1> DEFINE N == Len(s)
           I == {n \in 1..N : s[n] = s[i]}
           r == SubSeq(s, 1, i - 1) \o SubSeq(s, i + 1, N)
<1>1. N \in Nat /\ i \in Nat /\ i >= 1 /\ i <= N
  BY LenProperties
<1>2. I = {i}
  OBVIOUS
<1>3. Min(I) = i
  <2> HIDE DEF I
  <2> QED
    BY <1>1, <1>2 DEF Min
<1>4. RemoveFirst(s, s[i]) = r
  BY <1>2, <1>3 DEF RemoveFirst, RemoveAt, SelectInSeq
<1>5. /\ SubSeq(s, 1, i - 1) \in Seq(W) /\ Len(SubSeq(s, 1, i - 1)) = i - 1
      /\ \A n \in 1..(i - 1) : SubSeq(s, 1, i - 1)[n] = s[n]
  BY <1>1
<1>6. /\ SubSeq(s, i + 1, N) \in Seq(W) /\ Len(SubSeq(s, i + 1, N)) = N - i
      /\ \A n \in 1..(N - i) : SubSeq(s, i + 1, N)[n] = s[i + n]
  BY <1>1
<1> DEFINE a == SubSeq(s, 1, i - 1)
           c == SubSeq(s, i + 1, N)
<1> HIDE DEF a, c
<1>7. /\ a \o c \in Seq(W) /\ Len(a \o c) = N - 1
      /\ \A n \in 1..(N - 1) : (a \o c)[n] = IF n < i THEN s[n] ELSE s[n + 1]
  <2>0. a \in Seq(W) /\ c \in Seq(W)
    BY <1>5, <1>6 DEF a, c
  <2>1. /\ a \o c \in Seq(W) /\ Len(a \o c) = Len(a) + Len(c)
        /\ \A n \in 1..(Len(a) + Len(c)) : (a \o c)[n] = IF n <= Len(a) THEN a[n] ELSE c[n - Len(a)]
    BY <2>0
  <2>2. /\ Len(a) = i - 1 /\ Len(c) = N - i /\ \A n \in 1..(i - 1) : a[n] = s[n]
        /\ \A n \in 1..(N - i) : c[n] = s[i + n]
    BY <1>5, <1>6 DEF a, c
  <2>3. Len(a) + Len(c) = N - 1
    BY <1>1, <2>2
  <2>4. ASSUME NEW n \in 1..(N - 1) PROVE (a \o c)[n] = IF n < i THEN s[n] ELSE s[n + 1]
    <3>1. (a \o c)[n] = IF n <= i - 1 THEN a[n] ELSE c[n - (i - 1)]
      BY <2>1, <2>2, <2>3
    <3>2. CASE n < i
      <4>1. n <= i - 1 /\ n \in 1..(i - 1)
        BY <1>1, <3>2
      <4> QED
        BY <2>2, <3>1, <3>2, <4>1
    <3>3. CASE ~(n < i)
      <4> DEFINE d == n - (i - 1)
      <4>1. ~(n <= i - 1) /\ d \in 1..(N - i) /\ i + d = n + 1
        BY <1>1, <3>3
      <4> HIDE DEF d
      <4>2. (a \o c)[n] = c[d]
        BY <3>1, <4>1 DEF d
      <4> QED
        BY <2>2, <3>3, <4>1, <4>2
    <3> QED
      BY <3>2, <3>3
  <2> QED
    BY <2>1, <2>3, <2>4
<1> QED
  BY <1>4, <1>7 DEF a, c

\* What RemoveWhileIterating goes through.
RemoveStep(ins, found, k) ==
  IF k <= Len(found) /\ Sets(ins, found[k]) THEN RemoveFirst(found, found[k]) ELSE found
Removes(g, ins, s) ==
  g = [k \in 0..Len(s) |-> IF k = 0 THEN s ELSE RemoveStep(ins, g[k - 1], k)]

\* Of tokens of which the instruction sets at most one, that one is removed.
LEMMA Removed ==
  ASSUME NEW W, NEW s \in Seq(W), NEW ins,
         \A m, n \in 1..Len(s) : s[m] = s[n] => m = n,
         \A m, n \in 1..Len(s) : Sets(ins, s[m]) /\ Sets(ins, s[n]) => m = n
  PROVE  RemoveWhileIterating(ins, s) =
           IF \E i \in 1..Len(s) : Sets(ins, s[i])
           THEN RemoveFirst(s, s[CHOOSE i \in 1..Len(s) : Sets(ins, s[i])]) ELSE s
<1> DEFINE N == Len(s)
           Set(i) == i \in 1..N /\ Sets(ins, s[i])
           first == CHOOSE i \in 1..N : Sets(ins, s[i])
           without == RemoveFirst(s, s[first])
           value(k) == IF \E i \in 1..k : Set(i) THEN without ELSE s
<1>1. N \in Nat
  BY LenProperties
<1>2. ASSUME NEW i, Set(i) PROVE i = first
  BY <1>2
<1>3. ASSUME NEW i, Set(i)
      PROVE  /\ without \in Seq(W) /\ Len(without) = N - 1
             /\ \A n \in 1..(N - 1) : without[n] = IF n < i THEN s[n] ELSE s[n + 1]
  <2>1. first = i /\ i \in 1..N
    BY <1>2, <1>3
  <2> HIDE DEF first
  <2> QED
    BY <2>1, RemovedAt
<1> HIDE DEF first, without
<1>4. ASSUME NEW k \in 1..N PROVE value(k) = RemoveStep(ins, value(k - 1), k)
  <2>0. k \in Nat /\ k >= 1 /\ k <= N
    BY <1>1
  <2>1. CASE Set(k)
    <3>1. \A i \in 1..(k - 1) : ~Set(i)
      BY <1>2, <2>0, <2>1
    <3>2. value(k - 1) = s /\ value(k) = without
      BY <2>0, <2>1, <3>1
    <3>3. k = first
      BY <1>2, <2>1
    <3> QED
      BY <2>0, <2>1, <3>2, <3>3 DEF RemoveStep, without
  <2>2. CASE ~Set(k)
    <3>1. (\E i \in 1..k : Set(i)) <=> \E i \in 1..(k - 1) : Set(i)
      BY <2>0, <2>2
    <3>2. value(k) = value(k - 1)
      BY <3>1
    <3>3. CASE \A i \in 1..(k - 1) : ~Set(i)
      <4>1. value(k - 1) = s
        BY <3>3
      <4> QED
        BY <2>0, <2>2, <3>2, <4>1 DEF RemoveStep
    <3>4. ASSUME NEW i \in 1..(k - 1), Set(i) PROVE value(k) = RemoveStep(ins, value(k - 1), k)
      <4>1. value(k - 1) = without
        BY <3>4
      <4>2. Len(without) = N - 1 /\ \A n \in 1..(N - 1) : without[n] = IF n < i THEN s[n] ELSE s[n + 1]
        BY <1>3, <3>4
      <4>3. k <= N - 1 => ~Sets(ins, without[k])
        <5> SUFFICES ASSUME k <= N - 1 PROVE ~Sets(ins, without[k])
          OBVIOUS
        <5> DEFINE d == k + 1
        <5>1. k \in 1..(N - 1) /\ ~(k < i) /\ d \in 1..N /\ d # i
          BY <1>1, <2>0
        <5>2. without[k] = s[d]
          BY <4>2, <5>1
        <5> HIDE DEF d
        <5>3. ~Set(d)
          BY <1>2, <3>4, <5>1
        <5> QED
          BY <5>1, <5>2, <5>3
      <4> QED
        BY <3>2, <4>1, <4>2, <4>3 DEF RemoveStep
    <3> QED
      BY <3>3, <3>4
  <2> QED
    BY <2>1, <2>2
<1> DEFINE f == [k \in 0..N |-> value(k)]
<1>5. value(0) = s
  <2>1. 1..0 = {}
    OBVIOUS
  <2> QED
    BY <2>1
<1> HIDE DEF value
<1>6. Removes(f, ins, s)
  <2>1. ASSUME NEW k \in 0..N PROVE f[k] = IF k = 0 THEN s ELSE RemoveStep(ins, f[k - 1], k)
    <3>1. CASE k = 0
      BY <1>5, <3>1
    <3>2. CASE k # 0
      <4>1. k \in 1..N /\ k - 1 \in 0..N
        BY <1>1, <3>2
      <4> QED
        BY <1>4, <3>2, <4>1
    <3> QED
      BY <3>1, <3>2
  <2> QED
    BY <2>1 DEF Removes
<1> DEFINE g == CHOOSE g : Removes(g, ins, s)
<1>7. Removes(g, ins, s)
  BY <1>6
<1>8. RemoveWhileIterating(ins, s) = g[N]
  BY DEF RemoveWhileIterating, Removes, RemoveStep
<1> HIDE DEF g, f
<1> DEFINE T == {k \in 0..N : g[k] = value(k)}
<1>9. 0 \in T
  BY <1>1, <1>5, <1>7 DEF Removes
<1>10. ASSUME NEW k \in 0..(N - 1), k \in T PROVE k + 1 \in T
  <2> DEFINE d == k + 1
  <2>1. d \in 1..N /\ d \in 0..N /\ d - 1 = k /\ d # 0
    BY <1>1
  <2> HIDE DEF d
  <2>2. g[d] = RemoveStep(ins, g[k], d)
    BY <1>7, <2>1 DEF Removes
  <2>3. g[d] = value(d)
    BY <1>4, <1>10, <2>1, <2>2
  <2> QED
    BY <2>1, <2>3 DEF d
<1>11. N \in T
  <2> HIDE DEF T
  <2>1. 0..N \subseteq T
    BY <1>1, <1>9, <1>10, UpTo
  <2>2. N \in 0..N
    BY <1>1
  <2> QED
    BY <2>1, <2>2
<1> QED
  BY <1>8, <1>11 DEF value, without, first

\* What is left of them.
LEMMA TokensLeft ==
  ASSUME NEW W, NEW s \in Seq(W), NEW ins,
         \A m, n \in 1..Len(s) : s[m] = s[n] => m = n,
         \A m, n \in 1..Len(s) : Sets(ins, s[m]) /\ Sets(ins, s[n]) => m = n
  PROVE  LET r == RemoveWhileIterating(ins, s)
         IN /\ r \in Seq(W)
            /\ \A m, n \in 1..Len(r) : r[m] = r[n] => m = n
            /\ ToSet(r) = {t \in ToSet(s) : ~Sets(ins, t)}
            /\ Len(r) \in Nat
            /\ Len(r) = Len(s) - (IF \E t \in ToSet(s) : Sets(ins, t) THEN 1 ELSE 0)
<1> DEFINE r == RemoveWhileIterating(ins, s)
           N == Len(s)
<1>1. N \in Nat /\ DOMAIN s = 1..N
  BY LenProperties
<1>2. CASE \A i \in 1..N : ~Sets(ins, s[i])
  <2>1. r = s
    BY <1>2, Removed
  <2> HIDE DEF r
  <2>2. ToSet(r) = {t \in ToSet(s) : ~Sets(ins, t)} /\ ~(\E t \in ToSet(s) : Sets(ins, t))
    BY <1>1, <1>2, <2>1 DEF ToSet
  <2> QED
    BY <1>1, <2>1, <2>2 DEF r
<1>3. ASSUME NEW e \in 1..N, Sets(ins, s[e])
      PROVE  /\ r \in Seq(W) /\ \A m, n \in 1..Len(r) : r[m] = r[n] => m = n
             /\ ToSet(r) = {t \in ToSet(s) : ~Sets(ins, t)} /\ Len(r) \in Nat
             /\ Len(r) = N - (IF \E t \in ToSet(s) : Sets(ins, t) THEN 1 ELSE 0)
  <2> DEFINE i == CHOOSE i \in 1..N : Sets(ins, s[i])
  <2>1. i \in 1..N /\ Sets(ins, s[i])
    BY <1>3
  <2>2. r = RemoveFirst(s, s[i])
    BY <1>3, Removed
  <2> HIDE DEF r, i
  <2>3. /\ r \in Seq(W) /\ Len(r) = N - 1
        /\ \A n \in 1..Len(r) : r[n] = IF n < i THEN s[n] ELSE s[n + 1]
    BY <2>1, <2>2, RemovedAt
  <2> DEFINE at(n) == IF n < i THEN n ELSE n + 1
  <2>4. i \in Nat /\ i >= 1 /\ i <= N
    BY <1>1, <2>1
  <2>5. \A n \in 1..(N - 1) : at(n) \in 1..N /\ at(n) # i /\ r[n] = s[at(n)]
    <3>1. \A n \in 1..(N - 1) : at(n) \in 1..N /\ at(n) # i
      BY <1>1, <2>4
    <3>2. \A n \in 1..(N - 1) : r[n] = s[at(n)]
      BY <2>3
    <3> QED
      BY <3>1, <3>2
  <2>6. \A m, n \in 1..(N - 1) : at(m) = at(n) => m = n
    BY <1>1, <2>4
  <2>7. \A m \in (1..N) \ {i} : \E n \in 1..(N - 1) : at(n) = m
    <3> SUFFICES ASSUME NEW m \in 1..N, m # i PROVE \E n \in 1..(N - 1) : at(n) = m
      OBVIOUS
    <3>1. CASE m < i
      <4>1. m \in 1..(N - 1) /\ at(m) = m
        BY <1>1, <2>4, <3>1
      <4> QED
        BY <4>1
    <3>2. CASE ~(m < i)
      <4>1. m - 1 \in 1..(N - 1) /\ at(m - 1) = m
        BY <1>1, <2>4, <3>2
      <4> QED
        BY <4>1
    <3> QED
      BY <3>1, <3>2
  <2> HIDE DEF at
  <2>8. \A m \in 1..N : Sets(ins, s[m]) <=> m = i
    BY <2>1
  <2>9. ASSUME NEW m \in 1..Len(r), NEW n \in 1..Len(r), r[m] = r[n] PROVE m = n
    BY <2>3, <2>5, <2>6, <2>9
  <2>10. ToSet(r) = {s[m] : m \in (1..N) \ {i}}
    <3>1. DOMAIN r = 1..(N - 1)
      BY <1>1, <2>3, <2>4
    <3>2. ToSet(r) = {r[n] : n \in 1..(N - 1)}
      BY <3>1 DEF ToSet
    <3>3. ASSUME NEW x \in {r[n] : n \in 1..(N - 1)} PROVE x \in {s[m] : m \in (1..N) \ {i}}
      BY <2>5, <3>3
    <3>4. ASSUME NEW m \in (1..N) \ {i} PROVE s[m] \in {r[n] : n \in 1..(N - 1)}
      <4>1. PICK n \in 1..(N - 1) : at(n) = m
        BY <2>7
      <4>2. r[n] = s[m]
        BY <2>5, <4>1
      <4> QED
        BY <4>2
    <3> DEFINE A == {r[n] : n \in 1..(N - 1)}
               B == {s[m] : m \in (1..N) \ {i}}
    <3>5. A \subseteq B
      BY <3>3
    <3>6. B \subseteq A
      BY <3>4
    <3> HIDE DEF A, B
    <3>7. A = B
      BY <3>5, <3>6
    <3> QED
      BY <3>2, <3>7 DEF A, B
  <2>11. {t \in ToSet(s) : ~Sets(ins, t)} = {s[m] : m \in (1..N) \ {i}}
    BY <1>1, <2>8 DEF ToSet
  <2>12. \E t \in ToSet(s) : Sets(ins, t)
    BY <1>1, <2>1 DEF ToSet
  <2> QED
    BY <1>1, <2>3, <2>4, <2>9, <2>10, <2>11, <2>12
<1> QED
  BY <1>2, <1>3

--------------------------------------------------------------------------------
(* The kernel.                                                             *)

LEMMA ProgramFacts ==
  ASSUME program \in Programs
  PROVE  /\ DOMAIN program.blocks = 1..Len(program.blocks) /\ Len(program.blocks) \in Nat
         /\ \A b \in DOMAIN program.blocks :
              /\ b \in Nat /\ b # 0 /\ Len(program.blocks[b]) \in Nat
              /\ DOMAIN program.blocks[b] = 1..Len(program.blocks[b])
              /\ Preds(b) \in Seq(DOMAIN program.blocks)
         /\ \A b \in DOMAIN program.blocks : \A n \in 1..Len(program.blocks[b]) :
              program.blocks[b][n] \in Instruction \cup [kind : Kinds]
<1>1. program.blocks \in Seq(Seq(Instruction \cup [kind : Kinds]))
  BY ProgramAssumption
<1> DEFINE X == Instruction \cup [kind : Kinds]
<1> HIDE DEF X
<1>2. DOMAIN program.blocks = 1..Len(program.blocks) /\ Len(program.blocks) \in Nat
  BY <1>1, LenProperties DEF X
<1>3. ASSUME NEW b \in DOMAIN program.blocks PROVE program.blocks[b] \in Seq(X)
  BY <1>1, <1>2, ElementOfSeq DEF X
<1>4. ASSUME NEW b \in DOMAIN program.blocks
      PROVE  /\ b \in Nat /\ b # 0 /\ Len(program.blocks[b]) \in Nat
             /\ DOMAIN program.blocks[b] = 1..Len(program.blocks[b])
             /\ \A n \in 1..Len(program.blocks[b]) : program.blocks[b][n] \in X
  BY <1>2, <1>3, LenProperties, ElementOfSeq
<1>5. ASSUME NEW b \in DOMAIN program.blocks PROVE Preds(b) \in Seq(DOMAIN program.blocks)
  BY ProgramAssumption DEF Preds
<1> QED
  BY <1>2, <1>4, <1>5 DEF X

\* A position and what is there.
LEMMA PositionFacts ==
  ASSUME program \in Programs
  PROVE  /\ \A b \in DOMAIN program.blocks : \A n \in 1..Len(program.blocks[b]) :
              <<b, n>> \in Positions(program)
         /\ \A q \in Positions(program) :
              /\ q = <<q[1], q[2]>> /\ q[1] \in DOMAIN program.blocks /\ q[2] \in 1..Len(program.blocks[q[1]])
              /\ q[1] \in Nat /\ q[1] # 0 /\ q[2] \in Nat /\ q[2] # 0
              /\ q # Nowhere /\ Nowhere[1] = 0
              /\ Item(q) \in Instruction \cup [kind : Kinds]
         /\ Nowhere \notin Positions(program)
<1>1. ASSUME NEW b \in DOMAIN program.blocks, NEW n \in 1..Len(program.blocks[b])
      PROVE  <<b, n>> \in Positions(program)
  <2>1. n \in DOMAIN program.blocks[b]
    BY ProgramFacts
  <2> QED
    BY <2>1 DEF Positions
<1>2. ASSUME NEW q \in Positions(program)
      PROVE  /\ q = <<q[1], q[2]>> /\ q[1] \in DOMAIN program.blocks /\ q[2] \in 1..Len(program.blocks[q[1]])
             /\ q[1] \in Nat /\ q[1] # 0 /\ q[2] \in Nat /\ q[2] # 0
             /\ q # Nowhere /\ Nowhere[1] = 0
             /\ Item(q) \in Instruction \cup [kind : Kinds]
  <2>1. PICK b \in DOMAIN program.blocks : q \in {b} \X DOMAIN program.blocks[b]
    BY DEF Positions
  <2>2. q = <<q[1], q[2]>> /\ q[1] = b /\ q[2] \in DOMAIN program.blocks[b]
    BY <2>1
  <2>3. q[2] \in 1..Len(program.blocks[b]) /\ b \in Nat /\ b # 0 /\ Len(program.blocks[b]) \in Nat
    BY <2>2, ProgramFacts
  <2>4. q[2] \in Nat /\ q[2] # 0
    BY <2>3
  <2>5. Item(q) \in Instruction \cup [kind : Kinds]
    BY <2>2, <2>3, ProgramFacts DEF Item
  <2>6. Nowhere[1] = 0 /\ q # Nowhere
    BY <2>2, <2>3 DEF Nowhere
  <2> QED
    BY <2>2, <2>3, <2>4, <2>5, <2>6
<1> QED
  BY <1>1, <1>2

LEMMA PositionsFinite ==
  ASSUME program \in Programs
  PROVE  IsFiniteSet(Positions(program))
<1> DEFINE B == DOMAIN program.blocks
           Of(b) == {b} \X DOMAIN program.blocks[b]
<1>1. IsFiniteSet(B) /\ 1 \in Int
  <2>1. \A n \in Int : IsFiniteSet(1..n)
    BY FS_Interval
  <2> QED
    BY <2>1, ProgramFacts
<1>2. ASSUME NEW b \in B PROVE IsFiniteSet(Of(b))
  <2>1. \A n \in Int : IsFiniteSet(1..n)
    BY FS_Interval
  <2>2. IsFiniteSet(DOMAIN program.blocks[b])
    BY <2>1, ProgramFacts
  <2>3. IsFiniteSet({b})
    BY FS_Singleton
  <2> QED
    BY <2>2, <2>3, FS_Product
<1>3. IsFiniteSet({Of(b) : b \in B})
  <2> DEFINE I == {Of(b) : b \in B}
             f == [b \in B |-> Of(b)]
  <2>1. f \in [B -> I] /\ \A t \in I : \E b \in B : f[b] = t
    <3> HIDE DEF B, Of
    <3> QED
      OBVIOUS
  <2> HIDE DEF B, I, f
  <2>2. IsFiniteSet(I)
    BY <1>1, <2>1, ImageFinite
  <2> QED
    BY <2>2 DEF I
<1>4. \A S \in {Of(b) : b \in B} : IsFiniteSet(S)
  BY <1>2
<1>5. IsFiniteSet(UNION {Of(b) : b \in B})
  <2> HIDE DEF B, Of
  <2> QED
    BY <1>3, <1>4, FS_UNION
<1> QED
  BY <1>5 DEF Positions

\* Of two places one precedes the other.
LEMMA PrecedesOrders ==
  ASSUME NEW p \in Nat \X Nat, NEW q \in Nat \X Nat, NEW r \in Nat \X Nat
  PROVE  /\ p = q \/ Precedes(p, q) \/ Precedes(q, p)
         /\ ~(Precedes(p, q) /\ Precedes(q, p)) /\ ~Precedes(p, p)
         /\ Precedes(p, q) /\ Precedes(q, r) => Precedes(p, r)
<1>1. p = <<p[1], p[2]>> /\ q = <<q[1], q[2]>> /\ p[1] \in Nat /\ p[2] \in Nat /\ q[1] \in Nat /\ q[2] \in Nat
      /\ r[1] \in Nat /\ r[2] \in Nat
  OBVIOUS
<1>2. p[1] = q[1] /\ p[2] = q[2] => p = q
  BY <1>1
<1> QED
  BY <1>1, <1>2 DEF Precedes

\* The comment above a place is the one that no other lies between.
LEMMA AboveFacts ==
  ASSUME program \in Programs, NEW kind, NEW p
  PROVE  /\ CommentsBefore(kind, p) = {} => Above(kind, p) = Nowhere
         /\ CommentsBefore(kind, p) # {} =>
              /\ Above(kind, p) \in CommentsBefore(kind, p)
              /\ \A r \in CommentsBefore(kind, p) : ~Precedes(Above(kind, p), r)
         /\ \A q \in CommentsBefore(kind, p) :
              (\A r \in CommentsBefore(kind, p) : ~Precedes(q, r)) => Above(kind, p) = q
<1> DEFINE C == CommentsBefore(kind, p)
           R == {x \in C \X C : Precedes(x[1], x[2])}
           Top(q) == \A r \in C : ~Precedes(q, r)
<1>1. C \subseteq Positions(program) /\ IsFiniteSet(C)
  BY PositionsFinite, FS_Subset DEF CommentsBefore
<1>2. \A q \in C : q \in Nat \X Nat
  <2>1. \A q \in C : q = <<q[1], q[2]>> /\ q[1] \in Nat /\ q[2] \in Nat
    BY <1>1, PositionFacts
  <2> QED
    BY <2>1
<1>3. C = {} => Above(kind, p) = Nowhere
  BY DEF Above
<1>4. Above(kind, p) = IF C = {} THEN Nowhere ELSE CHOOSE q \in C : Top(q)
  BY DEF Above
<1> HIDE DEF C
<1>5. C # {} => \E q \in C : Top(q)
  <2> SUFFICES ASSUME C # {} PROVE \E q \in C : Top(q)
    OBVIOUS
  <2>1. Orders(R, C)
    <3>1. ASSUME NEW x \in C, NEW y \in C, x # y PROVE <<x, y>> \in R \/ <<y, x>> \in R
      BY <1>2, <3>1, PrecedesOrders
    <3>2. ASSUME NEW x \in C, NEW y \in C, NEW z \in C, <<x, y>> \in R, <<y, z>> \in R PROVE <<x, z>> \in R
      <4>1. Precedes(x, y) /\ Precedes(y, z)
        BY <3>2
      <4> QED
        BY <1>2, <4>1, PrecedesOrders
    <3> HIDE DEF R
    <3> QED
      BY <3>1, <3>2 DEF Orders
  <2>2. HasLast(C, R)
    <3> HIDE DEF R
    <3> QED
      BY <1>1, <2>1, LastInOrder
  <2>3. PICK m \in C : \A x \in C \ {m} : <<x, m>> \in R
    BY <2>2 DEF HasLast
  <2>4. ASSUME NEW r \in C PROVE ~Precedes(m, r)
    <3>1. CASE r = m
      BY <1>2, <3>1, PrecedesOrders
    <3>2. CASE r # m
      <4>1. Precedes(r, m)
        BY <2>3, <3>2
      <4> QED
        BY <1>2, <4>1, PrecedesOrders
    <3> QED
      BY <3>1, <3>2
  <2> QED
    BY <2>4
<1>6. C # {} => Above(kind, p) \in C /\ Top(Above(kind, p))
  <2> HIDE DEF Top
  <2> QED
    BY <1>4, <1>5
<1>7. ASSUME NEW q \in C, Top(q) PROVE Above(kind, p) = q
  <2>1. Above(kind, p) \in C /\ Top(Above(kind, p))
    BY <1>6
  <2> QED
    BY <1>2, <1>7, <2>1, PrecedesOrders
<1> QED
  BY <1>3, <1>6, <1>7 DEF C

LEMMA AheadFacts ==
  ASSUME program \in Programs, NEW b \in DOMAIN program.blocks
  PROVE  /\ Ahead(b) \subseteq DOMAIN program.blocks
         /\ \A d \in Ahead(b) \cup {b} : ToSet(Preds(d)) \subseteq Ahead(b)
         /\ \A S \in SUBSET DOMAIN program.blocks :
              (\A d \in S \cup {b} : ToSet(Preds(d)) \subseteq S) => Ahead(b) \subseteq S
<1>1. \A d \in DOMAIN program.blocks : ToSet(Preds(d)) \subseteq DOMAIN program.blocks
  BY ProgramFacts, LenProperties, ElementOfSeq DEF ToSet
<1> QED
  BY <1>1 DEF Ahead

LEMMA BeforeFacts ==
  ASSUME program \in Programs, NEW p \in Positions(program)
  PROVE  /\ \A n \in 1..(p[2] - 1) : <<p[1], n>> \in Before(p)
         /\ \A b \in Ahead(p[1]) : \A n \in 1..Len(program.blocks[b]) : <<b, n>> \in Before(p)
         /\ \A q \in Before(p) :
              \/ q = <<p[1], q[2]>> /\ q[2] \in 1..(p[2] - 1)
              \/ q = <<q[1], q[2]>> /\ q[1] \in Ahead(p[1]) /\ q[2] \in 1..Len(program.blocks[q[1]])
         /\ Before(p) \subseteq Positions(program)
<1>1. p[1] \in DOMAIN program.blocks /\ p[2] \in 1..Len(program.blocks[p[1]]) /\ p[2] \in Nat
  BY PositionFacts
<1>2. Ahead(p[1]) \subseteq DOMAIN program.blocks
  BY <1>1, AheadFacts
<1>3. \A n \in 1..(p[2] - 1) : <<p[1], n>> \in Before(p) /\ n \in 1..Len(program.blocks[p[1]])
  <2>1. Len(program.blocks[p[1]]) \in Nat
    BY <1>1, ProgramFacts
  <2> QED
    BY <1>1, <2>1 DEF Before
<1>4. ASSUME NEW b \in Ahead(p[1]), NEW n \in 1..Len(program.blocks[b]) PROVE <<b, n>> \in Before(p)
  <2>1. n \in DOMAIN program.blocks[b]
    BY <1>2, ProgramFacts
  <2> QED
    BY <2>1 DEF Before
<1>5. ASSUME NEW q \in Before(p)
      PROVE  \/ q = <<p[1], q[2]>> /\ q[2] \in 1..(p[2] - 1)
             \/ q = <<q[1], q[2]>> /\ q[1] \in Ahead(p[1]) /\ q[2] \in 1..Len(program.blocks[q[1]])
  <2>1. CASE q \in {<<p[1], n>> : n \in 1..(p[2] - 1)}
    BY <2>1
  <2>2. ASSUME NEW b \in Ahead(p[1]), q \in {<<b, n>> : n \in DOMAIN program.blocks[b]}
        PROVE  q = <<q[1], q[2]>> /\ q[1] \in Ahead(p[1]) /\ q[2] \in 1..Len(program.blocks[q[1]])
    <3>1. DOMAIN program.blocks[b] = 1..Len(program.blocks[b])
      BY <1>2, ProgramFacts
    <3> QED
      BY <2>2, <3>1
  <2> QED
    BY <2>1, <2>2 DEF Before
<1>6. ASSUME NEW q \in Before(p) PROVE q \in Positions(program)
  <2>1. CASE q = <<p[1], q[2]>> /\ q[2] \in 1..(p[2] - 1)
    BY <1>1, <1>3, <2>1, PositionFacts
  <2>2. CASE q = <<q[1], q[2]>> /\ q[1] \in Ahead(p[1]) /\ q[2] \in 1..Len(program.blocks[q[1]])
    BY <1>2, <2>2, PositionFacts
  <2> QED
    BY <1>5, <2>1, <2>2
<1> QED
  BY <1>3, <1>4, <1>5, <1>6

\* The tokens of an instruction are different, and no instruction sets two of them.
LEMMA TokensFacts ==
  ASSUME program \in Programs, NEW p \in Instructions(program)
  PROVE  /\ Tokens(Item(p)) \in Seq(Token)
         /\ \A m, n \in 1..Len(Tokens(Item(p))) : Tokens(Item(p))[m] = Tokens(Item(p))[n] => m = n
         /\ \A q \in Positions(program) : \A s, t \in ToSet(Tokens(Item(p))) :
              Sets(Item(q), s) /\ Sets(Item(q), t) => s = t
<1> DEFINE ins == Item(p)
           w == Tokens(ins)
<1>1. p \in Positions(program) /\ ins.kind = "ins" /\ ins = program.blocks[p[1]][p[2]]
  BY DEF Instructions, Item
<1>2. ins \in Instruction
  <2>1. ins \in Instruction \cup [kind : Kinds]
    BY <1>1, PositionFacts
  <2> QED
    BY <1>1, <2>1 DEF Kinds
<1>3. w \in Seq(Token) /\ DOMAIN w = 1..Len(w)
  BY <1>2, TokensTyped, LenProperties
<1>4. \A m, n \in 1..Len(w) : w[m][1] = w[n][1] => m = n
  <2>1. \A m, n \in DOMAIN Tokens(ins) : Tokens(ins)[m][1] = Tokens(ins)[n][1] => m = n
    BY <1>1, TokenAssumption
  <2> QED
    BY <1>3, <2>1
<1> HIDE DEF w, ins
<1>5. ASSUME NEW q \in Positions(program), NEW s \in ToSet(w), NEW t \in ToSet(w),
             Sets(Item(q), s), Sets(Item(q), t)
      PROVE  s = t
  <2> DEFINE other == Item(q)
  <2>1. other.kind = "ins" /\ <<s[1], "">> \in ToSet(other.braces) /\ <<t[1], "">> \in ToSet(other.braces)
    BY <1>5 DEF Sets
  <2>2. q \in Instructions(program) /\ other = program.blocks[q[1]][q[2]]
    BY <2>1 DEF Instructions, Item
  <2>3. \A x, y \in ToSet(other.braces) : x[2] = "" /\ y[2] = "" => x = y
    BY <2>2, TokenAssumption
  <2> HIDE DEF other
  <2>4. <<s[1], "">> = <<t[1], "">>
    BY <2>1, <2>3
  <2>5. s[1] = t[1]
    BY <2>4
  <2>6. PICK m \in 1..Len(w), n \in 1..Len(w) : s = w[m] /\ t = w[n]
    BY <1>3 DEF ToSet
  <2> QED
    BY <1>4, <2>5, <2>6
<1> QED
  BY <1>3, <1>4, <1>5 DEF w, ins

--------------------------------------------------------------------------------
(* The kernel does not change.                                             *)

LEMMA SameKernel ==
  ASSUME program' = program
  PROVE  /\ Positions(program)' = Positions(program) /\ SourceAvailable' = SourceAvailable
         /\ ReportLine' = ReportLine
         /\ \A b : Preds(b)' = Preds(b) /\ Ahead(b)' = Ahead(b) /\ WholeBlock(b)' = WholeBlock(b)
         /\ \A p : Item(p)' = Item(p) /\ Before(p)' = Before(p)
         /\ \A p, t : SetsAt(p, t)' = SetsAt(p, t)
         /\ \A kind, p : CommentsBefore(kind, p)' = CommentsBefore(kind, p) /\ Above(kind, p)' = Above(kind, p)
<1>1. Positions(program)' = Positions(program)
  OBVIOUS
<1>2. \A b : Preds(b)' = Preds(b) /\ WholeBlock(b)' = WholeBlock(b)
  BY DEF Preds, WholeBlock
<1>3. \A p : Item(p)' = Item(p)
  BY DEF Item
<1>4. \A p, t : SetsAt(p, t)' = SetsAt(p, t)
  BY <1>3 DEF SetsAt
<1>5. SourceAvailable' = SourceAvailable
  BY <1>1, <1>3 DEF SourceAvailable
<1>6. ASSUME NEW b PROVE Ahead(b)' = Ahead(b)
  BY <1>2 DEF Ahead
<1>7. ASSUME NEW p PROVE Before(p)' = Before(p)
  BY <1>6 DEF Before
<1>8. ASSUME NEW kind, NEW p PROVE CommentsBefore(kind, p)' = CommentsBefore(kind, p)
  BY <1>1, <1>3 DEF CommentsBefore
<1>9. ASSUME NEW kind, NEW p PROVE Above(kind, p)' = Above(kind, p)
  <2> DEFINE Top(C) == IF C = {} THEN Nowhere ELSE CHOOSE q \in C : \A r \in C : ~Precedes(q, r)
  <2>1. Above(kind, p) = Top(CommentsBefore(kind, p))
    BY DEF Above
  <2>2. Above(kind, p)' = Top(CommentsBefore(kind, p)')
    BY DEF Above
  <2> HIDE DEF Top
  <2> QED
    BY <1>8, <2>1, <2>2
<1>10. ReportLine' = ReportLine
  BY <1>1 DEF ReportLine
<1> QED
  BY <1>1, <1>2, <1>3, <1>4, <1>5, <1>6, <1>7, <1>8, <1>9, <1>10

\* Where a stall is.
LEMMA StallFacts ==
  ASSUME program \in Programs
  PROVE  /\ DOMAIN program.stalls = 1..Len(program.stalls) /\ Len(program.stalls) \in Nat /\ 1 \in DOMAIN program.stalls
         /\ \A t \in DOMAIN program.stalls :
              /\ t \in Nat /\ t >= 1 /\ Len(program.stalls[t]) \in Nat
              /\ program.stalls[t] \in Seq(Instructions(program) \cup {Nowhere})
              /\ \A n \in 1..Len(program.stalls[t]) : program.stalls[t][n] \in Instructions(program) \cup {Nowhere}
         /\ Instructions(program) \subseteq Positions(program)
<1> DEFINE X == Instructions(program) \cup {Nowhere}
<1>1. program.stalls \in Seq(Seq(X)) /\ program.stalls # <<>>
  BY ProgramAssumption
<1> HIDE DEF X
<1>2. /\ DOMAIN program.stalls = 1..Len(program.stalls) /\ Len(program.stalls) \in Nat
      /\ \A t \in 1..Len(program.stalls) : program.stalls[t] \in Seq(X)
  BY <1>1, LenProperties, ElementOfSeq
<1>3. Len(program.stalls) # 0
  BY <1>1, EmptySeq
<1>4. ASSUME NEW t \in DOMAIN program.stalls
      PROVE  /\ t \in Nat /\ t >= 1 /\ Len(program.stalls[t]) \in Nat /\ program.stalls[t] \in Seq(X)
             /\ \A n \in 1..Len(program.stalls[t]) : program.stalls[t][n] \in X
  BY <1>2, LenProperties, ElementOfSeq
<1>5. Instructions(program) \subseteq Positions(program)
  BY DEF Instructions
<1> QED
  BY <1>2, <1>3, <1>4, <1>5 DEF X

LEMMA PositionTyped ==
  ASSUME Typed
  PROVE  /\ Searched <=> type = 1 /\ row > 0 /\ Position # Nowhere
         /\ row > 0 => Position \in Instructions(program) \cup {Nowhere}
         /\ Searched => Position \in Instructions(program) /\ Position \in Positions(program)
<1>1. program \in Programs /\ type \in DOMAIN program.stalls /\ row \in 0..Len(program.stalls[type])
  BY DEF Typed
<1>2. row > 0 => row \in 1..Len(program.stalls[type])
  BY <1>1, StallFacts
<1>3. row > 0 => Position \in Instructions(program) \cup {Nowhere}
  BY <1>1, <1>2, StallFacts DEF Position
<1>4. Searched <=> type = 1 /\ row > 0 /\ Position # Nowhere
  BY DEF Searched, Typed
<1> QED
  BY <1>1, <1>3, <1>4, StallFacts

LEMMA HereTyped ==
  ASSUME Typed, NextStall
  PROVE  /\ row + 1 \in 1..Len(program.stalls[type]) /\ row + 1 > 0
         /\ Here \in Instructions(program) \cup {Nowhere}
         /\ program' = program /\ type' = type => Position' = Here
<1>1. program \in Programs /\ type \in DOMAIN program.stalls /\ row \in 0..Len(program.stalls[type])
  BY DEF Typed
<1>2. row + 1 \in 1..Len(program.stalls[type]) /\ row + 1 > 0
  BY <1>1, StallFacts DEF NextStall
<1>3. Here \in Instructions(program) \cup {Nowhere}
  BY <1>1, <1>2, StallFacts DEF Here
<1>4. program' = program /\ type' = type => Position' = Here
  BY DEF NextStall, Position, Here
<1> QED
  BY <1>2, <1>3, <1>4

--------------------------------------------------------------------------------
(* What the report says of a stall.                                        *)

\* The comments that are known of what is found.
SourcesOf(sources, S) ==
  /\ DOMAIN sources["Line"] \subseteq S \cup {Nowhere} /\ DOMAIN sources["File"] \subseteq S \cup {Nowhere}
  /\ \A kind \in Kinds : \A p \in DOMAIN sources[kind] : sources[kind][p] \in Positions(program)
Codes == {"code"} \X Positions(program)
Stalled == {"stalled"} \X Positions(program)

\* The lines for what is found are without a stalled one, and name it.
LEMMA CausesNamed ==
  ASSUME program \in Programs, NEW S \in SUBSET Positions(program),
         NEW sources, SourcesOf(sources, S), NEW rest \in SUBSET (S \cup {Nowhere})
  PROVE  /\ Causes(sources, rest) \in Seq({Text} \cup Codes)
         /\ \A q \in ((DOMAIN sources["Line"]) \cup rest) \ {Nowhere} :
              \E k \in 1..Len(Causes(sources, rest)) : Causes(sources, rest)[k] = Code(q)
<1> DEFINE X == {Text} \cup Codes
           D == DOMAIN sources["Line"] \ {Nowhere}
           E == rest \ {Nowhere}
           Other(p) == <<Text, Code(p)>>
           A == {Cause(sources, p) : p \in D}
           B == {Other(p) : p \in E}
<1>1. D \subseteq S /\ E \subseteq S /\ S \subseteq Positions(program)
  BY DEF SourcesOf
<1>2. IsFiniteSet(D) /\ IsFiniteSet(E)
  BY <1>1, PositionsFinite, FS_Subset
<1>3. Text \in X /\ \A p \in Positions(program) : Code(p) \in X
  BY DEF Codes, Code
<1>4. ASSUME NEW p \in D PROVE Cause(sources, p) \in Seq(X) /\ Len(Cause(sources, p)) = 4 /\ Cause(sources, p)[2] = Code(p)
  <2>1. sources["Line"][p] \in Positions(program)
    BY DEF SourcesOf, Kinds
  <2>2. p \in DOMAIN sources["File"] => sources["File"][p] \in Positions(program)
    BY DEF SourcesOf, Kinds
  <2> DEFINE x == Code(sources["Line"][p])
             y == IF p \in DOMAIN sources["File"] THEN Code(sources["File"][p]) ELSE Text
             c == Code(p)
  <2>3. x \in X /\ y \in X /\ c \in X
    BY <1>1, <1>3, <2>1, <2>2
  <2>4. Cause(sources, p) = <<Text, c, x, y>>
    BY DEF Cause
  <2> HIDE DEF x, y, c, X
  <2>5. <<Text, c, x, y>> \in Seq(X) /\ Len(<<Text, c, x, y>>) = 4 /\ <<Text, c, x, y>>[2] = c
    BY <1>3, <2>3
  <2> QED
    BY <2>4, <2>5 DEF c
<1>5. ASSUME NEW p \in E PROVE Other(p) \in Seq(X) /\ Len(Other(p)) = 2 /\ Other(p)[2] = Code(p)
  <2> DEFINE c == Code(p)
  <2>1. c \in X
    BY <1>1, <1>3
  <2> HIDE DEF c, X
  <2>2. <<Text, c>> \in Seq(X) /\ Len(<<Text, c>>) = 2 /\ <<Text, c>>[2] = c
    BY <1>3, <2>1
  <2> QED
    BY <2>2 DEF c
<1>6. IsFiniteSet(A) /\ A \subseteq Seq(X) /\ IsFiniteSet(B) /\ B \subseteq Seq(X)
  <2> DEFINE f == [p \in D |-> Cause(sources, p)]
             g == [p \in E |-> Other(p)]
  <2>1. f \in [D -> A] /\ \A t \in A : \E p \in D : f[p] = t
    <3> HIDE DEF D
    <3> QED
      OBVIOUS
  <2>2. g \in [E -> B] /\ \A t \in B : \E p \in E : g[p] = t
    <3> HIDE DEF E, Other
    <3> QED
      OBVIOUS
  <2>3. A \subseteq Seq(X) /\ B \subseteq Seq(X)
    <3> HIDE DEF X, D, E, Other
    <3> QED
      BY <1>4, <1>5
  <2> HIDE DEF f, g, A, B, D, E
  <2> QED
    BY <1>2, <2>1, <2>2, <2>3, ImageFinite
<1> DEFINE a == SetToSeq(A)
           b == SetToSeq(B)
           fa == FlattenSeq(a)
           fb == FlattenSeq(b)
<1>7. Causes(sources, rest) = fa \o fb
  BY DEF Causes
<1>8. ASSUME NEW T, IsFiniteSet(T), T \subseteq Seq(X)
      PROVE  /\ FlattenSeq(SetToSeq(T)) \in Seq(X)
             /\ \A t \in T : \A n \in 1..Len(t) :
                  \E k \in 1..Len(FlattenSeq(SetToSeq(T))) : FlattenSeq(SetToSeq(T))[k] = t[n]
  <2> DEFINE s == SetToSeq(T)
  <2>1. /\ s \in Seq(T) /\ Len(s) \in Nat /\ \A t \in T : \E i \in 1..Len(s) : s[i] = t
    BY <1>8, Enumerated
  <2> HIDE DEF s, X
  <2>2. s \in Seq(Seq(X))
    BY <1>8, <2>1
  <2>3. FlattenSeq(s) \in Seq(X)
    BY <2>2, EmptySeq, FlattenOneMore
  <2>4. ASSUME NEW t \in T, NEW n \in 1..Len(t) PROVE \E k \in 1..Len(FlattenSeq(s)) : FlattenSeq(s)[k] = t[n]
    <3>1. PICK i \in 1..Len(s) : s[i] = t
      BY <2>1
    <3> QED
      BY <2>2, <3>1, FlattenMembers
  <2> QED
    BY <2>3, <2>4 DEF s
<1>9. /\ fa \in Seq(X) /\ \A p \in D : \E k \in 1..Len(fa) : fa[k] = Code(p)
  <2>1. fa \in Seq(X) /\ \A t \in A : \A n \in 1..Len(t) : \E k \in 1..Len(fa) : fa[k] = t[n]
    <3> HIDE DEF A, X
    <3> QED
      BY <1>6, <1>8
  <2>2. ASSUME NEW p \in D PROVE \E k \in 1..Len(fa) : fa[k] = Code(p)
    <3>1. Cause(sources, p) \in A /\ 2 \in 1..Len(Cause(sources, p)) /\ Cause(sources, p)[2] = Code(p)
      BY <1>4
    <3> HIDE DEF A, fa, D
    <3> QED
      BY <2>1, <3>1
  <2> QED
    BY <2>1, <2>2
<1>10. /\ fb \in Seq(X) /\ \A p \in E : \E k \in 1..Len(fb) : fb[k] = Code(p)
  <2>1. fb \in Seq(X) /\ \A t \in B : \A n \in 1..Len(t) : \E k \in 1..Len(fb) : fb[k] = t[n]
    <3> HIDE DEF B, X
    <3> QED
      BY <1>6, <1>8
  <2>2. ASSUME NEW p \in E PROVE \E k \in 1..Len(fb) : fb[k] = Code(p)
    <3>1. Other(p) \in B /\ 2 \in 1..Len(Other(p)) /\ Other(p)[2] = Code(p)
      BY <1>5
    <3> HIDE DEF B, fb, E, Other
    <3> QED
      BY <2>1, <3>1
  <2> QED
    BY <2>1, <2>2
<1> HIDE DEF fa, fb, X
<1>11. /\ fa \o fb \in Seq(X) /\ Len(fa) \in Nat /\ Len(fb) \in Nat /\ Len(fa \o fb) = Len(fa) + Len(fb)
       /\ \A k \in 1..Len(fa) : k \in 1..Len(fa \o fb) /\ (fa \o fb)[k] = fa[k]
       /\ \A k \in 1..Len(fb) : Len(fa) + k \in 1..Len(fa \o fb) /\ (fa \o fb)[Len(fa) + k] = fb[k]
  BY <1>9, <1>10, ConcatProperties, LenProperties
<1>12. ASSUME NEW q \in D \cup E PROVE \E k \in 1..Len(fa \o fb) : (fa \o fb)[k] = Code(q)
  <2>1. CASE q \in D
    <3>1. PICK k \in 1..Len(fa) : fa[k] = Code(q)
      BY <1>9, <2>1
    <3> QED
      BY <1>11, <3>1
  <2>2. CASE q \in E
    <3>1. PICK k \in 1..Len(fb) : fb[k] = Code(q)
      BY <1>10, <2>2
    <3> QED
      BY <1>11, <3>1
  <2> QED
    BY <2>1, <2>2
<1> QED
  BY <1>7, <1>11, <1>12 DEF X

LEMMA ThreeLines ==
  ASSUME NEW a, NEW b, NEW c
  PROVE  Append(<<a, b>>, c) = <<a, b, c>>
<1> DEFINE s == <<a, b>>
           t == <<a, b, c>>
           X == {a, b, c}
           r == Append(s, c)
<1>1. /\ s \in Seq(X) /\ t \in Seq(X) /\ c \in X /\ Len(s) = 2 /\ Len(t) = 3
      /\ s[1] = a /\ s[2] = b /\ t[1] = a /\ t[2] = b /\ t[3] = c
  OBVIOUS
<1> HIDE DEF s, t, X
<1>2. ASSUME NEW q \in Seq(X), NEW x \in X
      PROVE  /\ Append(q, x) \in Seq(X) /\ Len(Append(q, x)) = Len(q) + 1
             /\ \A i \in 1..Len(q) : Append(q, x)[i] = q[i]
             /\ Append(q, x)[Len(q) + 1] = x
  BY AppendProperties
<1>3. r \in Seq(X) /\ Len(r) = 3 /\ r[1] = a /\ r[2] = b /\ r[3] = c
  <2>1. r \in Seq(X) /\ Len(r) = Len(s) + 1 /\ (\A i \in 1..Len(s) : r[i] = s[i]) /\ r[Len(s) + 1] = c
    BY <1>1, <1>2, Zenon
  <2> HIDE DEF r
  <2> QED
    BY <1>1, <2>1
<1> HIDE DEF r
<1>4. \A i \in 1..3 : r[i] = t[i]
  BY <1>1, <1>3
<1>5. r = t
  BY <1>1, <1>3, <1>4, SeqEqual
<1> QED
  BY <1>5 DEF r, s, t

\* The report of a stall is one stalled line more and names what was found.
LEMMA ReportGrows ==
  ASSUME program \in Programs, report \in Seq(ReportLine), NEW p \in Positions(program),
         NEW S \in SUBSET Positions(program),
         NEW sources, SourcesOf(sources, S), NEW rest \in SUBSET (S \cup {Nowhere}), Report(p, sources, rest)
  PROVE  /\ report' \in Seq(ReportLine)
         /\ Those(report', Stalled) = Append(Those(report, Stalled), <<"stalled", p>>)
         /\ \A q \in ((DOMAIN sources["Line"]) \cup rest) \ {Nowhere} : Code(q) \in ToSet(report')
<1> DEFINE X == {Text, Blank} \cup Codes
           Y == ReportLine
           l == <<"stalled", p>>
           L1 == <<Blank, Text, l>>
           L2 == IF Nowhere \in DOMAIN sources["Line"]
                 THEN <<Code(sources["Line"][Nowhere])>>
                      \o (IF Nowhere \in DOMAIN sources["File"] THEN <<Code(sources["File"][Nowhere])>> ELSE <<>>)
                 ELSE <<>>
           L4 == Causes(sources, rest)
           r1 == report \o L1
           r2 == r1 \o L2
           r3 == r2 \o <<Text>>
           r4 == r3 \o L4
<1>1. report' = r4
  BY DEF Report
<1>2. /\ Y = X \cup Stalled /\ X \subseteq Y /\ X \cap Stalled = {} /\ l \in Stalled /\ l \in Y
      /\ Text \in X /\ Blank \in X /\ Text \notin Stalled /\ Blank \notin Stalled
      /\ \A q \in Positions(program) : Code(q) \in X
  BY DEF ReportLine, Codes, Stalled, Text, Blank, Code
<1>3. L1 \in Seq(Y) /\ Those(L1, Stalled) = <<l>>
  <2> DEFINE K == <<Blank, Text>>
  <2>1. K \in Seq(X) /\ K \in Seq(Y) /\ Append(K, l) = L1
    <3> HIDE DEF l, X, Y
    <3>1. Text \in X /\ Blank \in X /\ Text \in Y /\ Blank \in Y
      BY <1>2
    <3>2. K \in Seq(X) /\ K \in Seq(Y)
      BY ONLY <3>1
    <3>3. Append(K, l) = L1
      BY ThreeLines
    <3> QED
      BY <3>2, <3>3
  <2>2. Those(K, Stalled) = <<>>
    <3> HIDE DEF K, X
    <3> QED
      BY <1>2, <2>1, NoneOfThose
  <2>3. Append(K, l) \in Seq(Y) /\ Those(Append(K, l), Stalled) = Append(Those(K, Stalled), l)
    <3> HIDE DEF K, l, Y
    <3>1. K \in Seq(Y) /\ l \in Y /\ l \in Stalled
      BY <1>2, <2>1
    <3>2. Append(K, l) \in Seq(Y)
      BY <3>1, AppendProperties
    <3>3. Those(Append(K, l), Stalled) = Append(Those(K, Stalled), l)
      BY ONLY <3>1, ThoseOneMore
    <3> QED
      BY <3>2, <3>3
  <2>4. Append(<<>>, l) = <<l>>
    OBVIOUS
  <2> HIDE DEF K, l, L1, Y
  <2> QED
    BY <2>1, <2>2, <2>3, <2>4
<1>4. L2 \in Seq(X)
  <2>1. \A kind \in Kinds : \A q \in DOMAIN sources[kind] : Code(sources[kind][q]) \in X
    BY <1>2 DEF SourcesOf
  <2>2. "Line" \in Kinds /\ "File" \in Kinds
    BY DEF Kinds
  <2> DEFINE x == Code(sources["Line"][Nowhere])
             y == Code(sources["File"][Nowhere])
  <2>3. Nowhere \in DOMAIN sources["Line"] => x \in X
    BY <2>1, <2>2
  <2>4. Nowhere \in DOMAIN sources["File"] => y \in X
    BY <2>1, <2>2
  <2> HIDE DEF x, y, X
  <2>5. x \in X /\ y \in X => <<x>> \o <<y>> \in Seq(X)
    OBVIOUS
  <2>6. x \in X => <<x>> \o <<>> \in Seq(X)
    OBVIOUS
  <2>7. L2 = IF Nowhere \in DOMAIN sources["Line"]
             THEN <<x>> \o (IF Nowhere \in DOMAIN sources["File"] THEN <<y>> ELSE <<>>) ELSE <<>>
    BY DEF x, y
  <2> QED
    BY <2>3, <2>4, <2>5, <2>6, <2>7, EmptySeq
<1>5. /\ L4 \in Seq({Text} \cup Codes)
      /\ \A q \in ((DOMAIN sources["Line"]) \cup rest) \ {Nowhere} : \E k \in 1..Len(L4) : L4[k] = Code(q)
  BY ZenonT(30), CausesNamed
<1>6. L4 \in Seq(X) /\ <<Text>> \in Seq(X)
  <2>1. \A k \in 1..Len(L4) : L4[k] \in X
    BY <1>5, ElementOfSeq
  <2>2. <<Text>> \in Seq(X)
    BY <1>2
  <2> HIDE DEF X, L4
  <2>3. L4 = [k \in 1..Len(L4) |-> L4[k]] /\ Len(L4) \in Nat
    BY <1>5, LenProperties
  <2> QED
    BY <2>1, <2>2, <2>3
<1> HIDE DEF X, Y, l, L1, L2, L4
<1>0. \A r, s \in Seq(Y) : Those(r \o s, Stalled) = Those(r, Stalled) \o Those(s, Stalled)
  BY ThoseJoin
<1>7. ASSUME NEW s \in Seq(X) PROVE s \in Seq(Y) /\ Those(s, Stalled) = <<>>
  <2>1. s \in Seq(Y)
    BY <1>2
  <2>2. Those(s, Stalled) = <<>>
    BY <1>2, NoneOfThose
  <2> QED
    BY <2>1, <2>2
<1>8. r1 \in Seq(Y) /\ Those(r1, Stalled) = Append(Those(report, Stalled), l)
  <2>1. report \in Seq(Y)
    BY DEF Y
  <2>2. Those(r1, Stalled) = Those(report, Stalled) \o <<l>>
    <3>1. Those(r1, Stalled) = Those(report, Stalled) \o Those(L1, Stalled)
      BY <1>0, <1>3, <2>1
    <3> QED
      BY <1>3, <3>1
  <2>4. Those(report, Stalled) \in Seq(Y)
    BY <2>1, ThoseTyped
  <2>3. Those(report, Stalled) \o <<l>> = Append(Those(report, Stalled), l)
    BY <1>2, <2>4, AppendIsConcat
  <2> QED
    BY <1>3, <2>1, <2>2, <2>3, ConcatProperties
<1>9. ASSUME NEW r \in Seq(Y), NEW s \in Seq(X) PROVE r \o s \in Seq(Y) /\ Those(r \o s, Stalled) = Those(r, Stalled)
  <2>1. s \in Seq(Y) /\ Those(s, Stalled) = <<>>
    BY <1>7
  <2>2. Those(r \o s, Stalled) = Those(r, Stalled) \o Those(s, Stalled)
    BY <1>0, <2>1
  <2>3. Those(r, Stalled) \in Seq(Y)
    BY ThoseTyped
  <2> QED
    BY <2>1, <2>2, <2>3, ConcatProperties, ConcatEmptySeq
<1> HIDE DEF r1
<1>10. r2 \in Seq(Y) /\ Those(r2, Stalled) = Those(r1, Stalled)
  BY <1>4, <1>8, <1>9
<1> HIDE DEF r2
<1>11. r3 \in Seq(Y) /\ Those(r3, Stalled) = Those(r2, Stalled)
  BY <1>6, <1>9, <1>10
<1> HIDE DEF r3
<1>12. r4 \in Seq(Y) /\ Those(r4, Stalled) = Those(r3, Stalled)
  BY <1>6, <1>9, <1>11
<1>13. ASSUME NEW k \in 1..Len(L4) PROVE L4[k] \in ToSet(r4)
  <2>1. /\ Len(r3) \in Nat /\ Len(L4) \in Nat /\ Len(r4) = Len(r3) + Len(L4) /\ DOMAIN r4 = 1..Len(r4)
        /\ r4[Len(r3) + k] = L4[k]
    BY <1>6, <1>11, <1>12, ConcatProperties, LenProperties
  <2>2. Len(r3) + k \in 1..Len(r4)
    BY <2>1
  <2> HIDE DEF r4
  <2> QED
    BY <2>1, <2>2 DEF ToSet
<1> QED
  BY <1>1, <1>5, <1>8, <1>10, <1>11, <1>12, <1>13 DEF Y, l

LEMMA ReportRests ==
  ASSUME NEW s \in Seq({Text, Blank}), report \in Seq(ReportLine), report' = report \o s
  PROVE  /\ report' \in Seq(ReportLine) /\ Those(report', Stalled) = Those(report, Stalled)
         /\ ToSet(report) \subseteq ToSet(report')
<1> DEFINE X == {Text, Blank}
           Y == ReportLine
           r == report \o s
<1>1. X \subseteq Y /\ X \cap Stalled = {}
  BY DEF ReportLine, Stalled, Text, Blank
<1> HIDE DEF X, Y
<1>2. s \in Seq(X) /\ s \in Seq(Y) /\ report \in Seq(Y)
  BY <1>1 DEF X, Y
<1>3. \A q, t \in Seq(Y) : Those(q \o t, Stalled) = Those(q, Stalled) \o Those(t, Stalled)
  BY ThoseJoin
<1>4. Those(s, Stalled) = <<>>
  BY <1>1, <1>2, NoneOfThose
<1>5. Those(report, Stalled) \in Seq(Y)
  BY <1>2, ThoseTyped
<1>6. Those(report, Stalled) \o <<>> = Those(report, Stalled)
  BY <1>5, ConcatEmptySeq
<1>7. /\ r \in Seq(Y) /\ DOMAIN report = 1..Len(report) /\ DOMAIN r = 1..Len(r)
      /\ Len(report) \in Nat /\ Len(s) \in Nat /\ Len(r) = Len(report) + Len(s)
      /\ \A k \in 1..Len(report) : r[k] = report[k]
  BY <1>2, ConcatProperties, LenProperties
<1>8. Those(r, Stalled) = Those(report, Stalled)
  BY <1>2, <1>3, <1>4, <1>6
<1> HIDE DEF r
<1>9. ToSet(report) \subseteq ToSet(r)
  <2>1. \A k \in 1..Len(report) : k \in 1..Len(r)
    BY <1>7
  <2> QED
    BY <1>7, <2>1 DEF ToSet
<1> QED
  BY <1>7, <1>8, <1>9 DEF r, Y

--------------------------------------------------------------------------------
(* The search.                                                             *)

LEMMA SameStall ==
  ASSUME program' = program, type' = type, row' = row
  PROVE  /\ Position' = Position /\ Waits' = Waits
         /\ Before(Position)' = Before(Position) /\ Ahead(Position[1])' = Ahead(Position[1])
         /\ \A kind : CommentsBefore(kind, Position)' = CommentsBefore(kind, Position)
         /\ \A p : Where(p)' = Where(p)
<1>1. Position' = Position
  BY DEF Position
<1>2. Waits' = Waits
  BY <1>1, SameKernel DEF Waits
<1>3. Before(Position)' = Before(Position) /\ Ahead(Position[1])' = Ahead(Position[1])
  BY <1>1, SameKernel
<1>4. \A kind : CommentsBefore(kind, Position)' = CommentsBefore(kind, Position)
  BY <1>1, SameKernel
<1>5. \A p : Where(p)' = Where(p)
  BY <1>1 DEF Where
<1> QED
  BY <1>1, <1>2, <1>3, <1>4, <1>5

\* Of a stall that the search is through with nothing changes.
LEMMA SearchKept ==
  ASSUME Typed, SearchInv, program' = program, UNCHANGED <<type, row, search>>,
         ~Searching, ~Searching', ToSet(report) \subseteq ToSet(report')
  PROVE  SearchInv'
<1> SUFFICES ASSUME Searched' PROVE (Found /\ ToCheck /\ Checked /\ Sourced /\ Named)'
  BY DEF SearchInv
<1> USE SameKernel, SameStall
<1>1. UNCHANGED <<sbids_stalled, bbs_to_check, j, place, stall, unresolved, source>>
  BY DEF search
<1>2. Searched
  BY DEF Searched
<1>3. Found /\ ToCheck /\ Checked /\ Sourced /\ Named
  BY <1>2 DEF SearchInv
<1>4. Found'
  BY <1>1, <1>3 DEF Found
<1>5. ToCheck'
  BY <1>1, <1>3 DEF ToCheck
<1>6. \A c : IsListed(c)' = IsListed(c)
  BY <1>1 DEF IsListed
<1>7. \A e, n : Passed(e, n)' = Passed(e, n)
  BY <1>1 DEF Passed
<1>8. Checked'
  <2>1. pc' # "found"
    BY DEF Searching
  <2>2. j' \in 0..Len(bbs_to_check') /\ (sbids_stalled' = <<>> \/ j' = Len(bbs_to_check'))
    BY <1>1, <1>3 DEF Checked
  <2>3. \A i \in 1..j' : Passed(bbs_to_check[i], 0)' /\ \A c \in ToSet(Preds(bbs_to_check[i][1]))' : IsListed(c)'
    BY <1>1, <1>3, <1>6, <1>7 DEF Checked
  <2> QED
    BY <2>1, <2>2, <2>3 DEF Checked
<1>9. \A kind, p : Closest(kind, p)' = Closest(kind, p)
  BY <1>1 DEF Closest
<1>10. Sourced'
  BY <1>1, <1>3, <1>9 DEF Sourced
<1>11. Named'
  BY <1>1, <1>3 DEF Named, Code
<1> QED
  BY <1>4, <1>5, <1>8, <1>10, <1>11

LEMMA SearchStarts ==
  ASSUME Typed, FindSbids
  PROVE  SearchInv'
<1> USE SameKernel
<1> DEFINE h == Here
           w == Tokens(Item(h))
<1>1. /\ program' = program /\ type' = type /\ pc' = "search" /\ NextStall /\ Here # Nowhere
      /\ sbids_stalled' = w /\ bbs_to_check' = <<<<h[1], 1, h[2] - 1>>>>
      /\ j' = 0 /\ place' = h[2] - 1 /\ stall' = <<>>
      /\ unresolved' = [k \in Kinds |-> {Nowhere}] /\ source' = [k \in Kinds |-> << >>]
  BY DEF FindSbids
<1>2. Position' = h /\ h \in Instructions(program) /\ h \in Positions(program) /\ program \in Programs
  BY <1>1, HereTyped, StallFacts DEF Typed
<1>3. /\ h[1] \in DOMAIN program.blocks /\ h[2] \in 1..Len(program.blocks[h[1]])
      /\ h[2] \in Nat /\ h[2] >= 1 /\ h[1] \in Nat
  BY <1>2, PositionFacts
<1>4. w \in Seq(Token) /\ \A m, n \in 1..Len(w) : w[m] = w[n] => m = n
  BY <1>2, TokensFacts
<1>5. Waits' = w
  BY <1>1, <1>2 DEF Waits
<1> HIDE DEF h, w
<1>6. w \in Seq(ToSet(w)) /\ Len(w) \in Nat /\ DOMAIN w = 1..Len(w)
  <2>1. DOMAIN w = 1..Len(w) /\ Len(w) \in Nat /\ w = [k \in 1..Len(w) |-> w[k]]
    BY <1>4, LenProperties
  <2>2. \A k \in 1..Len(w) : w[k] \in ToSet(w)
    BY <2>1 DEF ToSet
  <2> QED
    BY <2>1, <2>2
<1>7. Searching'
  BY <1>1 DEF Searching
<1>8. Found'
  <2>1. stall' \in Seq(Before(Position)') /\ DOMAIN stall' = {} /\ Len(stall') = 0
    BY <1>1
  <2> QED
    BY <1>1, <1>4, <1>5, <1>6, <2>1 DEF Found
<1> DEFINE e == <<h[1], 1, h[2] - 1>>
<1>9. bbs_to_check' = <<e>> /\ Len(<<e>>) = 1 /\ <<e>>[1] = e /\ e[1] = h[1] /\ e[3] = h[2] - 1 /\ h[2] - 1 \in Nat
  BY <1>1, <1>3
<1>10. ToCheck'
  <2>1. e \in (DOMAIN program.blocks) \X {1} \X Nat
    BY <1>3
  <2> HIDE DEF e
  <2>2. <<e>> \in Seq((DOMAIN program.blocks) \X {1} \X Nat) /\ <<e>> # <<>>
    BY <2>1
  <2>3. e = <<h[1], 1, h[2] - 1>>
    BY DEF e
  <2> QED
    BY <1>1, <1>2, <1>9, <2>2, <2>3 DEF ToCheck
<1> HIDE DEF e
<1>11. Checked'
  <2>1. j' \in 0..Len(bbs_to_check') /\ j' < Len(bbs_to_check') /\ bbs_to_check'[j' + 1] = e
    BY <1>1, <1>9
  <2>2. place' \in 0..e[3]
    BY <1>1, <1>9
  <2>3. (place' + 1)..e[3] = {}
    BY <1>1, <1>3, <1>9
  <2>4. Passed(bbs_to_check[j + 1], place)'
    BY <2>1, <2>3 DEF Passed
  <2> QED
    BY <1>1, <1>7, <2>1, <2>2, <2>4 DEF Checked
<1>12. Sourced'
  <2>1. Where(Nowhere)' = h
    BY <1>2 DEF Where
  <2>2. ASSUME NEW kind \in Kinds PROVE Near(kind, Where(Nowhere))'
    <3>1. j' < Len(bbs_to_check') /\ bbs_to_check'[j' + 1][1] = h[1] /\ place' + 1 = h[2]
      BY <1>1, <1>3, <1>9
    <3>2. \A m \in 1..(h[2] - 1) : ~(h[2] <= m)
      BY <1>3
    <3> QED
      BY <1>1, <1>3, <2>1, <3>1, <3>2 DEF Near, NoneBetween
  <2>3. ToSet(<<>>) = {}
    BY DEF ToSet
  <2> QED
    BY <1>1, <1>7, <2>2, <2>3 DEF Sourced
<1> QED
  BY <1>7, <1>8, <1>10, <1>11, <1>12 DEF SearchInv, Named

\* The closest comment above a place, of one that is met there and of one that is not.
LEMMA AboveIn ==
  ASSUME program \in Programs, NEW kind, NEW w \in Positions(program), NEW n \in Nat
  PROVE  /\ n # 0 /\ n < w[2] /\ Item(<<w[1], n>>).kind = kind /\ NoneBetween(kind, w, n + 1)
              => Above(kind, w) = <<w[1], n>>
         /\ NoneBetween(kind, w, 1) => Above(kind, w)[1] # w[1]
         /\ n <= w[2] /\ NoneBetween(kind, w, n) => Above(kind, w) = Above(kind, <<w[1], n>>)
<1> DEFINE C == CommentsBefore(kind, w)
<1>1. /\ w[1] \in DOMAIN program.blocks /\ w[2] \in 1..Len(program.blocks[w[1]]) /\ w[1] \in Nat /\ w[2] \in Nat
      /\ w[1] # 0 /\ Len(program.blocks[w[1]]) \in Nat /\ w = <<w[1], w[2]>>
  BY PositionFacts, ProgramFacts
<1>2. \A r \in Positions(program) : r = <<r[1], r[2]>> /\ r[1] \in Nat /\ r[2] \in Nat /\ r[2] # 0
  BY PositionFacts
<1>3. \A r : r \in C <=> r \in Positions(program) /\ Item(r).kind = kind /\ Precedes(r, w)
  BY DEF CommentsBefore
<1>4. \A m \in Nat : \A r \in C : NoneBetween(kind, w, m) /\ r[1] = w[1] => r[2] < m
  <2> SUFFICES ASSUME NEW m \in Nat, NEW r \in C, NoneBetween(kind, w, m), r[1] = w[1] PROVE r[2] < m
    OBVIOUS
  <2>1. r = <<w[1], r[2]>> /\ r[2] \in Nat /\ r[2] # 0 /\ r[2] < w[2] /\ Item(r).kind = kind
    BY <1>1, <1>2, <1>3 DEF Precedes
  <2>2. r[2] \in 1..(w[2] - 1)
    BY <1>1, <2>1
  <2> QED
    BY <2>1, <2>2 DEF NoneBetween
<1>5. ASSUME n # 0, n < w[2], Item(<<w[1], n>>).kind = kind, NoneBetween(kind, w, n + 1)
      PROVE  Above(kind, w) = <<w[1], n>>
  <2> DEFINE q == <<w[1], n>>
  <2>1. q \in C
    <3>1. n \in 1..Len(program.blocks[w[1]])
      BY <1>1, <1>5
    <3>2. q \in Positions(program)
      BY <1>1, <3>1, PositionFacts
    <3>3. Precedes(q, w)
      BY <1>5 DEF Precedes
    <3> QED
      BY <1>3, <1>5, <3>2, <3>3
  <2>2. ASSUME NEW r \in C, Precedes(q, r) PROVE FALSE
    <3>1. r[1] \in Nat /\ r[2] \in Nat /\ Precedes(r, w)
      BY <1>2, <1>3
    <3>2. r[1] = w[1] /\ n < r[2]
      BY <1>1, <2>2, <3>1 DEF Precedes
    <3>3. n + 1 \in Nat
      OBVIOUS
    <3>4. r[2] < n + 1
      BY <1>4, <1>5, <3>2, <3>3
    <3> QED
      BY <3>1, <3>2, <3>4
  <2> HIDE DEF q
  <2>3. Above(kind, w) = q
    BY <2>1, <2>2, AboveFacts
  <2> QED
    BY <2>3 DEF q
<1>6. ASSUME NoneBetween(kind, w, 1) PROVE Above(kind, w)[1] # w[1]
  <2>1. CASE C = {}
    <3>1. Above(kind, w) = Nowhere
      BY <2>1, AboveFacts
    <3> QED
      BY <1>1, <3>1 DEF Nowhere
  <2>2. CASE C # {}
    <3>1. Above(kind, w) \in C
      BY <2>2, AboveFacts
    <3> HIDE DEF C
    <3>2. Above(kind, w)[1] = w[1] => Above(kind, w)[2] < 1
      BY <1>4, <1>6, <3>1
    <3>3. Above(kind, w)[2] \in Nat /\ Above(kind, w)[2] # 0
      BY <1>2, <1>3, <3>1
    <3> QED
      BY <3>2, <3>3
  <2> QED
    BY <2>1, <2>2
<1>7. ASSUME n <= w[2], NoneBetween(kind, w, n) PROVE Above(kind, w) = Above(kind, <<w[1], n>>)
  <2> DEFINE q == <<w[1], n>>
             B == CommentsBefore(kind, q)
  <2>1. \A r : r \in B <=> r \in Positions(program) /\ Item(r).kind = kind /\ Precedes(r, q)
    BY DEF CommentsBefore
  <2>2. ASSUME NEW r \in Positions(program), Item(r).kind = kind PROVE Precedes(r, q) <=> Precedes(r, w)
    <3>1. r[1] \in Nat /\ r[2] \in Nat
      BY <1>2
    <3>2. Precedes(r, q) => Precedes(r, w)
      BY <1>1, <1>7, <3>1 DEF Precedes
    <3>3. ASSUME Precedes(r, w) PROVE Precedes(r, q)
      <4>1. r \in C
        BY <1>3, <2>2, <3>3
      <4>2. r[1] = w[1] => r[2] < n
        BY <1>4, <1>7, <4>1
      <4> QED
        BY <1>1, <3>1, <3>3, <4>2 DEF Precedes
    <3> QED
      BY <3>2, <3>3
  <2> HIDE DEF q, C, B
  <2>3. B = C
    BY <1>3, <2>1, <2>2
  <2> DEFINE Top(S) == IF S = {} THEN Nowhere ELSE CHOOSE x \in S : \A r \in S : ~Precedes(x, r)
  <2>4. Above(kind, w) = Top(C) /\ Above(kind, q) = Top(B)
    BY DEF Above, C, B
  <2> HIDE DEF Top
  <2>5. Above(kind, w) = Above(kind, q)
    BY <2>3, <2>4
  <2> QED
    BY <2>5 DEF q
<1> QED
  BY <1>5, <1>6, <1>7

\* What is known while the search goes on.
LEMMA SearchFacts ==
  ASSUME Typed, SearchInv, Searching
  PROVE  /\ program \in Programs /\ type = 1 /\ row > 0 /\ Position # Nowhere
         /\ Position \in Positions(program) /\ Position \in Instructions(program)
         /\ Found /\ ToCheck /\ Checked /\ Sourced
         /\ Len(bbs_to_check) \in Nat /\ Len(bbs_to_check) >= 1 /\ j \in Nat /\ j <= Len(bbs_to_check)
         /\ \A i \in 1..Len(bbs_to_check) :
              /\ bbs_to_check[i][1] \in DOMAIN program.blocks
              /\ bbs_to_check[i][1] \in {Position[1]} \cup Ahead(Position[1])
              /\ bbs_to_check[i][3] \in Nat
              /\ \A m \in 1..bbs_to_check[i][3] : <<bbs_to_check[i][1], m>> \in Before(Position)
         /\ ToSet(stall) \subseteq Before(Position) /\ Before(Position) \subseteq Positions(program)
         /\ Nowhere \notin ToSet(stall)
<1>1. /\ program \in Programs /\ type = 1 /\ row > 0 /\ Position # Nowhere
      /\ Position \in Positions(program) /\ Position \in Instructions(program)
  BY PositionTyped DEF Typed, Searched
<1>2. Found /\ ToCheck /\ Checked /\ Sourced
  BY DEF SearchInv, Searched
<1>3. Position[1] \in DOMAIN program.blocks /\ Position[2] \in Nat /\ Position[2] # 0
  BY <1>1, PositionFacts
<1>4. bbs_to_check \in Seq((DOMAIN program.blocks) \X {1} \X Nat) /\ bbs_to_check # <<>>
  BY <1>2 DEF ToCheck
<1>5. Len(bbs_to_check) \in Nat /\ Len(bbs_to_check) >= 1
  BY <1>4, EmptySeq, LenProperties
<1>6. ASSUME NEW i \in 1..Len(bbs_to_check)
      PROVE  /\ bbs_to_check[i][1] \in DOMAIN program.blocks
             /\ bbs_to_check[i][1] \in {Position[1]} \cup Ahead(Position[1])
             /\ bbs_to_check[i][3] \in Nat
             /\ \A m \in 1..bbs_to_check[i][3] : <<bbs_to_check[i][1], m>> \in Before(Position)
  <2>1. bbs_to_check[i] \in (DOMAIN program.blocks) \X {1} \X Nat
    BY <1>4, ElementOfSeq
  <2>2. CASE i = 1
    <3>1. bbs_to_check[i][1] = Position[1] /\ bbs_to_check[i][3] = Position[2] - 1
      BY <1>2, <2>2 DEF ToCheck
    <3> QED
      BY <1>1, <2>1, <3>1, BeforeFacts
  <2>3. CASE i # 1
    <3>1. i \in 2..Len(bbs_to_check)
      BY <1>5, <2>3
    <3>2. PICK c \in Ahead(Position[1]) : bbs_to_check[i] = WholeBlock(c)
      BY <1>2, <3>1 DEF ToCheck
    <3>3. bbs_to_check[i][1] = c /\ bbs_to_check[i][3] = Len(program.blocks[c])
      BY <3>2 DEF WholeBlock
    <3> QED
      BY <1>1, <2>1, <3>3, BeforeFacts
  <2> QED
    BY <2>2, <2>3
<1>7. j \in Nat /\ j <= Len(bbs_to_check)
  BY <1>2, <1>5 DEF Checked
<1>8. ToSet(stall) \subseteq Before(Position)
  BY <1>2, LenProperties, ElementOfSeq DEF Found, ToSet
<1>9. Before(Position) \subseteq Positions(program) /\ Nowhere \notin ToSet(stall)
  BY <1>1, <1>8, BeforeFacts, PositionFacts
<1> QED
  BY <1>1, <1>2, <1>5, <1>6, <1>7, <1>8, <1>9

LEMMA CurrentFacts ==
  ASSUME Typed, SearchInv, NEW kinds, Looking(kinds)
  PROVE  /\ Searching /\ pc = "search" /\ j < Len(bbs_to_check) /\ j + 1 \in 1..Len(bbs_to_check)
         /\ place \in 1..bbs_to_check[j + 1][3] /\ place \in Nat /\ place # 0
         /\ Current[1] = bbs_to_check[j + 1][1] /\ Current[2] = place
         /\ Current \in Before(Position) /\ Current \in Positions(program)
<1>1. pc = "search" /\ place > 0 /\ Searching
  BY DEF Looking, Searching
<1>2. /\ Checked /\ Len(bbs_to_check) \in Nat /\ j \in Nat /\ j <= Len(bbs_to_check)
      /\ Before(Position) \subseteq Positions(program)
  BY <1>1, SearchFacts
<1>3. j < Len(bbs_to_check)
  <2>1. j # Len(bbs_to_check)
    BY <1>1, <1>2 DEF Checked
  <2> QED
    BY <1>2, <2>1
<1>4. j + 1 \in 1..Len(bbs_to_check)
  BY <1>2, <1>3
<1>5. bbs_to_check[j + 1][3] \in Nat /\ \A m \in 1..bbs_to_check[j + 1][3] : <<bbs_to_check[j + 1][1], m>> \in Before(Position)
  BY <1>1, <1>4, SearchFacts
<1>6. place \in 0..bbs_to_check[j + 1][3]
  BY <1>1, <1>2, <1>3 DEF Checked
<1>7. place \in 1..bbs_to_check[j + 1][3] /\ place \in Nat /\ place # 0
  BY <1>1, <1>5, <1>6
<1>8. Current = <<bbs_to_check[j + 1][1], place>>
  BY DEF Current
<1> QED
  BY <1>1, <1>2, <1>3, <1>4, <1>5, <1>7, <1>8

\* An item is looked at that sets none of the tokens that are left.
LEMMA LookedAt ==
  ASSUME Typed, SearchInv, NEW kinds, Looking(kinds), Leave(sbids_stalled'),
         UNCHANGED <<program, type, row, bbs_to_check, j>>,
         ToSet(sbids_stalled') \subseteq {t \in ToSet(sbids_stalled) : ~SetsAt(Current, t)}
  PROVE  /\ Searching' /\ ToCheck' /\ Checked'
         /\ \A kind : \A p \in Positions(program) : Near(kind, p) /\ Item(Current).kind # kind => Near(kind, p)'
         /\ \A kind, p : Far(kind, p) => Far(kind, p)'
         /\ \A kind, p : p = Current => Near(kind, p)'
<1> USE SameKernel, SameStall
<1> DEFINE e == bbs_to_check[j + 1]
<1>1. /\ ToCheck /\ Checked /\ j \in Nat /\ Len(bbs_to_check) \in Nat /\ j <= Len(bbs_to_check)
      /\ pc = "search" /\ j < Len(bbs_to_check) /\ j + 1 \in 1..Len(bbs_to_check) /\ Searching
      /\ place \in 1..e[3] /\ place \in Nat /\ place # 0 /\ e[3] \in Nat
      /\ Current[1] = e[1] /\ Current[2] = place /\ Current \in Positions(program)
  BY CurrentFacts, SearchFacts
<1>2. Current = <<e[1], place>>
  BY DEF Current
<1>3. /\ pc' = IF sbids_stalled' = <<>> THEN "found" ELSE pc
      /\ place' = IF sbids_stalled' = <<>> THEN place ELSE place - 1
  BY DEF Leave
<1>4. Searching'
  BY <1>1, <1>3 DEF Searching
<1>5. ToCheck'
  BY <1>1 DEF ToCheck
<1>6. \A c : IsListed(c)' = IsListed(c)
  BY DEF IsListed
<1> HIDE DEF e
<1>7. \A f, n : Passed(f, n) => Passed(f, n)'
  BY DEF Passed
<1>8. ASSUME NEW m \in place..e[3], NEW t \in ToSet(sbids_stalled') PROVE ~SetsAt(<<e[1], m>>, t)
  <2>1. Passed(e, place)
    BY <1>1 DEF Checked, e
  <2>2. CASE m = place
    BY <1>2, <1>8, <2>2
  <2>3. CASE m # place
    <3>1. m \in (place + 1)..e[3]
      BY <1>1, <2>3
    <3> QED
      BY <1>8, <2>1, <3>1 DEF Passed
  <2> QED
    BY <2>2, <2>3
<1>9. bbs_to_check[j + 1]' = e
  BY DEF e
<1>10. place' \in 0..e[3] /\ Passed(bbs_to_check[j + 1], place)'
  <2>1. CASE sbids_stalled' = <<>>
    <3>1. ToSet(sbids_stalled') = {}
      BY <2>1 DEF ToSet
    <3> QED
      BY <1>1, <1>3, <2>1, <3>1 DEF Passed
  <2>2. CASE sbids_stalled' # <<>>
    <3>1. place' = place - 1 /\ place' + 1 = place /\ place' \in 0..e[3]
      BY <1>1, <1>3, <2>2
    <3> QED
      BY <1>8, <1>9, <3>1 DEF Passed
  <2> QED
    BY <2>1, <2>2
<1>11. Checked'
  <2>1. \A i \in 1..j' : Passed(bbs_to_check[i], 0)' /\ \A c \in ToSet(Preds(bbs_to_check[i][1]))' : IsListed(c)'
    BY <1>1, <1>6, <1>7 DEF Checked
  <2>2. j' \in 0..Len(bbs_to_check') /\ j' < Len(bbs_to_check') /\ (pc' = "found" => sbids_stalled' = <<>>)
    BY <1>1, <1>3
  <2>3. ~(j' = Len(bbs_to_check'))
    BY <1>1
  <2> QED
    BY <1>4, <1>9, <1>10, <2>1, <2>2, <2>3 DEF Checked
\* From where the comments are looked for now.
<1>12. (IF pc' = "found" THEN place' ELSE place' + 1) = place
  BY <1>1, <1>3
<1>13. ASSUME NEW kind, NEW p \in Positions(program), Near(kind, p), Item(Current).kind # kind
       PROVE  Near(kind, p)'
  <2>1. p[1] = e[1] /\ place + 1 <= p[2] /\ NoneBetween(kind, p, place + 1)
    BY <1>1, <1>13 DEF Near, e
  <2>2. ASSUME NEW m \in 1..(p[2] - 1), place <= m PROVE Item(<<p[1], m>>).kind # kind
    <3>1. CASE m = place
      BY <1>2, <1>13, <2>1, <3>1
    <3>2. CASE m # place
      <4>1. place + 1 <= m
        BY <1>1, <2>2, <3>2
      <4> QED
        BY <2>1, <4>1 DEF NoneBetween
    <3> QED
      BY <3>1, <3>2
  <2>3. p[2] \in Nat /\ place <= p[2]
    BY <1>1, <2>1, PositionFacts DEF Typed
  <2> QED
    BY <1>1, <1>9, <1>12, <2>1, <2>2, <2>3 DEF Near, NoneBetween
<1>14. ASSUME NEW kind, NEW p, Far(kind, p) PROVE Far(kind, p)'
  BY <1>14 DEF Far, NoneBetween
<1>15. ASSUME NEW kind, NEW p, p = Current PROVE Near(kind, p)'
  <2>1. p[1] = e[1] /\ p[2] = place
    BY <1>1, <1>15
  <2>2. \A m \in 1..(place - 1) : ~(place <= m)
    BY <1>1
  <2> QED
    BY <1>1, <1>9, <1>12, <2>1, <2>2 DEF Near, NoneBetween
<1> QED
  BY <1>4, <1>5, <1>11, <1>13, <1>14, <1>15

LEMMA InstructionLookedAt ==
  ASSUME Typed, SearchInv, LookAtInstruction
  PROVE  SearchInv'
<1> USE SameKernel, SameStall
<1> DEFINE ins == Item(Current)
           left == RemoveWhileIterating(ins, sbids_stalled)
           d == Len(sbids_stalled) - Len(left)
           found == [k \in 1..d |-> Current]
           Lost == \E t \in ToSet(sbids_stalled) : Sets(ins, t)
<1>1. /\ Looking({"ins"}) /\ sbids_stalled' = left /\ stall' = stall \o found
      /\ unresolved' = [k \in Kinds |-> unresolved[k] \cup ToSet(found)] /\ Leave(left)
      /\ UNCHANGED <<program, type, row, bbs_to_check, j, source>>
  BY DEF LookAtInstruction
<1>2. /\ Searching /\ Current \in Before(Position) /\ Current \in Positions(program) /\ j < Len(bbs_to_check)
  BY <1>1, CurrentFacts
<1>3. /\ program \in Programs /\ Position \in Positions(program) /\ Position \in Instructions(program)
      /\ Found /\ Sourced /\ ToSet(stall) \subseteq Before(Position) /\ Before(Position) \subseteq Positions(program)
      /\ Position # Nowhere /\ type = 1 /\ row > 0
  BY <1>2, SearchFacts
<1>4. ins.kind = "ins" /\ ins.kind \notin Kinds
  BY <1>1 DEF Looking, Kinds
<1>5. /\ sbids_stalled \in Seq(ToSet(Waits)) /\ Len(sbids_stalled) \in Nat /\ DOMAIN sbids_stalled = 1..Len(sbids_stalled)
      /\ \A m, n \in 1..Len(sbids_stalled) : sbids_stalled[m] = sbids_stalled[n] => m = n
      /\ \A n \in 1..Len(sbids_stalled) : sbids_stalled[n] \in ToSet(Waits)
      /\ ToSet(sbids_stalled) \subseteq ToSet(Waits)
  <2>1. sbids_stalled \in Seq(ToSet(Waits))
    BY <1>3 DEF Found
  <2>2. DOMAIN sbids_stalled = 1..Len(sbids_stalled) /\ Len(sbids_stalled) \in Nat
    BY <2>1, LenProperties
  <2>3. \A n \in 1..Len(sbids_stalled) : sbids_stalled[n] \in ToSet(Waits)
    BY <2>1, ElementOfSeq
  <2>4. \A m, n \in DOMAIN sbids_stalled : sbids_stalled[m] = sbids_stalled[n] => m = n
    BY <1>3 DEF Found
  <2>5. ToSet(sbids_stalled) \subseteq ToSet(Waits)
    BY <2>2, <2>3 DEF ToSet
  <2> QED
    BY <2>1, <2>2, <2>3, <2>4, <2>5
<1>6. \A m, n \in 1..Len(sbids_stalled) :
        Sets(ins, sbids_stalled[m]) /\ Sets(ins, sbids_stalled[n]) => m = n
  <2>1. \A s, t \in ToSet(Waits) : Sets(ins, s) /\ Sets(ins, t) => s = t
    BY <1>2, <1>3, TokensFacts DEF Waits
  <2> HIDE DEF ins
  <2> QED
    BY <1>5, <2>1
<1> HIDE DEF ins
<1>7. /\ left \in Seq(ToSet(Waits)) /\ \A m, n \in 1..Len(left) : left[m] = left[n] => m = n
      /\ ToSet(left) = {t \in ToSet(sbids_stalled) : ~Sets(ins, t)}
      /\ Len(left) \in Nat /\ Len(left) = Len(sbids_stalled) - (IF Lost THEN 1 ELSE 0)
  BY <1>5, <1>6, TokensLeft
<1>8. DOMAIN left = 1..Len(left)
  BY <1>7, LenProperties
<1> HIDE DEF left
<1>9. d = (IF Lost THEN 1 ELSE 0) /\ (Lost => d = 1) /\ (~Lost => d = 0) /\ d \in Nat
  <2>1. Len(sbids_stalled) \in Nat /\ Len(left) \in Nat
    BY <1>5, <1>7
  <2>2. (Lost => Len(left) = Len(sbids_stalled) - 1) /\ (~Lost => Len(left) = Len(sbids_stalled) - 0)
    BY <1>7, Zenon
  <2> HIDE DEF Lost
  <2>3. (Lost => d = 1) /\ (~Lost => d = 0)
    BY ONLY <2>1, <2>2 DEF d
  <2> QED
    BY <2>3
<1> HIDE DEF d
<1>10. /\ found \in Seq({Current}) /\ Len(found) = d /\ DOMAIN found = 1..d
       /\ (Lost => ToSet(found) = {Current}) /\ (~Lost => ToSet(found) = {}) /\ \A k \in 1..d : found[k] = Current
  <2>1. d \in Nat /\ DOMAIN found = 1..d /\ \A k \in 1..d : found[k] = Current
    BY <1>9
  <2>2. found \in Seq({Current}) /\ Len(found) = d
    BY <2>1
  <2>3. (Lost => ToSet(found) = {Current}) /\ (~Lost => ToSet(found) = {})
    <3>1. Lost => 1 \in DOMAIN found
      BY <1>9, <2>1
    <3>2. ~Lost => DOMAIN found = {}
      BY <1>9, <2>1
    <3> HIDE DEF found, d, Lost
    <3>3. \A k \in DOMAIN found : found[k] = Current
      BY <2>1
    <3> QED
      BY <3>1, <3>2, <3>3 DEF ToSet
  <2> QED
    BY <2>1, <2>2, <2>3
<1>11. \A t : SetsAt(Current, t) <=> Sets(ins, t)
  BY DEF SetsAt, ins
<1> HIDE DEF found, d, Lost
<1>12. /\ Searching' /\ ToCheck' /\ Checked'
       /\ \A kind : \A p \in Positions(program) : Near(kind, p) /\ ins.kind # kind => Near(kind, p)'
       /\ \A kind, p : Far(kind, p) => Far(kind, p)'
       /\ \A kind, p : p = Current => Near(kind, p)'
  <2>1. ToSet(sbids_stalled') \subseteq {t \in ToSet(sbids_stalled) : ~SetsAt(Current, t)}
    BY <1>1, <1>7, <1>11
  <2>2. Leave(sbids_stalled')
    BY <1>1
  <2> QED
    BY <1>1, <2>1, <2>2, LookedAt DEF ins
<1>13. stall \in Seq(Before(Position)) /\ found \in Seq(Before(Position)) /\ Len(stall) \in Nat /\ Len(found) \in Nat
  <2>1. stall \in Seq(Before(Position))
    BY <1>3 DEF Found
  <2>2. {Current} \subseteq Before(Position)
    BY <1>2
  <2>3. found \in Seq(Before(Position))
    BY <1>10, <2>2, SeqMonotonic
  <2> QED
    BY <2>1, <2>3, LenProperties
<1>14. /\ stall' \in Seq(Before(Position)) /\ Len(stall') = Len(stall) + Len(found)
       /\ DOMAIN stall' = 1..Len(stall') /\ DOMAIN stall = 1..Len(stall)
       /\ \A k \in 1..Len(stall) : stall'[k] = stall[k]
       /\ \A k \in 1..Len(found) : stall'[Len(stall) + k] = found[k]
  BY <1>1, <1>13, ConcatProperties, LenProperties
<1>15. ToSet(stall') = ToSet(stall) \cup ToSet(found)
  <2>1. ASSUME NEW k \in 1..Len(stall') PROVE stall'[k] \in ToSet(stall) \cup ToSet(found)
    <3>1. CASE k <= Len(stall)
      <4>1. k \in 1..Len(stall)
        BY <1>13, <3>1
      <4> QED
        BY <1>14, <4>1 DEF ToSet
    <3>2. CASE ~(k <= Len(stall))
      <4> DEFINE n == k - Len(stall)
      <4>1. n \in 1..Len(found) /\ Len(stall) + n = k
        BY <1>13, <1>14, <3>2
      <4> HIDE DEF n
      <4>2. stall'[k] = found[n] /\ n \in DOMAIN found
        BY <1>10, <1>14, <4>1
      <4> QED
        BY <4>2 DEF ToSet
    <3> QED
      BY <3>1, <3>2
  <2>2. \A k \in 1..Len(stall) : k \in 1..Len(stall')
    BY <1>13, <1>14
  <2>3. \A k \in 1..Len(found) : Len(stall) + k \in 1..Len(stall')
    BY <1>13, <1>14
  <2>4. ToSet(stall) \subseteq ToSet(stall')
    BY <1>14, <2>2 DEF ToSet
  <2>5. ToSet(found) \subseteq ToSet(stall')
    <3>1. DOMAIN found = 1..Len(found)
      BY <1>10
    <3>2. \A k \in 1..Len(found) : found[k] = stall'[Len(stall) + k] /\ Len(stall) + k \in DOMAIN stall'
      BY <1>14, <2>3
    <3> QED
      BY <3>1, <3>2 DEF ToSet
  <2>6. ToSet(stall') \subseteq ToSet(stall) \cup ToSet(found)
    <3>1. \A x \in ToSet(stall') : \E k \in 1..Len(stall') : x = stall'[k]
      BY <1>14 DEF ToSet
    <3> QED
      BY <2>1, <3>1
  <2> QED
    BY <2>4, <2>5, <2>6
<1>16. Found'
  <2>1. \A m, n \in DOMAIN sbids_stalled' : sbids_stalled'[m] = sbids_stalled'[n] => m = n
    BY <1>1, <1>7, <1>8
  <2>2. ASSUME NEW x \in ToSet(stall') PROVE \E t \in ToSet(Waits) : SetsAt(x, t)
    <3>1. CASE x \in ToSet(stall)
      BY <1>3, <3>1 DEF Found, ToSet
    <3>2. CASE x \in ToSet(found)
      <4>1. Lost /\ x = Current
        BY <1>10, <3>2
      <4>2. PICK t \in ToSet(sbids_stalled) : Sets(ins, t)
        BY <4>1 DEF Lost
      <4> QED
        BY <1>5, <1>11, <4>1, <4>2
    <3> QED
      BY <1>15, <3>1, <3>2
  <2>3. \A k \in DOMAIN stall' : \E t \in ToSet(Waits) : SetsAt(stall'[k], t)
    BY <2>2 DEF ToSet
  <2>4. ASSUME NEW t \in ToSet(Waits) \ ToSet(sbids_stalled') PROVE \E q \in Before(Position) : SetsAt(q, t)
    <3>1. CASE t \in ToSet(sbids_stalled)
      <4>1. Sets(ins, t)
        BY <1>1, <1>7, <3>1
      <4> QED
        BY <1>2, <1>11, <4>1
    <3>2. CASE t \notin ToSet(sbids_stalled)
      BY <1>3, <3>2 DEF Found
    <3> QED
      BY <3>1, <3>2
  <2>5. Len(stall') + Len(sbids_stalled') = Len(Waits)
    <3>1. Len(stall) + Len(sbids_stalled) = Len(Waits)
      BY <1>3 DEF Found
    <3>2. Len(found) = Len(sbids_stalled) - Len(left)
      BY <1>10 DEF d
    <3>3. Len(stall') = Len(stall) + Len(found) /\ sbids_stalled' = left
      BY <1>1, <1>14
    <3>4. Len(stall) \in Nat /\ Len(sbids_stalled) \in Nat /\ Len(left) \in Nat /\ Len(found) \in Nat
      BY <1>5, <1>7, <1>13
    <3>5. Len(stall') + Len(left) = Len(Waits)
      BY ONLY <3>1, <3>2, <3>3, <3>4
    <3> QED
      BY <3>3, <3>5
  <2> QED
    BY <1>1, <1>7, <1>14, <2>1, <2>3, <2>4, <2>5 DEF Found
<1>17. Sourced'
  <2>1. ToSet(found) \subseteq {Current}
    BY <1>10
  <2>2. ASSUME NEW kind \in Kinds
        PROVE  /\ (DOMAIN source'[kind]) \cup unresolved'[kind] = ToSet(stall') \cup {Nowhere}
               /\ \A p \in DOMAIN source'[kind] : source'[kind][p] \in Positions(program) /\ Closest(kind, p)'
               /\ \A p \in unresolved'[kind] : Near(kind, Where(p))' \/ Far(kind, Where(p))'
    <3>1. unresolved'[kind] = unresolved[kind] \cup ToSet(found)
      BY <1>1
    <3>2. (DOMAIN source[kind]) \cup unresolved[kind] = ToSet(stall) \cup {Nowhere}
      BY <1>3 DEF Sourced
    <3>3. \A p \in DOMAIN source[kind] : source[kind][p] \in Positions(program) /\ Closest(kind, p)
      BY <1>3 DEF Sourced
    <3>4. \A p : Closest(kind, p)' = Closest(kind, p)
      BY <1>1 DEF Closest
    <3>5. ASSUME NEW p \in unresolved[kind] PROVE Near(kind, Where(p))' \/ Far(kind, Where(p))'
      <4> DEFINE w == Where(p)
      <4>1. Near(kind, w) \/ Far(kind, w)
        BY <1>2, <1>3 DEF Sourced
      <4>2. w \in Positions(program) /\ w' = w
        BY <1>1, <1>3, <3>2 DEF Where
      <4> HIDE DEF w
      <4>3. ins.kind # kind
        BY <1>4
      <4>4. Near(kind, w)' \/ Far(kind, w)'
        <5> DEFINE v == w
        <5>1. \A q : q = w => Near(kind, q)' \/ Far(kind, q)'
          BY <1>12, <4>1, <4>2, <4>3
        <5> QED
          BY <4>2, <5>1
      <4> QED
        BY <4>4 DEF w
    <3>6. ASSUME NEW p \in ToSet(found) PROVE Near(kind, Where(p))'
      <4>1. p = Current /\ Where(p) = p /\ Where(p)' = p
        BY <1>1, <1>2, <1>3, <2>1, PositionFacts DEF Where
      <4> QED
        BY <1>12, <4>1
    <3> QED
      BY <1>1, <1>15, <3>1, <3>2, <3>3, <3>4, <3>5, <3>6
  <2>3. DOMAIN source' = Kinds /\ DOMAIN unresolved' = Kinds
    BY <1>1, <1>3 DEF Sourced
  <2> QED
    BY <1>1, <1>12, <2>2, <2>3 DEF Sourced
<1> QED
  BY <1>12, <1>16, <1>17 DEF SearchInv, Named

\* The comment that is met is the closest one above what is looked for in its block,
\* and in no case that one is further up in the block of what it is given to.
LEMMA CommentIsClosest ==
  ASSUME Typed, SearchInv, Looking(Kinds), NEW kind, kind = Item(Current).kind, NEW w \in Positions(program),
         Near(kind, w) \/ Far(kind, w)
  PROVE  Current = Above(kind, w) \/ (j > 0 /\ Above(kind, w)[1] # w[1])
<1>1. /\ pc = "search" /\ place \in Nat /\ place # 0 /\ Current = <<Current[1], place>>
      /\ Current[1] = bbs_to_check[j + 1][1] /\ program \in Programs /\ w[2] \in Nat
  BY CurrentFacts, PositionFacts DEF Current, Typed
<1>2. CASE Near(kind, w)
  <2>1. w[1] = Current[1] /\ place < w[2] /\ NoneBetween(kind, w, place + 1)
    BY <1>1, <1>2 DEF Near
  <2> QED
    BY <1>1, <2>1, AboveIn
<1>3. CASE Far(kind, w)
  BY <1>1, <1>3, AboveIn DEF Far
<1> QED
  BY <1>2, <1>3

LEMMA CommentLookedAt ==
  ASSUME Typed, SearchInv, LookAtComment
  PROVE  SearchInv'
<1> USE SameKernel, SameStall
<1> DEFINE met == Item(Current).kind
<1>1. /\ Looking(Kinds) /\ source' = [source EXCEPT ![met] = With(source[met], unresolved[met], Current)]
      /\ unresolved' = [unresolved EXCEPT ![met] = {}] /\ Leave(sbids_stalled)
      /\ UNCHANGED <<program, type, row, sbids_stalled, bbs_to_check, j, stall>>
  BY DEF LookAtComment
<1>2. /\ Searching /\ Current \in Before(Position) /\ Current \in Positions(program) /\ met \in Kinds
  BY <1>1, CurrentFacts DEF Looking
<1>3. /\ program \in Programs /\ Position \in Positions(program) /\ Found /\ Sourced
      /\ ToSet(stall) \subseteq Before(Position) /\ Before(Position) \subseteq Positions(program)
  BY <1>2, SearchFacts
<1>4. \A t : ~SetsAt(Current, t)
  <2>1. met # "ins"
    BY <1>2 DEF Kinds
  <2> QED
    BY <2>1 DEF SetsAt, Sets
<1>5. /\ Searching' /\ ToCheck' /\ Checked'
      /\ \A kind : \A p \in Positions(program) : Near(kind, p) /\ met # kind => Near(kind, p)'
      /\ \A kind, p : Far(kind, p) => Far(kind, p)'
  <2>1. ToSet(sbids_stalled') \subseteq {t \in ToSet(sbids_stalled) : ~SetsAt(Current, t)} /\ Leave(sbids_stalled')
    BY <1>1, <1>4
  <2> QED
    BY <1>1, <2>1, LookedAt
<1>6. Found'
  BY <1>1, <1>3 DEF Found
<1>7. DOMAIN source' = Kinds /\ DOMAIN unresolved' = Kinds
  BY <1>1, <1>3 DEF Sourced
<1> HIDE DEF met
<1>8. ASSUME NEW kind \in Kinds
      PROVE  /\ (DOMAIN source[kind]) \cup unresolved[kind] = ToSet(stall) \cup {Nowhere}
             /\ \A p \in DOMAIN source[kind] : source[kind][p] \in Positions(program) /\ Closest(kind, p)
             /\ \A p \in unresolved[kind] :
                  /\ Where(p) \in Positions(program) /\ Where(p)' = Where(p)
                  /\ Near(kind, Where(p)) \/ Far(kind, Where(p))
  <2>1. /\ (DOMAIN source[kind]) \cup unresolved[kind] = ToSet(stall) \cup {Nowhere}
        /\ \A p \in DOMAIN source[kind] : source[kind][p] \in Positions(program) /\ Closest(kind, p)
        /\ \A p \in unresolved[kind] : Near(kind, Where(p)) \/ Far(kind, Where(p))
    BY <1>2, <1>3 DEF Sourced
  <2>2. ASSUME NEW p \in unresolved[kind] PROVE Where(p) \in Positions(program) /\ Where(p)' = Where(p)
    BY <1>1, <1>3, <2>1 DEF Where
  <2> QED
    BY <2>1, <2>2
<1>9. ASSUME NEW kind \in Kinds, kind # met
      PROVE  /\ (DOMAIN source'[kind]) \cup unresolved'[kind] = ToSet(stall') \cup {Nowhere}
             /\ \A p \in DOMAIN source'[kind] : source'[kind][p] \in Positions(program) /\ Closest(kind, p)'
             /\ \A p \in unresolved'[kind] : Near(kind, Where(p))' \/ Far(kind, Where(p))'
  <2>1. source'[kind] = source[kind] /\ unresolved'[kind] = unresolved[kind] /\ stall' = stall
    BY <1>1, <1>3, <1>9 DEF Sourced
  <2>2. \A p : Closest(kind, p) => Closest(kind, p)'
    BY <1>1, <2>1 DEF Closest
  <2>3. ASSUME NEW p \in unresolved[kind] PROVE Near(kind, Where(p))' \/ Far(kind, Where(p))'
    <3> DEFINE w == Where(p)
    <3>1. w \in Positions(program) /\ w' = w /\ (Near(kind, w) \/ Far(kind, w))
      BY <1>8
    <3> HIDE DEF w
    <3>2. \A q : q = w => Near(kind, q)' \/ Far(kind, q)'
      BY <1>5, <1>9, <3>1
    <3>3. Near(kind, w)' \/ Far(kind, w)'
      BY <3>1, <3>2
    <3> QED
      BY <3>3 DEF w
  <2> QED
    BY <1>8, <2>1, <2>2, <2>3
<1>10. ASSUME NEW kind \in Kinds, kind = met
       PROVE  /\ (DOMAIN source'[kind]) \cup unresolved'[kind] = ToSet(stall') \cup {Nowhere}
              /\ \A p \in DOMAIN source'[kind] : source'[kind][p] \in Positions(program) /\ Closest(kind, p)'
              /\ unresolved'[kind] = {}
  <2>1. source'[kind] = With(source[kind], unresolved[kind], Current) /\ unresolved'[kind] = {} /\ stall' = stall
    BY <1>1, <1>3, <1>10 DEF Sourced
  <2>2. /\ DOMAIN source'[kind] = (DOMAIN source[kind]) \cup unresolved[kind]
        /\ \A p \in unresolved[kind] : source'[kind][p] = Current
        /\ \A p \in (DOMAIN source[kind]) \ unresolved[kind] : source'[kind][p] = source[kind][p]
    BY <2>1 DEF With
  <2>3. ASSUME NEW p \in unresolved[kind] PROVE Closest(kind, p)'
    <3>1. Where(p) \in Positions(program) /\ Where(p)' = Where(p) /\ (Near(kind, Where(p)) \/ Far(kind, Where(p)))
      BY <1>8
    <3>2. Current = Above(kind, Where(p)) \/ (j > 0 /\ Above(kind, Where(p))[1] # Where(p)[1])
      BY <1>1, <1>10, <3>1, CommentIsClosest DEF met
    <3>3. j' = j /\ Above(kind, Where(p))' = Above(kind, Where(p))
      BY <1>1, <3>1
    <3> QED
      BY <2>2, <3>1, <3>2, <3>3 DEF Closest
  <2>4. ASSUME NEW p \in (DOMAIN source[kind]) \ unresolved[kind] PROVE Closest(kind, p)'
    <3>1. Closest(kind, p) /\ source'[kind][p] = source[kind][p]
      BY <1>8, <2>2
    <3> QED
      BY <1>1, <3>1 DEF Closest
  <2> QED
    BY <1>2, <1>8, <2>1, <2>2, <2>3, <2>4
<1>11. Sourced'
  <2>1. ASSUME NEW kind \in Kinds
        PROVE  /\ (DOMAIN source'[kind]) \cup unresolved'[kind] = ToSet(stall') \cup {Nowhere}
               /\ \A p \in DOMAIN source'[kind] : source'[kind][p] \in Positions(program) /\ Closest(kind, p)'
               /\ \A p \in unresolved'[kind] : Near(kind, Where(p))' \/ Far(kind, Where(p))'
    <3>1. CASE kind = met
      BY <1>10, <3>1
    <3>2. CASE kind # met
      BY <1>9, <3>2
    <3> QED
      BY <3>1, <3>2
  <2> QED
    BY <1>1, <1>5, <1>7, <2>1 DEF Sourced
<1> QED
  BY <1>5, <1>6, <1>11 DEF SearchInv, Named

LEMMA BlockFinished ==
  ASSUME Typed, SearchInv, NextBlock
  PROVE  SearchInv'
<1> USE SameKernel, SameStall
<1> DEFINE e == bbs_to_check[j + 1]
           new == NextBlocks(e[1])
           Entry == (DOMAIN program.blocks) \X {1} \X Nat
<1>1. /\ pc = "search" /\ j < Len(bbs_to_check) /\ place = 0
      /\ UNCHANGED <<program, type, row, sbids_stalled, stall, unresolved, source>>
  BY DEF NextBlock
<1>2. Searching
  BY <1>1 DEF Searching
<1>3. /\ program \in Programs /\ Position \in Positions(program) /\ Found /\ ToCheck /\ Checked /\ Sourced
      /\ Len(bbs_to_check) \in Nat /\ Len(bbs_to_check) >= 1 /\ j \in Nat
      /\ ToSet(stall) \subseteq Before(Position) /\ Before(Position) \subseteq Positions(program)
  BY <1>2, SearchFacts
<1>4. j + 1 \in 1..Len(bbs_to_check)
  BY <1>1, <1>3
<1>5. e[1] \in DOMAIN program.blocks /\ e[1] \in {Position[1]} \cup Ahead(Position[1]) /\ e[3] \in Nat
  BY <1>2, <1>4, SearchFacts
<1>6. Passed(e, 0)
  BY <1>1, <1>2, <1>3 DEF Checked
<1>7. Found'
  BY <1>1, <1>3 DEF Found
<1>8. ASSUME NEW kind \in Kinds
      PROVE  /\ (DOMAIN source[kind]) \cup unresolved[kind] = ToSet(stall) \cup {Nowhere}
             /\ \A p \in DOMAIN source[kind] : source[kind][p] \in Positions(program) /\ Closest(kind, p)
             /\ \A p \in unresolved[kind] :
                  /\ Where(p) \in Positions(program) /\ Where(p)' = Where(p)
                  /\ Near(kind, Where(p)) \/ Far(kind, Where(p))
  <2>1. /\ (DOMAIN source[kind]) \cup unresolved[kind] = ToSet(stall) \cup {Nowhere}
        /\ \A p \in DOMAIN source[kind] : source[kind][p] \in Positions(program) /\ Closest(kind, p)
        /\ \A p \in unresolved[kind] : Near(kind, Where(p)) \/ Far(kind, Where(p))
    BY <1>2, <1>3 DEF Sourced
  <2>2. ASSUME NEW p \in unresolved[kind] PROVE Where(p) \in Positions(program) /\ Where(p)' = Where(p)
    BY <1>1, <1>3, <2>1 DEF Where
  <2> QED
    BY <2>1, <2>2
<1>9. ASSUME NEW kind, NEW w \in Positions(program), Near(kind, w)
      PROVE  w[1] = e[1] /\ NoneBetween(kind, w, 1) /\ w[2] \in Nat /\ w[2] # 0
  BY <1>1, <1>3, <1>9, PositionFacts DEF Near
<1> HIDE DEF e, new, Entry
<1>10. CASE sbids_stalled = <<>>
  <2>1. pc' = "found" /\ UNCHANGED <<bbs_to_check, j, place>> /\ Searching'
    BY <1>10 DEF NextBlock, Searching
  <2>2. ToCheck'
    BY <1>1, <1>3, <2>1 DEF ToCheck
  <2>3. Checked'
    <3>1. \A c : IsListed(c)' = IsListed(c)
      BY <1>1, <2>1 DEF IsListed
    <3>2. \A f, n : Passed(f, n)' = Passed(f, n)
      BY <1>1 DEF Passed
    <3>3. \A i \in 1..j' : Passed(bbs_to_check[i], 0)' /\ \A c \in ToSet(Preds(bbs_to_check[i][1]))' : IsListed(c)'
      BY <1>1, <1>3, <2>1, <3>1, <3>2 DEF Checked
    <3>4. place' \in 0..bbs_to_check'[j' + 1][3] /\ Passed(bbs_to_check[j + 1], place)'
      BY <1>1, <1>5, <1>6, <2>1, <3>2 DEF e
    <3>5. j' \in 0..Len(bbs_to_check') /\ j' < Len(bbs_to_check') /\ sbids_stalled' = <<>> /\ j' # Len(bbs_to_check')
      BY <1>1, <1>3, <1>10, <2>1
    <3> QED
      BY <2>1, <3>3, <3>4, <3>5 DEF Checked
  <2>4. ASSUME NEW kind, NEW w \in Positions(program), Near(kind, w) PROVE \A q : q = w => Near(kind, q)'
    <3>1. w[1] = e[1] /\ NoneBetween(kind, w, 1) /\ w[2] \in Nat
      BY <1>9, <2>4
    <3>2. \A m \in 1..(w[2] - 1) : Item(<<w[1], m>>).kind # kind
      BY <3>1 DEF NoneBetween
    <3> QED
      BY <1>1, <1>3, <2>1, <3>1, <3>2 DEF Near, NoneBetween, e
  <2>5. ASSUME NEW kind, NEW w, Far(kind, w) PROVE \A q : q = w => Far(kind, q)'
    BY <1>1, <2>1, <2>5 DEF Far, NoneBetween
  <2>6. \A kind, p : Closest(kind, p)' = Closest(kind, p)
    BY <1>1, <2>1 DEF Closest
  <2>7. ASSUME NEW kind \in Kinds, NEW p \in unresolved[kind] PROVE Near(kind, Where(p))' \/ Far(kind, Where(p))'
    <3>1. Where(p)' = Where(p) /\ Where(p) \in Positions(program) /\ (Near(kind, Where(p)) \/ Far(kind, Where(p)))
      BY <1>8
    <3> QED
      BY <2>4, <2>5, <3>1
  <2>8. Sourced'
    BY <1>1, <1>3, <1>8, <2>1, <2>6, <2>7 DEF Sourced
  <2> QED
    BY <1>7, <2>1, <2>2, <2>3, <2>8 DEF SearchInv, Named
<1>11. CASE sbids_stalled # <<>>
  <2> DEFINE L == Len(bbs_to_check)
  <2>1. /\ pc' = "search" /\ bbs_to_check' = bbs_to_check \o new /\ j' = j + 1 /\ Searching'
        /\ place' = IF j + 2 <= Len(bbs_to_check') THEN bbs_to_check'[j + 2][3] ELSE 0
    BY <1>1, <1>11 DEF NextBlock, Searching, e, new
  <2>2. /\ Preds(e[1]) \in Seq(DOMAIN program.blocks) /\ Len(Preds(e[1])) \in Nat
        /\ DOMAIN Preds(e[1]) = 1..Len(Preds(e[1])) /\ ToSet(Preds(e[1])) \subseteq Ahead(Position[1])
    <3>1. Preds(e[1]) \in Seq(DOMAIN program.blocks)
      BY <1>3, <1>5, ProgramFacts
    <3>2. Position[1] \in DOMAIN program.blocks
      BY <1>3, PositionFacts
    <3> QED
      BY <1>3, <1>5, <3>1, <3>2, AheadFacts, LenProperties
  <2>3. /\ new \in Seq(Entry) /\ Len(new) = Len(Preds(e[1]))
        /\ \A k \in 1..Len(new) : new[k] = WholeBlock(Preds(e[1])[k]) /\ Preds(e[1])[k] \in Ahead(Position[1])
    <3>1. \A k \in 1..Len(Preds(e[1])) : Preds(e[1])[k] \in Ahead(Position[1]) /\ Preds(e[1])[k] \in DOMAIN program.blocks
      BY <2>2, ElementOfSeq DEF ToSet
    <3>2. \A c \in DOMAIN program.blocks : WholeBlock(c) \in Entry
      BY <1>3, ProgramFacts DEF WholeBlock, Entry
    <3>3. new = [k \in 1..Len(Preds(e[1])) |-> WholeBlock(Preds(e[1])[k])]
      BY <2>2 DEF new, NextBlocks
    <3> QED
      BY <2>2, <3>1, <3>2, <3>3
  <2>4. /\ bbs_to_check \in Seq(Entry) /\ bbs_to_check' \in Seq(Entry) /\ Len(bbs_to_check') = L + Len(new)
        /\ Len(new) \in Nat /\ L \in Nat /\ L >= 1
        /\ \A i \in 1..L : bbs_to_check'[i] = bbs_to_check[i]
        /\ \A k \in 1..Len(new) : bbs_to_check'[L + k] = new[k]
    <3>1. bbs_to_check \in Seq(Entry)
      BY <1>3 DEF ToCheck, Entry
    <3>2. bbs_to_check \o new \in Seq(Entry)
      BY <2>3, <3>1, ConcatProperties
    <3> QED
      <4>1. /\ Len(bbs_to_check \o new) = L + Len(new) /\ L \in Nat /\ Len(new) \in Nat
            /\ \A i \in 1..L : (bbs_to_check \o new)[i] = bbs_to_check[i]
            /\ \A k \in 1..Len(new) : (bbs_to_check \o new)[L + k] = new[k]
        <5> DEFINE q == bbs_to_check
                   r == q \o new
        <5>1. q \in Seq(Entry) /\ new \in Seq(Entry)
          BY <2>3, <3>1
        <5> HIDE DEF q
        <5>2. Len(q) \in Nat /\ Len(new) \in Nat
          BY <5>1, LenProperties
        <5>3. Len(r) = Len(q) + Len(new) /\ \A i \in 1..(Len(q) + Len(new)) : r[i] = IF i <= Len(q) THEN q[i] ELSE new[i - Len(q)]
          BY <5>1, ConcatProperties
        <5> HIDE DEF r
        <5>4. ASSUME NEW k \in 1..Len(new) PROVE r[Len(q) + k] = new[k]
          <6> DEFINE i == Len(q) + k
          <6>1. i \in 1..(Len(q) + Len(new)) /\ ~(i <= Len(q)) /\ i - Len(q) = k
            BY <5>2
          <6> HIDE DEF i
          <6>2. r[i] = new[k]
            BY <5>3, <6>1
          <6> QED
            BY <6>2 DEF i
        <5>5. \A i \in 1..Len(q) : r[i] = q[i]
          BY <5>2, <5>3
        <5> QED
          BY <5>2, <5>3, <5>4, <5>5 DEF q, r
      <4> QED
        BY <1>3, <2>1, <3>1, <3>2, <4>1
  <2>5. \A i \in (L + 1)..Len(bbs_to_check') : \E k \in 1..Len(new) : i = L + k
    <3>1. \A i \in (L + 1)..Len(bbs_to_check') : i - L \in 1..Len(new) /\ i = L + (i - L)
      BY <2>4
    <3> QED
      BY <3>1
  <2>6. \A i \in 1..Len(bbs_to_check') : i \in 1..L \/ i \in (L + 1)..Len(bbs_to_check')
    BY <2>4
  <2>7. ToCheck'
    <3>1. bbs_to_check' # <<>> /\ bbs_to_check'[1] = <<Position[1], 1, Position[2] - 1>>
      <4>1. 1 \in 1..L /\ Len(bbs_to_check') # 0
        BY <2>4
      <4>2. bbs_to_check'[1] = bbs_to_check[1]
        BY <2>4, <4>1
      <4>3. bbs_to_check' # <<>>
        BY <2>4, <4>1, EmptySeq
      <4> QED
        BY <1>3, <4>2, <4>3 DEF ToCheck
    <3>2. ASSUME NEW i \in 2..Len(bbs_to_check') PROVE \E c \in Ahead(Position[1]) : bbs_to_check'[i] = WholeBlock(c)
      <4>1. CASE i \in 1..L
        <5>1. i \in 2..L
          BY <2>4, <3>2, <4>1
        <5> QED
          BY <1>3, <2>4, <4>1, <5>1 DEF ToCheck
      <4>2. CASE i \in (L + 1)..Len(bbs_to_check')
        BY <2>3, <2>4, <2>5, <4>2
      <4>3. i \in 1..Len(bbs_to_check')
        BY <2>4
      <4> QED
        BY <2>6, <4>1, <4>2, <4>3
    <3> QED
      BY <1>1, <2>4, <3>1, <3>2 DEF ToCheck, Entry
  <2>8. \A f, n : Passed(f, n)' = Passed(f, n)
    BY <1>1 DEF Passed
  <2>9. \A c : IsListed(c) => IsListed(c)'
    <3>1. \A m \in 2..L : m \in 2..Len(bbs_to_check') /\ bbs_to_check'[m] = bbs_to_check[m]
      BY <2>4
    <3> QED
      BY <1>1, <3>1 DEF IsListed
  <2>10. ASSUME NEW c \in ToSet(Preds(e[1])) PROVE IsListed(c)'
    <3>1. PICK k \in 1..Len(Preds(e[1])) : c = Preds(e[1])[k]
      BY <2>2 DEF ToSet
    <3>2. L + k \in 2..Len(bbs_to_check') /\ bbs_to_check'[L + k] = WholeBlock(c)
      BY <2>3, <2>4, <3>1
    <3> QED
      BY <1>1, <3>2 DEF IsListed
  <2>11. ASSUME NEW i \in 1..j'
         PROVE  Passed(bbs_to_check[i], 0)' /\ \A c \in ToSet(Preds(bbs_to_check[i][1]))' : IsListed(c)'
    <3>1. i \in 1..L /\ bbs_to_check'[i] = bbs_to_check[i]
      BY <1>1, <1>3, <2>1, <2>4
    <3>2. CASE i \in 1..j
      <4>1. Passed(bbs_to_check[i], 0) /\ \A c \in ToSet(Preds(bbs_to_check[i][1])) : IsListed(c)
        BY <1>3, <3>2 DEF Checked
      <4> QED
        BY <1>1, <2>8, <2>9, <3>1, <4>1
    <3>3. CASE i \notin 1..j
      <4>1. i = j + 1
        BY <1>3, <2>1, <3>3
      <4>2. bbs_to_check'[i] = e
        BY <3>1, <4>1 DEF e
      <4> QED
        BY <1>1, <1>6, <2>8, <2>10, <4>2
    <3> QED
      BY <3>2, <3>3
  <2>12. Checked'
    <3>1. j' \in 0..Len(bbs_to_check') /\ j' + 1 = j + 2 /\ j' \in Nat
      BY <1>1, <1>3, <2>1, <2>4
    <3>2. ASSUME j' < Len(bbs_to_check')
          PROVE  place' \in 0..bbs_to_check'[j' + 1][3] /\ Passed(bbs_to_check[j + 1], place)'
      <4>1. j + 2 <= Len(bbs_to_check') /\ j + 2 \in 1..Len(bbs_to_check')
        BY <1>3, <2>1, <2>4, <3>2
      <4>2. place' = bbs_to_check'[j' + 1][3]
        BY <2>1, <3>1, <4>1
      <4>3. bbs_to_check'[j' + 1] \in Entry
        BY <2>4, <3>1, <4>1, ElementOfSeq
      <4>4. place' \in Nat
        BY <4>2, <4>3 DEF Entry
      <4> QED
        BY <4>2, <4>4 DEF Passed
    <3>3. j' = Len(bbs_to_check') => place' = 0
      BY <1>3, <2>1, <2>4
    <3> QED
      BY <2>1, <2>11, <3>1, <3>2, <3>3 DEF Checked
  <2>13. ASSUME NEW kind, NEW w \in Positions(program), Near(kind, w) \/ Far(kind, w) PROVE \A q : q = w => Far(kind, q)'
    <3>1. NoneBetween(kind, w, 1)
      BY <1>9, <2>13 DEF Far
    <3> QED
      BY <1>1, <1>3, <2>1, <3>1 DEF Far, NoneBetween
  <2>14. ASSUME NEW kind \in Kinds, NEW p \in unresolved[kind] PROVE Far(kind, Where(p))'
    <3>1. Where(p)' = Where(p) /\ Where(p) \in Positions(program) /\ (Near(kind, Where(p)) \/ Far(kind, Where(p)))
      BY <1>8
    <3> QED
      BY <2>13, <3>1
  <2>15. \A kind, p : Closest(kind, p) => Closest(kind, p)'
    BY <1>1, <1>3, <2>1 DEF Closest
  <2>16. Sourced'
    BY <1>1, <1>3, <1>8, <2>1, <2>14, <2>15 DEF Sourced
  <2> QED
    BY <1>7, <2>1, <2>7, <2>12, <2>16 DEF SearchInv, Named
<1> QED
  BY <1>10, <1>11

\* The search ends with what is found, and the report says so.
StallReported ==
  /\ report' \in Seq(ReportLine)
  /\ Those(report', Stalled) = Append(Those(report, Stalled), <<"stalled", Position>>)

LEMMA Scanned ==
  ASSUME Typed, SearchInv, ScanUpwards
  PROVE  SearchInv' /\ StallReported
<1> USE SameKernel, SameStall
<1> DEFINE FoundAbove(k) == SourceAvailable /\ Above(k, Current) # Nowhere
           e == bbs_to_check[j + 1]
<1>1. /\ pc = "found" /\ pc' = "next"
      /\ UNCHANGED <<program, type, row, sbids_stalled, bbs_to_check, j, place, stall>>
      /\ source' = [k \in Kinds |-> IF FoundAbove(k) THEN With(source[k], unresolved[k], Above(k, Current)) ELSE source[k]]
      /\ unresolved' = [k \in Kinds |-> IF FoundAbove(k) THEN {} ELSE unresolved[k]]
      /\ Report(Position, source', unresolved'["Line"])
  BY DEF ScanUpwards, StoppedAt
<1> HIDE DEF FoundAbove
<1>2. Searching /\ ~Searching'
  BY <1>1 DEF Searching
<1>3. /\ program \in Programs /\ Position \in Positions(program) /\ Found /\ ToCheck /\ Checked /\ Sourced
      /\ Len(bbs_to_check) \in Nat /\ j \in Nat /\ ToSet(stall) \subseteq Before(Position)
      /\ Before(Position) \subseteq Positions(program) /\ Nowhere \notin ToSet(stall)
  BY <1>2, SearchFacts
<1>4. j < Len(bbs_to_check) /\ sbids_stalled = <<>> /\ place \in 0..e[3] /\ place \in Nat
  BY <1>1, <1>2, <1>3 DEF Checked
<1>5. Current = <<e[1], place>>
  BY DEF Current
<1> HIDE DEF e
<1>6. Found'
  BY <1>1, <1>3 DEF Found
<1>7. ToCheck'
  BY <1>1, <1>3 DEF ToCheck
<1>8. Checked'
  <2>1. \A c : IsListed(c)' = IsListed(c)
    BY <1>1 DEF IsListed
  <2>2. \A f, n : Passed(f, n)' = Passed(f, n)
    BY <1>1 DEF Passed
  <2>3. \A i \in 1..j' : Passed(bbs_to_check[i], 0)' /\ \A c \in ToSet(Preds(bbs_to_check[i][1]))' : IsListed(c)'
    BY <1>1, <1>3, <2>1, <2>2 DEF Checked
  <2>4. j' \in 0..Len(bbs_to_check') /\ sbids_stalled' = <<>> /\ pc' # "found"
    BY <1>1, <1>3, <1>4
  <2> QED
    BY <1>2, <2>3, <2>4 DEF Checked
<1>9. ASSUME NEW kind \in Kinds
      PROVE  /\ (DOMAIN source[kind]) \cup unresolved[kind] = ToSet(stall) \cup {Nowhere}
             /\ \A p \in DOMAIN source[kind] : source[kind][p] \in Positions(program) /\ Closest(kind, p)
             /\ \A p \in unresolved[kind] :
                  /\ Where(p) \in Positions(program) /\ Where(p)' = Where(p)
                  /\ Near(kind, Where(p)) \/ Far(kind, Where(p))
  <2>1. /\ (DOMAIN source[kind]) \cup unresolved[kind] = ToSet(stall) \cup {Nowhere}
        /\ \A p \in DOMAIN source[kind] : source[kind][p] \in Positions(program) /\ Closest(kind, p)
        /\ \A p \in unresolved[kind] : Near(kind, Where(p)) \/ Far(kind, Where(p))
    BY <1>2, <1>3 DEF Sourced
  <2>2. ASSUME NEW p \in unresolved[kind] PROVE Where(p) \in Positions(program) /\ Where(p)' = Where(p)
    BY <1>1, <1>3, <2>1 DEF Where
  <2> QED
    BY <2>1, <2>2
\* The block was left where it is looked upwards from.
<1>10. ASSUME NEW kind \in Kinds, NEW w \in Positions(program), Near(kind, w)
       PROVE  Above(kind, w) = Above(kind, Current)
  <2>1. w[1] = e[1] /\ place <= w[2] /\ NoneBetween(kind, w, place)
    BY <1>1, <1>10 DEF Near, e
  <2>2. Above(kind, w) = Above(kind, <<w[1], place>>)
    BY <1>3, <1>4, <2>1, AboveIn
  <2> QED
    BY <1>5, <2>1, <2>2
<1>11. ASSUME NEW kind \in Kinds, NEW w \in Positions(program), Near(kind, w) \/ Far(kind, w)
       PROVE  Above(kind, Current) = Above(kind, w) \/ (j > 0 /\ Above(kind, w)[1] # w[1])
  <2>1. CASE Near(kind, w)
    BY <1>10, <2>1
  <2>2. CASE Far(kind, w)
    BY <1>3, <2>2, AboveIn DEF Far
  <2> QED
    BY <1>11, <2>1, <2>2
<1>12. ASSUME NEW kind \in Kinds, Above(kind, Current) # Nowhere PROVE Above(kind, Current) \in Positions(program)
  <2>1. CommentsBefore(kind, Current) # {}
    BY <1>3, <1>12, AboveFacts
  <2>2. Above(kind, Current) \in CommentsBefore(kind, Current)
    BY <1>3, <2>1, AboveFacts
  <2> QED
    BY <2>2 DEF CommentsBefore
<1>13. ASSUME NEW kind \in Kinds
       PROVE  /\ (DOMAIN source'[kind]) \cup unresolved'[kind] = ToSet(stall') \cup {Nowhere}
              /\ \A p \in DOMAIN source'[kind] : source'[kind][p] \in Positions(program) /\ Closest(kind, p)'
              /\ j = 0 /\ SourceAvailable => \A p \in unresolved'[kind] : Above(kind, Where(p))' = Nowhere
  <2>1. \A p \in DOMAIN source[kind] : source'[kind][p] = source[kind][p] => Closest(kind, p)'
    BY <1>1, <1>9 DEF Closest
  <2>2. CASE FoundAbove(kind)
    <3>1. source'[kind] = With(source[kind], unresolved[kind], Above(kind, Current)) /\ unresolved'[kind] = {}
      BY <1>1, <2>2
    <3>2. /\ DOMAIN source'[kind] = (DOMAIN source[kind]) \cup unresolved[kind]
          /\ \A p \in unresolved[kind] : source'[kind][p] = Above(kind, Current)
          /\ \A p \in (DOMAIN source[kind]) \ unresolved[kind] : source'[kind][p] = source[kind][p]
      BY <3>1 DEF With
    <3>3. ASSUME NEW p \in unresolved[kind] PROVE Closest(kind, p)'
      <4>1. Where(p) \in Positions(program) /\ Where(p)' = Where(p) /\ (Near(kind, Where(p)) \/ Far(kind, Where(p)))
        BY <1>9
      <4>2. Above(kind, Current) = Above(kind, Where(p)) \/ (j > 0 /\ Above(kind, Where(p))[1] # Where(p)[1])
        BY <1>11, <4>1
      <4>3. j' = j /\ Above(kind, Where(p))' = Above(kind, Where(p))
        BY <1>1, <4>1
      <4> QED
        BY <3>2, <4>1, <4>2, <4>3 DEF Closest
    <3>4. Above(kind, Current) \in Positions(program)
      BY <1>12, <2>2 DEF FoundAbove
    <3> QED
      BY <1>1, <1>9, <2>1, <3>1, <3>2, <3>3, <3>4
  <2>3. CASE ~FoundAbove(kind)
    <3>1. source'[kind] = source[kind] /\ unresolved'[kind] = unresolved[kind]
      BY <1>1, <2>3
    <3>2. ASSUME j = 0, SourceAvailable, NEW p \in unresolved[kind] PROVE Above(kind, Where(p))' = Nowhere
      <4>1. Where(p) \in Positions(program) /\ Where(p)' = Where(p) /\ Near(kind, Where(p))
        BY <1>9, <3>2 DEF Far
      <4>2. Above(kind, Where(p)) = Above(kind, Current) /\ Above(kind, Current) = Nowhere
        BY <1>10, <2>3, <3>2, <4>1 DEF FoundAbove
      <4>3. Above(kind, Where(p))' = Above(kind, Where(p))
        BY <1>1, <4>1
      <4> QED
        BY <4>2, <4>3
    <3> QED
      BY <1>1, <1>9, <2>1, <3>1, <3>2
  <2> QED
    BY <2>2, <2>3
<1>14. DOMAIN source' = Kinds /\ DOMAIN unresolved' = Kinds
  BY <1>1
<1>15. Sourced'
  BY <1>1, <1>2, <1>13, <1>14 DEF Sourced
<1>16. StallReported /\ \A q \in ToSet(stall) : Code(q) \in ToSet(report')
  <2> DEFINE S == ToSet(stall)
             rest == unresolved'["Line"]
  <2>1. \A kind \in Kinds : (DOMAIN source'[kind]) \cup unresolved'[kind] = S \cup {Nowhere}
    BY <1>1, <1>13
  <2>2. "Line" \in Kinds /\ "File" \in Kinds
    BY DEF Kinds
  <2>3. SourcesOf(source', S)
    BY <1>13, <2>1, <2>2 DEF SourcesOf
  <2>4. rest \in SUBSET (S \cup {Nowhere}) /\ S \in SUBSET Positions(program) /\ report \in Seq(ReportLine)
    BY <1>3, <2>1, <2>2 DEF Typed
  <2>5. S \subseteq ((DOMAIN source'["Line"]) \cup rest) \ {Nowhere}
    BY <1>3, <2>1, <2>2
  <2>6. Report(Position, source', rest)
    BY <1>1
  <2> HIDE DEF S, rest
  <2> DEFINE sources == source'
  <2> HIDE DEF sources
  <2>7. /\ report' \in Seq(ReportLine)
        /\ Those(report', Stalled) = Append(Those(report, Stalled), <<"stalled", Position>>)
        /\ \A q \in ((DOMAIN sources["Line"]) \cup rest) \ {Nowhere} : Code(q) \in ToSet(report')
    <3>1. SourcesOf(sources, S) /\ Report(Position, sources, rest)
      BY <2>3, <2>6 DEF sources
    <3> QED
      BY <1>3, <2>4, <3>1, ReportGrows
  <2> QED
    BY <2>5, <2>7 DEF StallReported, S, sources
<1>17. Named'
  <2>1. \A k \in DOMAIN stall : stall[k] \in ToSet(stall)
    BY DEF ToSet
  <2> QED
    BY <1>1, <1>16, <2>1 DEF Named, Code
<1> QED
  BY <1>6, <1>7, <1>8, <1>15, <1>16, <1>17 DEF SearchInv

LEMMA GivenUp ==
  ASSUME Typed, SearchInv, GiveUp
  PROVE  SearchInv' /\ StallReported
<1> USE SameKernel, SameStall
<1>1. /\ pc = "search" /\ pc' = "next" /\ j = Len(bbs_to_check) /\ UNCHANGED <<program, type, row>>
      /\ UNCHANGED <<sbids_stalled, bbs_to_check, j, place, stall, unresolved, source>>
      /\ Report(Position, source, unresolved["Line"])
  BY DEF GiveUp, search
<1>2. Searching /\ ~Searching'
  BY <1>1 DEF Searching
<1>3. /\ program \in Programs /\ Position \in Positions(program) /\ Found /\ ToCheck /\ Checked /\ Sourced
      /\ Len(bbs_to_check) \in Nat /\ Len(bbs_to_check) >= 1 /\ j \in Nat /\ ToSet(stall) \subseteq Before(Position)
      /\ Before(Position) \subseteq Positions(program) /\ Nowhere \notin ToSet(stall)
  BY <1>2, SearchFacts
<1>4. Found'
  BY <1>1, <1>3 DEF Found
<1>5. ToCheck'
  BY <1>1, <1>3 DEF ToCheck
<1>6. Checked'
  <2>1. \A c : IsListed(c)' = IsListed(c)
    BY <1>1 DEF IsListed
  <2>2. \A f, n : Passed(f, n)' = Passed(f, n)
    BY <1>1 DEF Passed
  <2>3. \A i \in 1..j' : Passed(bbs_to_check[i], 0)' /\ \A c \in ToSet(Preds(bbs_to_check[i][1]))' : IsListed(c)'
    BY <1>1, <1>3, <2>1, <2>2 DEF Checked
  <2>4. j' \in 0..Len(bbs_to_check') /\ j' = Len(bbs_to_check') /\ pc' # "found"
    BY <1>1, <1>3
  <2> QED
    BY <1>2, <2>3, <2>4 DEF Checked
<1>7. Sourced'
  <2>1. \A kind, p : Closest(kind, p)' = Closest(kind, p)
    BY <1>1 DEF Closest
  <2>2. j' # 0
    BY <1>1, <1>3
  <2> QED
    BY <1>1, <1>2, <1>3, <2>1, <2>2 DEF Sourced
<1>8. StallReported /\ \A q \in ToSet(stall) : Code(q) \in ToSet(report')
  <2> DEFINE S == ToSet(stall)
             rest == unresolved["Line"]
  <2>1. \A kind \in Kinds : (DOMAIN source[kind]) \cup unresolved[kind] = S \cup {Nowhere}
    BY <1>3 DEF Sourced
  <2>2. "Line" \in Kinds /\ "File" \in Kinds
    BY DEF Kinds
  <2>3. SourcesOf(source, S)
    BY <1>3, <2>1, <2>2 DEF SourcesOf, Sourced
  <2>4. rest \in SUBSET (S \cup {Nowhere}) /\ S \in SUBSET Positions(program) /\ report \in Seq(ReportLine)
    BY <1>3, <2>1, <2>2 DEF Typed
  <2>5. S \subseteq ((DOMAIN source["Line"]) \cup rest) \ {Nowhere}
    BY <1>3, <2>1, <2>2
  <2>6. Report(Position, source, rest)
    BY <1>1
  <2> HIDE DEF S, rest
  <2>7. /\ report' \in Seq(ReportLine)
        /\ Those(report', Stalled) = Append(Those(report, Stalled), <<"stalled", Position>>)
        /\ \A q \in ((DOMAIN source["Line"]) \cup rest) \ {Nowhere} : Code(q) \in ToSet(report')
    BY <1>3, <2>3, <2>4, <2>6, ReportGrows
  <2> QED
    BY <2>5, <2>7 DEF StallReported, S
<1>9. Named'
  <2>1. \A k \in DOMAIN stall : stall[k] \in ToSet(stall)
    BY DEF ToSet
  <2> QED
    BY <1>1, <1>8, <2>1 DEF Named, Code
<1> QED
  BY <1>4, <1>5, <1>6, <1>7, <1>8, <1>9 DEF SearchInv

\* A stall of another type is reported with the comments above it.
LEMMA OtherReported ==
  ASSUME Typed, OtherStall, SourceAvailable \/ bound
  PROVE  /\ pc' = pc /\ report' \in Seq(ReportLine)
         /\ Those(report', Stalled) = Append(Those(report, Stalled), <<"stalled", Here>>)
<1> DEFINE above == [k \in Kinds |-> IF Above(k, Here) = Nowhere THEN << >>
                                     ELSE [p \in {Nowhere} |-> Above(k, Here)]]
           sources == IF SourceAvailable THEN above ELSE [k \in Kinds |-> << >>]
<1>1. pc' = pc /\ Report(Here, sources, {}) /\ NextStall /\ Here # Nowhere
  BY DEF OtherStall
<1>2. program \in Programs /\ Here \in Positions(program) /\ report \in Seq(ReportLine)
  BY <1>1, HereTyped, StallFacts DEF Typed
<1>3. ASSUME NEW kind \in Kinds, Above(kind, Here) # Nowhere PROVE Above(kind, Here) \in Positions(program)
  <2>1. CommentsBefore(kind, Here) # {}
    BY <1>2, <1>3, AboveFacts
  <2>2. Above(kind, Here) \in CommentsBefore(kind, Here)
    BY <1>2, <2>1, AboveFacts
  <2> QED
    BY <2>2 DEF CommentsBefore
<1>4. ASSUME NEW kind \in Kinds
      PROVE  /\ DOMAIN sources[kind] \subseteq {} \cup {Nowhere}
             /\ \A p \in DOMAIN sources[kind] : sources[kind][p] \in Positions(program)
  <2>1. CASE SourceAvailable /\ Above(kind, Here) # Nowhere
    <3>1. sources[kind] = [p \in {Nowhere} |-> Above(kind, Here)]
      BY <2>1
    <3> HIDE DEF sources
    <3> QED
      BY <1>3, <2>1, <3>1
  <2>2. CASE ~(SourceAvailable /\ Above(kind, Here) # Nowhere)
    <3>1. sources[kind] = << >>
      BY <2>2
    <3> HIDE DEF sources
    <3> QED
      BY <3>1
  <2> QED
    BY <2>1, <2>2
<1> HIDE DEF sources
<1> DEFINE S == {}
           rest == {}
<1>5. S \in SUBSET Positions(program) /\ rest \in SUBSET (S \cup {Nowhere}) /\ Report(Here, sources, rest)
  BY <1>1
<1>6. SourcesOf(sources, S)
  BY <1>4 DEF SourcesOf, Kinds
<1> HIDE DEF S, rest
<1> QED
  BY <1>1, <1>2, <1>5, <1>6, ReportGrows

--------------------------------------------------------------------------------
(* What the report has.                                                    *)

LEMMA OneMoreStalled ==
  ASSUME NEW P, NEW a \in Seq(P), NEW x \in P
  PROVE  StalledLines(Append(a, x)) = Append(StalledLines(a), <<"stalled", x>>)
<1> DEFINE L(y) == <<"stalled", y>>
           Q == {L(y) : y \in P}
           s == StalledLines(a)
           r == StalledLines(Append(a, x))
           N == Len(a)
<1>1. /\ N \in Nat /\ DOMAIN a = 1..N /\ \A k \in 1..N : a[k] \in P
      /\ DOMAIN Append(a, x) = 1..(N + 1) /\ \A k \in 1..N : Append(a, x)[k] = a[k]
      /\ Append(a, x)[N + 1] = x
  <2>1. /\ Append(a, x) \in Seq(P) /\ Len(Append(a, x)) = N + 1 /\ \A k \in 1..N : Append(a, x)[k] = a[k]
        /\ Append(a, x)[N + 1] = x
    BY AppendProperties
  <2>2. DOMAIN Append(a, x) = 1..(N + 1)
    BY <2>1, LenProperties
  <2> QED
    BY <2>1, <2>2, LenProperties, ElementOfSeq
<1>2. s = [k \in 1..N |-> L(a[k])] /\ r = [k \in 1..(N + 1) |-> L(Append(a, x)[k])]
  BY <1>1 DEF StalledLines
<1> DEFINE b == Append(a, x)
<1>3. \A k \in 1..(N + 1) : b[k] \in P
  BY <1>1
<1> HIDE DEF L, s, r, N, b
<1>4. s \in Seq(Q) /\ Len(s) = N /\ \A k \in 1..N : s[k] = L(a[k])
  BY <1>1, <1>2
<1>5. r \in Seq(Q) /\ Len(r) = N + 1 /\ \A k \in 1..(N + 1) : r[k] = L(b[k])
  BY <1>1, <1>2, <1>3 DEF b
<1> HIDE DEF Q
<1> DEFINE l == L(x)
           t == Append(s, l)
<1>6. l \in Q
  BY DEF Q
<1> HIDE DEF l
<1>7. t \in Seq(Q) /\ Len(t) = N + 1 /\ (\A k \in 1..N : t[k] = s[k]) /\ t[N + 1] = l
  BY <1>4, <1>6, AppendProperties
<1> HIDE DEF t
<1>8. ASSUME NEW k \in 1..(N + 1) PROVE r[k] = t[k]
  <2>1. CASE k = N + 1
    <3>1. r[N + 1] = L(b[N + 1]) /\ b[N + 1] = x
      BY <1>1, <1>5, <2>1 DEF b
    <3> QED
      BY <1>7, <2>1, <3>1 DEF l
  <2>2. CASE k # N + 1
    <3>1. k \in 1..N
      BY <1>1, <2>2
    <3>2. b[k] = a[k]
      BY <1>1, <3>1 DEF b
    <3> QED
      BY <1>4, <1>5, <1>7, <3>1, <3>2
  <2> QED
    BY <2>1, <2>2
<1>9. r = t
  BY <1>5, <1>7, <1>8, SeqEqual
<1> QED
  BY <1>9 DEF r, t, s, l, L

\* Sequences put together, the last one of which gets one member more.
LastLonger(q, r, n, x, Y) ==
  /\ n \in Nat /\ n # 0 /\ q \in [1..n -> Seq(Y)] /\ r \in [1..n -> Seq(Y)] /\ x \in Y
  /\ \A t \in 1..(n - 1) : r[t] = q[t]
  /\ r[n] = Append(q[n], x)

LEMMA LastGrows ==
  ASSUME NEW Y, NEW n, NEW q, NEW r, NEW x, LastLonger(q, r, n, x, Y)
  PROVE  FlattenSeq(q) \in Seq(Y) /\ FlattenSeq(r) = Append(FlattenSeq(q), x)
<1>0. /\ n \in Nat /\ n # 0 /\ q \in [1..n -> Seq(Y)] /\ r \in [1..n -> Seq(Y)] /\ x \in Y
      /\ \A t \in 1..(n - 1) : r[t] = q[t]
      /\ r[n] = Append(q[n], x)
  BY DEF LastLonger
<1> USE <1>0
<1> DEFINE d == n - 1
           c == [t \in 1..d |-> q[t]]
           X == Seq(Y)
<1>1. d \in Nat /\ n = d + 1 /\ n \in 1..n /\ 1..d \subseteq 1..n
  OBVIOUS
<1>2. ASSUME NEW f \in [1..n -> X], \A t \in 1..d : f[t] = q[t] PROVE f = Append(c, f[n])
  <2>1. c \in [1..d -> X] /\ \A t \in 1..d : c[t] = f[t]
    BY <1>1, <1>2
  <2>2. f \in [1..(d + 1) -> X] /\ f[d + 1] = f[n]
    BY <1>1
  <2> HIDE DEF c, d, X
  <2> QED
    BY <1>1, <2>1, <2>2, LastAppended
<1>3. c \in Seq(X) /\ q[n] \in X /\ q \in [1..n -> X] /\ r \in [1..n -> X]
  <2>1. \A t \in 1..d : q[t] \in X
    BY <1>1
  <2>2. q[n] \in X
    BY <1>1
  <2> HIDE DEF d
  <2>3. c \in Seq(X)
    BY <1>1, <2>1
  <2> QED
    BY <2>2, <2>3
<1>4. q = Append(c, q[n])
  BY <1>2, <1>3
<1>5. r = Append(c, r[n])
  BY <1>2, <1>3
<1> DEFINE l == q[n]
           m == Append(l, x)
           F == FlattenSeq(c)
<1>6. l \in Seq(Y) /\ m \in Seq(Y) /\ m = l \o <<x>> /\ <<x>> \in Seq(Y)
  <2>1. l \in Seq(Y)
    BY <1>3
  <2> HIDE DEF l
  <2>2. m \in Seq(Y)
    BY <2>1, AppendProperties
  <2>3. m = l \o <<x>>
    BY <2>1, AppendIsConcat
  <2> QED
    BY <2>1, <2>2, <2>3
<1>7. q = Append(c, l) /\ r = Append(c, m)
  BY <1>4, <1>5
<1> HIDE DEF l, m, c
<1>8. F \in Seq(Y) /\ FlattenSeq(q) = F \o l
  BY <1>3, <1>6, <1>7, FlattenOneMore
<1>9. FlattenSeq(r) = F \o m
  BY <1>3, <1>6, <1>7, FlattenOneMore
<1> HIDE DEF F
<1>10. F \o l \in Seq(Y) /\ (F \o l) \o <<x>> = F \o (l \o <<x>>)
  <2>1. F \o l \in Seq(Y)
    BY <1>6, <1>8, ConcatProperties
  <2> DEFINE z == <<x>>
  <2>2. z \in Seq(Y)
    BY <1>6
  <2> HIDE DEF z
  <2>3. (F \o l) \o z = F \o (l \o z)
    <3>1. ASSUME NEW u \in Seq(Y), NEW v \in Seq(Y), NEW w \in Seq(Y) PROVE (u \o v) \o w = u \o (v \o w)
      BY ONLY ConcatAssociative, u \in Seq(Y), v \in Seq(Y), w \in Seq(Y)
    <3> QED
      BY <1>6, <1>8, <2>2, <3>1
  <2> QED
    BY <2>1, <2>3 DEF z
<1>11. Append(F \o l, x) = (F \o l) \o <<x>>
  BY <1>10, AppendIsConcat
<1> QED
  BY <1>6, <1>8, <1>9, <1>10, <1>11

\* How far the loops have come in the stalls of a type.
Came(t) ==
  LET n == IF t < type THEN Len(program.stalls[t]) ELSE row
  IN IF program.numtopstalls < 0 \/ n < program.numtopstalls THEN n ELSE program.numtopstalls

LEMMA ReachedFacts ==
  ASSUME Typed
  PROVE  /\ type \in Nat /\ type >= 1 /\ type <= Len(program.stalls) /\ row \in Nat
         /\ \A t \in 1..type :
              /\ t \in DOMAIN program.stalls /\ Reached(t) = SubSeq(program.stalls[t], 1, Came(t))
              /\ Came(t) \in 0..Len(program.stalls[t])
              /\ Reached(t) \in Seq(Instructions(program) \cup {Nowhere})
              /\ Located(t) \in Seq(Positions(program))
<1>1. program \in Programs /\ type \in DOMAIN program.stalls /\ row \in 0..Len(program.stalls[type])
  BY DEF Typed
<1>2. type \in Nat /\ type >= 1 /\ type <= Len(program.stalls) /\ row \in Nat /\ Len(program.stalls) \in Nat
  BY <1>1, StallFacts
<1>3. program.numtopstalls \in Int
  BY <1>1, ProgramAssumption
<1>4. ASSUME NEW t \in 1..type
      PROVE  /\ t \in DOMAIN program.stalls /\ Reached(t) = SubSeq(program.stalls[t], 1, Came(t))
             /\ Came(t) \in 0..Len(program.stalls[t])
             /\ Reached(t) \in Seq(Instructions(program) \cup {Nowhere})
             /\ Located(t) \in Seq(Positions(program))
  <2> DEFINE s == program.stalls[t]
             X == Instructions(program) \cup {Nowhere}
             m == Came(t)
             r == SubSeq(s, 1, m)
  <2>1. t \in DOMAIN program.stalls
    BY <1>1, <1>2, StallFacts
  <2>2. s \in Seq(X) /\ Len(s) \in Nat
    BY <1>1, <2>1, StallFacts
  <2>3. m \in 0..Len(s)
    <3>1. t < type \/ t = type
      BY <1>2
    <3>2. (IF t < type THEN Len(s) ELSE row) \in 0..Len(s)
      BY <1>1, <2>2, <3>1
    <3> DEFINE n == IF t < type THEN Len(s) ELSE row
    <3>3. m = IF program.numtopstalls < 0 \/ n < program.numtopstalls THEN n ELSE program.numtopstalls
      BY DEF Came
    <3>4. n \in 0..Len(s)
      BY <3>2
    <3> HIDE DEF n, m, s
    <3> QED
      BY <1>3, <2>2, <3>3, <3>4
  <2>4. Reached(t) = r
    BY DEF Reached, Came
  <2> HIDE DEF m, s, X
  <2>5. r \in Seq(X)
    <3>1. \A i \in 1..m : s[i] \in X
      BY <2>2, <2>3, ElementOfSeq
    <3> QED
      BY <2>2, <2>3, <3>1, SubSeqProperties
  <2> HIDE DEF r
  <2>6. Located(t) \in Seq(Positions(program))
    <3> DEFINE P == Positions(program)
    <3>1. Those(r, P) \in Seq(P)
      BY <2>5, ThoseIn
    <3> QED
      BY <2>4, <3>1 DEF Located
  <2> QED
    BY <2>1, <2>3, <2>4, <2>5, <2>6 DEF s, X, m, r
<1> QED
  BY <1>2, <1>4

\* Nothing is reached twice: the next row is one stall more, and the next type begins
\* with none.
LEMMA ReachedSame ==
  ASSUME Typed, program' = program, type' = type, row' = row
  PROVE  (\A t : Located(t)' = Located(t)) /\ All' = All
<1>1. \A t : Reached(t)' = Reached(t)
  BY DEF Reached
<1>2. \A t : Located(t)' = Located(t)
  BY <1>1, SameKernel DEF Located
<1>3. All' = All
  BY <1>2 DEF All
<1> QED
  BY <1>2, <1>3

LEMMA ReachedOneMore ==
  ASSUME Typed, NextStall, program' = program, type' = type
  PROVE  /\ \A t \in 1..(type - 1) : Located(t)' = Located(t)
         /\ Here = Nowhere => Located(type)' = Located(type)
         /\ Here # Nowhere => Located(type)' = Append(Located(type), Here)
<1> DEFINE s == program.stalls[type]
           X == Instructions(program) \cup {Nowhere}
           P == Positions(program)
           a == SubSeq(s, 1, row)
           b == SubSeq(s, 1, row + 1)
<1>1. /\ program \in Programs /\ type \in Nat /\ type >= 1 /\ row \in Nat /\ type \in 1..type
      /\ row + 1 \in 1..Len(s) /\ row' = row + 1 /\ s[row + 1] = Here /\ program.numtopstalls \in Int
  <2>1. program \in Programs /\ program.numtopstalls \in Int
    BY ProgramAssumption DEF Typed
  <2>2. type \in Nat /\ type >= 1 /\ row \in Nat
    BY ReachedFacts
  <2>3. row + 1 \in 1..Len(s)
    BY HereTyped
  <2>4. row' = row + 1 /\ s[row + 1] = Here
    BY DEF NextStall, Here
  <2> HIDE DEF s
  <2> QED
    BY <2>1, <2>2, <2>3, <2>4
<1>2. program.numtopstalls < 0 \/ row < program.numtopstalls
  BY <1>1 DEF NextStall, Limited
<1>3. ASSUME NEW t \in 1..(type - 1) PROVE Located(t)' = Located(t)
  <2>1. t < type
    BY <1>1
  <2>2. Reached(t)' = Reached(t)
    BY <2>1 DEF Reached
  <2> QED
    BY <2>2, SameKernel DEF Located
<1>4. Reached(type) = a /\ Reached(type)' = b
  <2>1. Came(type) = row
    BY <1>1, <1>2 DEF Came
  <2>2. Came(type)' = row + 1
    BY <1>1, <1>2 DEF Came
  <2>3. Reached(type) = SubSeq(program.stalls[type], 1, Came(type))
    BY DEF Reached, Came
  <2>4. Reached(type)' = SubSeq(program'.stalls[type'], 1, Came(type)')
    BY DEF Reached, Came
  <2> QED
    BY <2>1, <2>2, <2>3, <2>4
<1>5. s \in Seq(X) /\ Len(s) \in Nat
  BY StallFacts DEF Typed
<1> HIDE DEF s, X
<1>6. a \in Seq(X) /\ Here \in X /\ b = Append(a, Here)
  <2> DEFINE d == row + 1
  <2>1. d \in 1..Len(s) /\ d \in Nat /\ d - 1 = row /\ s[d] = Here /\ row <= Len(s)
    BY <1>1, <1>5
  <2> HIDE DEF d
  <2>2. \A i \in 1..Len(s) : s[i] \in X
    BY <1>5, ElementOfSeq
  <2>3. /\ a \in Seq(X) /\ Len(a) = row /\ \A i \in 1..row : a[i] = s[i]
    BY <1>1, <1>5, <2>1, <2>2, SubSeqProperties
  <2> DEFINE c == SubSeq(s, 1, d)
  <2>4. /\ c \in Seq(X) /\ Len(c) = d /\ \A i \in 1..d : c[i] = s[i]
    BY <1>1, <1>5, <2>1, <2>2, SubSeqProperties
  <2> HIDE DEF a, c
  <2>5. Here \in X
    BY <2>1, <2>2
  <2> DEFINE e == Append(a, Here)
  <2>6. e \in Seq(X) /\ Len(e) = row + 1 /\ (\A i \in 1..row : e[i] = a[i]) /\ e[row + 1] = Here
    BY <2>3, <2>5, AppendProperties
  <2> HIDE DEF e
  <2>7. ASSUME NEW i \in 1..d PROVE c[i] = e[i]
    <3>1. CASE i = d
      BY <2>1, <2>4, <2>6, <3>1 DEF d
    <3>2. CASE i # d
      <4>1. i \in 1..row
        BY <2>1, <3>2
      <4> QED
        BY <2>3, <2>4, <2>6, <4>1
    <3> QED
      BY <3>1, <3>2
  <2>8. c = e
    BY <1>1, <2>1, <2>4, <2>6, <2>7, SeqEqual DEF d
  <2> QED
    BY <2>3, <2>5, <2>8 DEF c, d, e
<1> HIDE DEF a, b
<1>7. Those(b, P) = IF Here \in P THEN Append(Those(a, P), Here) ELSE Those(a, P)
  <2> HIDE DEF P
  <2> QED
    BY <1>6, ThoseOneMore
<1>8. Here # Nowhere <=> Here \in P
  BY <1>1, HereTyped, StallFacts, PositionFacts
<1>9. Located(type) = Those(a, P) /\ Located(type)' = Those(b, P)
  BY <1>1, <1>4, SameKernel DEF Located
<1> QED
  BY <1>3, <1>7, <1>8, <1>9

LEMMA AllOneMore ==
  ASSUME Typed, NextStall, program' = program, type' = type
  PROVE  /\ Here = Nowhere => All' = All
         /\ Here # Nowhere => StalledLines(All') = Append(StalledLines(All), <<"stalled", Here>>)
<1> DEFINE P == Positions(program)
           q == [t \in 1..type |-> Located(t)]
           r == [t \in 1..type |-> Located(t)']
<1>1. type \in Nat /\ type # 0 /\ type \in 1..type /\ \A t \in 1..type : Located(t) \in Seq(P)
  BY ReachedFacts
<1>2. All = FlattenSeq(q) /\ All' = FlattenSeq(r)
  BY DEF All
<1>3. \A t \in 1..type : t \in 1..(type - 1) \/ t = type
  BY <1>1
<1>4. CASE Here = Nowhere
  <2>1. \A t \in 1..type : Located(t)' = Located(t)
    BY <1>3, <1>4, ReachedOneMore
  <2>2. r = q
    BY <2>1
  <2> HIDE DEF q, r
  <2> QED
    BY <1>2, <1>4, <2>2
<1>5. CASE Here # Nowhere
  <2>1. /\ \A t \in 1..(type - 1) : Located(t)' = Located(t)
        /\ Located(type)' = Append(Located(type), Here)
    BY <1>5, ReachedOneMore
  <2>2. Here \in P
    BY <1>5, HereTyped, StallFacts DEF Typed
  <2>3. Append(Located(type), Here) \in Seq(P)
    BY <1>1, <2>2, AppendProperties
  <2>4. \A t \in 1..type : Located(t)' \in Seq(P)
    BY <1>1, <1>3, <2>1, <2>3
  <2> HIDE DEF P
  <2>5. /\ q \in [1..type -> Seq(P)] /\ r \in [1..type -> Seq(P)] /\ \A t \in 1..(type - 1) : r[t] = q[t]
        /\ r[type] = Append(q[type], Here)
    BY <1>1, <2>1, <2>4
  <2> HIDE DEF q, r
  <2>6. FlattenSeq(q) \in Seq(P) /\ FlattenSeq(r) = Append(FlattenSeq(q), Here)
    <3> DEFINE x == Here
    <3>1. x \in P /\ r[type] = Append(q[type], x)
      BY <2>2, <2>5
    <3> HIDE DEF x
    <3>2. FlattenSeq(q) \in Seq(P) /\ FlattenSeq(r) = Append(FlattenSeq(q), x)
      <4>1. LastLonger(q, r, type, x, P)
        BY <1>1, <2>5, <3>1 DEF LastLonger
      <4> QED
        BY <4>1, LastGrows
    <3> QED
      BY <3>2 DEF x
  <2>7. StalledLines(Append(All, Here)) = Append(StalledLines(All), <<"stalled", Here>>)
    BY <1>2, <2>2, <2>6, OneMoreStalled
  <2> QED
    BY <1>2, <1>5, <2>6, <2>7
<1> QED
  BY <1>4, <1>5

LEMMA AllNextType ==
  ASSUME Typed, NextType, type' = type + 1, row' = 0
  PROVE  /\ \A t \in 1..type : Located(t)' = Located(t)
         /\ (\A t : t = type + 1 => Located(t)' = <<>>) /\ All' = All
<1> DEFINE P == Positions(program)
           n == type + 1
           q == [t \in 1..type |-> Located(t)]
           r == [t \in 1..n |-> Located(t)']
<1>1. program' = program /\ (Limited \/ row = Len(program.stalls[type])) /\ type < Len(program.stalls)
  BY ReachedFacts DEF NextType
<1>2. /\ program \in Programs /\ type \in Nat /\ type # 0 /\ row \in Nat /\ Len(program.stalls) \in Nat
      /\ row \in 0..Len(program.stalls[type]) /\ program.numtopstalls \in Int
      /\ \A t \in 1..type : Located(t) \in Seq(P)
  <2>1. program \in Programs /\ program.numtopstalls \in Int /\ row \in 0..Len(program.stalls[type])
    BY ProgramAssumption DEF Typed
  <2>2. type \in Nat /\ type >= 1 /\ row \in Nat /\ \A t \in 1..type : Located(t) \in Seq(P)
    BY ReachedFacts
  <2>3. Len(program.stalls) \in Nat
    BY <2>1, StallFacts
  <2> QED
    BY <2>1, <2>2, <2>3
<1>3. ASSUME NEW t \in 1..type PROVE Located(t)' = Located(t)
  <2>1. CASE t < type
    <3>1. t < type'
      BY <1>2, <2>1
    <3>2. Reached(t)' = Reached(t)
      BY <1>1, <2>1, <3>1 DEF Reached
    <3> QED
      BY <1>1, <3>2, SameKernel DEF Located
  <2>2. CASE t = type
    <3> DEFINE m == Len(program.stalls[t])
               top == program.numtopstalls
    <3>1. t < type' /\ ~(t < type) /\ m \in Nat
      BY SMTT(30), <1>2, <2>2, StallFacts DEF Typed
    <3>2. (IF top < 0 \/ m < top THEN m ELSE top) = IF top < 0 \/ row < top THEN row ELSE top
      <4>1. (top >= 0 /\ row >= top) \/ row = m
        BY <1>1, <2>2 DEF Limited
      <4>2. row <= m
        BY <1>2, <2>2
      <4> HIDE DEF m, top
      <4> QED
        BY <1>2, <3>1, <4>1, <4>2 DEF top
    <3>3. Reached(t) = SubSeq(program.stalls[t], 1, IF top < 0 \/ row < top THEN row ELSE top)
      BY <3>1 DEF Reached
    <3>4. Reached(t)' = SubSeq(program.stalls[t], 1, IF top < 0 \/ m < top THEN m ELSE top)
      BY <1>1, <3>1 DEF Reached
    <3>5. Reached(t)' = Reached(t)
      <4> DEFINE x == IF top < 0 \/ row < top THEN row ELSE top
                 y == IF top < 0 \/ m < top THEN m ELSE top
      <4>1. x = y /\ Reached(t) = SubSeq(program.stalls[t], 1, x) /\ Reached(t)' = SubSeq(program.stalls[t], 1, y)
        BY <3>2, <3>3, <3>4
      <4> HIDE DEF x, y
      <4> QED
        BY <4>1
    <3> QED
      BY <1>1, <3>5, SameKernel DEF Located
  <2> QED
    BY <1>2, <2>1, <2>2
<1>4. ASSUME NEW t, t = n PROVE Located(t)' = <<>>
  <2> DEFINE s == program.stalls[t]
             X == Instructions(program) \cup {Nowhere}
             top == program.numtopstalls
  <2>1. t \in DOMAIN program.stalls /\ s \in Seq(X) /\ Len(s) \in Nat /\ ~(t < type')
    <3>1. t \in 1..Len(program.stalls)
      BY <1>1, <1>2, <1>4
    <3>2. t \in DOMAIN program.stalls
      BY <1>2, <3>1, StallFacts
    <3>3. ~(t < type')
      BY <1>2, <1>4
    <3> QED
      BY <1>2, <3>2, <3>3, StallFacts
  <2>2. (IF top < 0 \/ 0 < top THEN 0 ELSE top) = 0
    BY <1>2
  <2>3. Reached(t)' = SubSeq(s, 1, IF top < 0 \/ 0 < top THEN 0 ELSE top)
    BY <1>1, <2>1 DEF Reached
  <2> HIDE DEF s, top
  <2>4. SubSeq(s, 1, 0) = <<>>
    BY <2>1
  <2>5. Reached(t)' = <<>>
    BY <2>2, <2>3, <2>4
  <2>6. Those(<<>>, P) = <<>>
    <3> DEFINE none == {}
    <3>1. <<>> \in Seq(none) /\ none \cap P = {}
      OBVIOUS
    <3> HIDE DEF none
    <3> QED
      BY <3>1, NoneOfThose
  <2> QED
    BY <1>1, <2>5, <2>6, SameKernel DEF Located
<1>5. All' = All
  <2>1. All = FlattenSeq(q) /\ All' = FlattenSeq(r)
    BY DEF All
  <2>2. n \in Nat /\ n \in 1..n /\ 1..type \subseteq 1..n /\ \A t \in 1..n : t \in 1..type \/ t = n
    BY <1>2
  <2>3. \A t \in 1..n : r[t] = Located(t)'
    OBVIOUS
  <2>4. /\ \A t \in 1..type : q[t] = Located(t) /\ q[t] \in Seq(P)
        /\ \A t \in 1..type : r[t] = q[t]
        /\ r[n] = <<>>
    BY <1>2, <1>3, <1>4, <2>2, <2>3
  <2> HIDE DEF P
  <2>5. q \in Seq(Seq(P)) /\ Len(q) = type
    BY <1>2, <2>4
  <2> DEFINE none == <<>>
             a == Append(q, none)
  <2>6. none \in Seq(P)
    BY EmptySeq
  <2>7. \A t \in 1..n : r[t] \in Seq(P)
    BY <2>2, <2>4, <2>6
  <2>8. r \in Seq(Seq(P)) /\ Len(r) = n
    BY <2>2, <2>7
  <2> HIDE DEF q, r, none
  <2>9. a \in Seq(Seq(P)) /\ Len(a) = type + 1 /\ (\A t \in 1..type : a[t] = q[t]) /\ a[type + 1] = none
    BY <2>5, <2>6, AppendProperties
  <2>10. FlattenSeq(a) = FlattenSeq(q) \o none /\ FlattenSeq(q) \in Seq(P)
    BY <2>5, <2>6, FlattenOneMore
  <2> HIDE DEF a
  <2>11. ASSUME NEW t \in 1..n PROVE r[t] = a[t]
    BY <2>2, <2>4, <2>9 DEF none
  <2>12. r = a
    BY <2>8, <2>9, <2>11, SeqEqual
  <2>13. FlattenSeq(q) \o none = FlattenSeq(q)
    BY <2>10, ConcatEmptySeq DEF none
  <2> QED
    BY <2>1, <2>10, <2>12, <2>13
<1> QED
  BY <1>3, <1>4, <1>5

--------------------------------------------------------------------------------
(* The steps.                                                              *)

LEMMA NextTypeReports ==
  ASSUME Typed, NextType
  PROVE  /\ report' \in Seq(ReportLine) /\ Those(report', Stalled) = Those(report, Stalled)
         /\ ToSet(report) \subseteq ToSet(report')
<1> DEFINE X == {Text, Blank}
<1>1. report \in Seq(ReportLine)
  BY DEF Typed
<1>2. <<>> \in Seq(X) /\ <<Text, Text>> \in Seq(X) /\ <<Text, Blank>> \in Seq(X)
  OBVIOUS
<1>3. \E s \in Seq(X) : report' = report \o s
  <2>1. CASE type < Len(program.stalls) /\ program.stalls[type + 1] = <<>>
    <3>1. report' = report \o <<>>
      BY <2>1 DEF NextType
    <3> QED
      BY <1>2, <3>1
  <2>2. CASE type < Len(program.stalls) /\ program.stalls[type + 1] # <<>>
    <3>1. report' = report \o <<Text, Text>>
      BY <2>2 DEF NextType
    <3> QED
      BY <1>2, <3>1
  <2>3. CASE ~(type < Len(program.stalls))
    <3>1. report' = report \o <<Text, Blank>>
      BY <2>3 DEF NextType
    <3> QED
      BY <1>2, <3>1
  <2> QED
    BY <2>1, <2>2, <2>3
<1>4. PICK s \in Seq(X) : report' = report \o s
  BY <1>3
<1> QED
  BY <1>1, <1>4, ReportRests

LEMMA TypedInit == Init => Typed
<1> SUFFICES ASSUME Init PROVE Typed
  OBVIOUS
<1>1. program \in Programs /\ pc = "next" /\ type = 1 /\ row = 0 /\ bound = FALSE
      /\ report = <<Text, Text, Blank, Text, Text, Text>>
  BY DEF Init
<1>2. report \in Seq(ReportLine)
  <2>1. Text \in ReportLine /\ Blank \in ReportLine
    BY DEF ReportLine
  <2> QED
    BY <1>1, <2>1
<1>3. type \in DOMAIN program.stalls /\ row \in 0..Len(program.stalls[type])
  BY <1>1, StallFacts
<1>4. ~Searching
  BY <1>1 DEF Searching
<1> QED
  BY <1>1, <1>2, <1>3, <1>4 DEF Typed

LEMMA TypedStep ==
  ASSUME Typed, SearchInv, [Next]_vars
  PROVE  Typed'
<1> USE SameKernel
<1>1. /\ program \in Programs /\ type \in DOMAIN program.stalls /\ row \in 0..Len(program.stalls[type])
      /\ bound \in BOOLEAN /\ report \in Seq(ReportLine)
      /\ pc \in {"next", "search", "found", "pages", "ended", "failed"}
      /\ (Searching => type = 1 /\ row > 0 /\ Position # Nowhere)
  BY DEF Typed
<1>2. CASE NextType
  <2>1. program' = program /\ bound' = bound /\ pc = "next"
    BY <1>2 DEF NextType
  <2>2. report' \in Seq(ReportLine)
    BY <1>2, NextTypeReports
  <2>3. (pc' = "next" \/ pc' = "pages") /\ type' \in DOMAIN program.stalls /\ row' \in 0..Len(program.stalls[type'])
    <3>1. CASE type < Len(program.stalls)
      <4>1. type' = type + 1 /\ row' = 0 /\ pc' = pc
        BY <1>2, <3>1 DEF NextType
      <4>2. type + 1 \in DOMAIN program.stalls
        BY <1>1, <3>1, StallFacts
      <4> QED
        BY <1>1, <2>1, <4>1, <4>2, StallFacts
    <3>2. CASE ~(type < Len(program.stalls))
      BY <1>1, <1>2, <3>2 DEF NextType
    <3> QED
      BY <3>1, <3>2
  <2>4. ~Searching'
    BY <2>3 DEF Searching
  <2> QED
    BY <1>1, <2>1, <2>2, <2>3, <2>4 DEF Typed
<1>3. ASSUME NextStall, program' = program, type' = type
      PROVE  /\ type' \in DOMAIN program.stalls /\ row' \in 0..Len(program.stalls[type']) /\ row' > 0
             /\ Position' = Here
  <2>1. row' = row + 1 /\ row + 1 \in 1..Len(program.stalls[type]) /\ row + 1 > 0 /\ Position' = Here
    BY <1>3, HereTyped DEF NextStall
  <2>2. Len(program.stalls[type]) \in Nat
    BY <1>1, StallFacts
  <2> QED
    BY <1>1, <1>3, <2>1, <2>2
<1>4. CASE NotInAssembly
  <2>1. NextStall /\ pc = "next" /\ UNCHANGED <<program, pc, type, bound, report>>
    BY <1>4 DEF NotInAssembly, NextStall, written
  <2>2. ~Searching'
    BY <2>1 DEF Searching
  <2> QED
    BY <1>1, <1>3, <2>1, <2>2 DEF Typed
<1>5. CASE FindSbids
  <2>1. /\ NextStall /\ pc' = "search" /\ bound' = TRUE /\ type = 1 /\ Here # Nowhere
        /\ UNCHANGED <<program, type, report>>
    BY <1>5 DEF FindSbids, written
  <2> QED
    BY <1>1, <1>3, <2>1 DEF Typed
<1>6. CASE OtherStall
  <2>1. NextStall /\ pc = "next" /\ UNCHANGED <<program, type>> /\ bound' = (bound \/ SourceAvailable)
    BY <1>6 DEF OtherStall, NextStall
  <2>2. bound' \in BOOLEAN
    BY <1>1, <2>1 DEF SourceAvailable
  <2>3. (pc' = "next" \/ pc' = "failed") /\ report' \in Seq(ReportLine)
    <3>1. CASE SourceAvailable \/ bound
      BY <1>6, <2>1, <3>1, OtherReported
    <3>2. CASE ~(SourceAvailable \/ bound)
      BY <1>1, <1>6, <3>2 DEF OtherStall
    <3> QED
      BY <3>1, <3>2
  <2>4. ~Searching'
    BY <2>3 DEF Searching
  <2> QED
    BY <1>1, <1>3, <2>1, <2>2, <2>3, <2>4 DEF Typed
\* The search.
<1>7. ASSUME UNCHANGED <<program, type, row, bound, report>>,
             pc' = pc \/ (Searching /\ pc' = "found")
      PROVE  Typed'
  <2>1. Position' = Position
    BY <1>7, SameStall
  <2>2. Searching' => Searching
    BY <1>7 DEF Searching
  <2>3. pc' \in {"next", "search", "found", "pages", "ended", "failed"}
    BY <1>1, <1>7
  <2> QED
    BY <1>1, <1>7, <2>1, <2>2, <2>3 DEF Typed
<1>8. CASE LookAtInstruction
  <2>1. pc = "search" /\ UNCHANGED <<program, type, row, bound, report>> /\ (pc' = pc \/ pc' = "found")
    BY <1>8 DEF LookAtInstruction, Looking, Leave, written
  <2> QED
    BY <1>7, <2>1 DEF Searching
<1>9. CASE LookAtComment
  <2>1. pc = "search" /\ UNCHANGED <<program, type, row, bound, report>> /\ (pc' = pc \/ pc' = "found")
    BY <1>9 DEF LookAtComment, Looking, Leave, written
  <2> QED
    BY <1>7, <2>1 DEF Searching
<1>10. CASE NextBlock
  <2>1. pc = "search" /\ UNCHANGED <<program, type, row, bound, report>> /\ (pc' = pc \/ pc' = "found")
    BY <1>10 DEF NextBlock, written
  <2> QED
    BY <1>7, <2>1 DEF Searching
<1>11. CASE ScanUpwards
  <2>1. pc' = "next" /\ UNCHANGED <<program, type, row, bound>>
    BY <1>11 DEF ScanUpwards
  <2>2. report' \in Seq(ReportLine) /\ ~Searching'
    BY <1>11, <2>1, Scanned DEF StallReported, Searching
  <2> QED
    BY <1>1, <2>1, <2>2 DEF Typed
<1>12. CASE GiveUp
  <2>1. pc' = "next" /\ UNCHANGED <<program, type, row, bound>>
    BY <1>12 DEF GiveUp
  <2>2. report' \in Seq(ReportLine) /\ ~Searching'
    BY <1>12, <2>1, GivenUp DEF StallReported, Searching
  <2> QED
    BY <1>1, <2>1, <2>2 DEF Typed
<1>13. CASE PutPiece
  BY <1>7, <1>13 DEF PutPiece
<1>14. CASE LastPage
  <2>1. pc' = "ended" /\ UNCHANGED <<program, type, row, bound, report>>
    BY <1>14 DEF LastPage
  <2>2. ~Searching'
    BY <2>1 DEF Searching
  <2> QED
    BY <1>1, <2>1, <2>2 DEF Typed
<1>15. CASE UNCHANGED vars
  BY <1>7, <1>15 DEF vars, written
<1> QED
  BY <1>2, <1>4, <1>5, <1>6, <1>8, <1>9, <1>10, <1>11, <1>12, <1>13, <1>14, <1>15 DEF Next

LEMMA SearchStep ==
  ASSUME Typed, SearchInv, [Next]_vars
  PROVE  SearchInv'
<1>1. Typed'
  BY TypedStep
<1>2. ASSUME ~Searched' PROVE SearchInv'
  BY <1>2 DEF SearchInv
<1>3. ASSUME ~Searching', type' # 1 \/ Position' = Nowhere PROVE SearchInv'
  BY <1>2, <1>3 DEF Searched
<1>4. CASE NextType
  <2>1. program' = program /\ search' = search /\ pc = "next" /\ ToSet(report) \subseteq ToSet(report')
    BY <1>4, NextTypeReports DEF NextType
  <2>2. ~Searching /\ ~Searching'
    BY <1>4 DEF Searching, NextType
  <2>3. CASE type < Len(program.stalls)
    <3>1. type' = type + 1
      BY <1>4, <2>3 DEF NextType
    <3> QED
      BY <1>3, <2>2, <3>1, ReachedFacts
  <2>4. CASE ~(type < Len(program.stalls))
    <3>1. UNCHANGED <<type, row>>
      BY <1>4, <2>4 DEF NextType
    <3> QED
      BY <2>1, <2>2, <3>1, SearchKept
  <2> QED
    BY <2>3, <2>4
<1>5. CASE NotInAssembly
  <2>1. ~Searching' /\ Position' = Nowhere
    BY <1>5, HereTyped DEF NotInAssembly, NextStall, Searching
  <2> QED
    BY <1>3, <2>1
<1>6. CASE FindSbids
  BY <1>6, SearchStarts
<1>7. CASE OtherStall
  <2>1. type' # 1
    BY <1>7 DEF OtherStall
  <2>2. ~Searching'
    <3>1. pc = "next" /\ (pc' = pc \/ pc' = "failed")
      BY <1>7 DEF OtherStall, NextStall
    <3> QED
      BY <3>1 DEF Searching
  <2> QED
    BY <1>3, <2>1, <2>2
<1>8. CASE LookAtInstruction
  BY <1>8, InstructionLookedAt
<1>9. CASE LookAtComment
  BY <1>9, CommentLookedAt
<1>10. CASE NextBlock
  BY <1>10, BlockFinished
<1>11. CASE ScanUpwards
  BY <1>11, Scanned
<1>12. CASE GiveUp
  BY <1>12, GivenUp
<1>13. CASE PutPiece \/ LastPage
  <2>1. /\ ~Searching /\ ~Searching' /\ program' = program /\ UNCHANGED <<type, row, search>> /\ report' = report
    BY <1>13 DEF PutPiece, LastPage, Searching
  <2> QED
    BY <2>1, SearchKept
<1>14. CASE UNCHANGED vars
  <2>1. program' = program /\ UNCHANGED <<pc, type, row, search, report>>
    BY <1>14 DEF vars, written
  <2>2. CASE ~Searching
    <3>1. ~Searching'
      BY <2>1, <2>2 DEF Searching
    <3> QED
      BY <2>1, <2>2, <3>1, SearchKept
  <2>3. CASE Searching
    <3> USE SameKernel, SameStall
    <3>1. UNCHANGED <<sbids_stalled, bbs_to_check, j, place, stall, unresolved, source>> /\ Searching'
      BY <2>1, <2>3 DEF search, Searching
    <3>2. Found /\ ToCheck /\ Checked /\ Sourced
      BY <2>3, SearchFacts
    <3>3. Found'
      BY <2>1, <3>1, <3>2 DEF Found
    <3>4. ToCheck'
      BY <2>1, <3>1, <3>2 DEF ToCheck
    <3>5. \A c : IsListed(c)' = IsListed(c)
      BY <2>1, <3>1 DEF IsListed
    <3>6. \A e, n : Passed(e, n)' = Passed(e, n)
      BY <2>1, <3>1 DEF Passed
    <3>7. /\ j' \in 0..Len(bbs_to_check')
          /\ \A i \in 1..j' : Passed(bbs_to_check[i], 0)' /\ \A c \in ToSet(Preds(bbs_to_check[i][1]))' : IsListed(c)'
      BY <2>1, <3>1, <3>2, <3>5, <3>6 DEF Checked
    <3>8. /\ j' < Len(bbs_to_check') => place' \in 0..(bbs_to_check'[j' + 1][3]) /\ Passed(bbs_to_check[j + 1], place)'
          /\ j' = Len(bbs_to_check') => place' = 0
          /\ pc' = "found" => j' < Len(bbs_to_check') /\ sbids_stalled' = <<>>
      <4>1. Passed(bbs_to_check[j + 1], place)' = Passed(bbs_to_check[j + 1], place)
        BY <2>1, <3>1 DEF Passed
      <4> QED
        BY <2>1, <2>3, <3>1, <3>2, <4>1 DEF Checked
    <3>9. Checked'
      BY <3>1, <3>7, <3>8 DEF Checked
    <3>10. \A kind, p : Near(kind, p)' = Near(kind, p) /\ Far(kind, p)' = Far(kind, p)
      BY <2>1, <3>1 DEF Near, Far, NoneBetween, Item
    <3>11. \A kind, p : Closest(kind, p)' = Closest(kind, p)
      BY <2>1, <3>1 DEF Closest
    <3>12. ASSUME NEW kind \in Kinds
           PROVE  \A p \in unresolved'[kind] : Near(kind, Where(p))' \/ Far(kind, Where(p))'
      <4>1. \A p \in unresolved[kind] : Near(kind, Where(p)) \/ Far(kind, Where(p))
        BY <2>3, <3>2 DEF Sourced
      <4>2. \A p : (Near(kind, Where(p)) \/ Far(kind, Where(p)))' = (Near(kind, Where(p)) \/ Far(kind, Where(p)))
        <5>1. \A p : Where(p)' = Where(p)
          BY <2>1
        <5> QED
          BY <2>1, <3>1, <5>1 DEF Near, Far, NoneBetween, Item
      <4> QED
        BY <3>1, <4>1, <4>2
    <3>13. Sourced'
      <4>1. DOMAIN source' = Kinds /\ DOMAIN unresolved' = Kinds
        BY <3>1, <3>2 DEF Sourced
      <4>2. ASSUME NEW kind \in Kinds
            PROVE  /\ DOMAIN source'[kind] \cup unresolved'[kind] = ToSet(stall') \cup {Nowhere}
                   /\ \A p \in DOMAIN source'[kind] : source'[kind][p] \in Positions(program)' /\ Closest(kind, p)'
        BY <2>1, <3>1, <3>2, <3>11 DEF Sourced
      <4> QED
        BY <3>1, <3>12, <4>1, <4>2 DEF Sourced
    <3> QED
      BY <3>1, <3>3, <3>4, <3>9, <3>13 DEF SearchInv, Named
  <2> QED
    BY <2>2, <2>3
<1> QED
  BY <1>4, <1>5, <1>6, <1>7, <1>8, <1>9, <1>10, <1>11, <1>12, <1>13, <1>14 DEF Next

LEMMA SameReported ==
  ASSUME program' = program
  PROVE  /\ Reported = Those(report, Stalled) /\ Reported' = Those(report', Stalled)
         /\ report' = report => Reported' = Reported
<1>1. Reported = Those(report, Stalled)
  BY DEF Reported, Stalled
<1>2. Reported' = Those(report', {"stalled"} \X Positions(program)')
  BY DEF Reported
<1>3. Positions(program)' = Positions(program)
  BY SameKernel
<1>4. Reported' = Those(report', Stalled)
  BY <1>2, <1>3 DEF Stalled
<1> QED
  BY <1>1, <1>4

\* A step that neither comes to a stall nor reports one.
LEMMA ReportKept ==
  ASSUME Typed, ReportInv, UNCHANGED <<program, type, row, bound, report>>, Searching' <=> Searching,
         pc' = "failed" <=> pc = "failed",
         pc' \in {"next", "pages", "ended"} => pc \in {"next", "pages", "ended"}
  PROVE  ReportInv'
<1>1. Reported' = Reported
  BY SameReported
<1>2. (\A t : Located(t)' = Located(t)) /\ All' = All
  BY ReachedSame
<1>3. SourceAvailable' = SourceAvailable
  BY SameKernel
<1>4. Position' = Position
  BY SameStall
<1>5. StalledLines(All)' = StalledLines(All)
  BY <1>2 DEF StalledLines
<1>6. pc' = "failed" => ~SourceAvailable' /\ Located(1)' = <<>> /\ ~bound'
  BY <1>2, <1>3 DEF ReportInv
<1>7. ~bound' => Reported' = <<>> /\ (pc' # "failed" => \A t \in 1..type' : Located(t)' = <<>>)
  BY <1>1, <1>2 DEF ReportInv
<1>8. pc' \in {"next", "pages", "ended"} => Reported' = StalledLines(All)'
  BY <1>1, <1>5 DEF ReportInv
<1>9. Searching' => bound' /\ Append(Reported', <<"stalled", Position'>>) = StalledLines(All)'
  BY <1>1, <1>4, <1>5 DEF ReportInv
<1> QED
  BY <1>6, <1>7, <1>8, <1>9 DEF ReportInv

\* A step after which the search is through and the stall is reported.
LEMMA ReportDone ==
  ASSUME Typed, ReportInv, Searching, StallReported, UNCHANGED <<program, type, row, bound>>, pc' = "next"
  PROVE  ReportInv'
<1>1. Reported = Those(report, Stalled) /\ Reported' = Those(report', Stalled)
  BY SameReported
<1>2. Reported' = Append(Reported, <<"stalled", Position>>)
  BY <1>1 DEF StallReported
<1>3. All' = All
  BY ReachedSame
<1>4. Reported' = StalledLines(All)'
  BY <1>2, <1>3 DEF ReportInv, StalledLines
<1>5. bound' /\ ~Searching'
  BY DEF ReportInv, Searching
<1> QED
  BY <1>4, <1>5 DEF ReportInv

LEMMA ReportStep ==
  ASSUME Typed, SearchInv, ReportInv, [Next]_vars
  PROVE  ReportInv'
<1>1. type \in Nat /\ type >= 1 /\ \A t \in 1..type : t \in 1..(type - 1) \/ t = type
  BY ReachedFacts
<1>2. CASE NextType
  <2>1. program' = program /\ bound' = bound /\ pc = "next" /\ Those(report', Stalled) = Those(report, Stalled)
    BY <1>2, NextTypeReports DEF NextType
  <2>2. Reported' = Reported
    BY <2>1, SameReported
  <2>3. (pc' = "next" \/ pc' = "pages") /\ ~Searching' /\ All' = All
        /\ ((\A t \in 1..type : Located(t) = <<>>) => \A t \in 1..type' : Located(t)' = <<>>)
    <3>1. CASE type < Len(program.stalls)
      <4>1. type' = type + 1 /\ row' = 0 /\ pc' = pc
        BY <1>2, <3>1 DEF NextType
      <4>2. /\ \A t \in 1..type : Located(t)' = Located(t)
            /\ (\A t : t = type + 1 => Located(t)' = <<>>) /\ All' = All
        BY <1>2, <4>1, AllNextType
      <4>3. \A t \in 1..type' : t \in 1..type \/ t = type + 1
        BY <1>1, <4>1
      <4> QED
        BY <2>1, <4>1, <4>2, <4>3 DEF Searching
    <3>2. CASE ~(type < Len(program.stalls))
      <4>1. type' = type /\ row' = row /\ pc' = "pages"
        BY <1>2, <3>2 DEF NextType
      <4>2. (\A t : Located(t)' = Located(t)) /\ All' = All
        BY <2>1, <4>1, ReachedSame
      <4> QED
        BY <4>1, <4>2 DEF Searching
    <3> QED
      BY <3>1, <3>2
  <2>4. Reported' = StalledLines(All)'
    BY <2>1, <2>2, <2>3 DEF ReportInv, StalledLines
  <2>5. ~bound' => Reported' = <<>> /\ \A t \in 1..type' : Located(t)' = <<>>
    BY <2>1, <2>2, <2>3 DEF ReportInv
  <2> QED
    BY <2>3, <2>4, <2>5 DEF ReportInv
<1>3. CASE NotInAssembly
  <2>1. NextStall /\ Here = Nowhere /\ pc = "next" /\ UNCHANGED <<program, pc, type, bound, report>>
    BY <1>3 DEF NotInAssembly, NextStall, written
  <2>2. Reported' = Reported /\ All' = All
    BY <2>1, SameReported, AllOneMore
  <2>3. \A t \in 1..type : Located(t)' = Located(t)
    BY <1>1, <2>1, ReachedOneMore
  <2>4. Reported' = StalledLines(All)'
    BY <2>1, <2>2 DEF ReportInv, StalledLines
  <2>5. ~bound' => Reported' = <<>> /\ \A t \in 1..type' : Located(t)' = <<>>
    BY <2>1, <2>2, <2>3 DEF ReportInv
  <2>6. ~Searching' /\ pc' # "failed"
    BY <2>1 DEF Searching
  <2> QED
    BY <2>4, <2>5, <2>6 DEF ReportInv
<1>4. CASE FindSbids
  <2>1. /\ NextStall /\ Here # Nowhere /\ pc = "next" /\ pc' = "search" /\ bound' = TRUE
        /\ UNCHANGED <<program, type, report>>
    BY <1>4 DEF FindSbids, NextStall, written
  <2>2. Position' = Here
    BY <2>1, HereTyped
  <2>3. Reported' = Reported /\ StalledLines(All') = Append(StalledLines(All), <<"stalled", Here>>)
    BY <2>1, SameReported, AllOneMore
  <2>4. Reported = StalledLines(All)
    BY <2>1 DEF ReportInv
  <2>5. StalledLines(All)' = StalledLines(All')
    BY DEF StalledLines
  <2>6. Append(Reported', <<"stalled", Position'>>) = StalledLines(All)'
    BY <2>2, <2>3, <2>4, <2>5
  <2> QED
    BY <2>1, <2>6 DEF ReportInv
<1>5. CASE OtherStall
  <2>1. /\ NextStall /\ Here # Nowhere /\ pc = "next" /\ type > 1 /\ UNCHANGED <<program, type>>
        /\ bound' = (bound \/ SourceAvailable)
    BY <1>5 DEF OtherStall, NextStall
  <2>2. CASE SourceAvailable \/ bound
    <3>1. pc' = pc /\ Those(report', Stalled) = Append(Those(report, Stalled), <<"stalled", Here>>)
      BY <1>5, <2>2, OtherReported
    <3>2. Reported = Those(report, Stalled) /\ Reported' = Those(report', Stalled)
      BY <2>1, SameReported
    <3>3. StalledLines(All') = Append(StalledLines(All), <<"stalled", Here>>)
      BY <2>1, AllOneMore
    <3>4. Reported = StalledLines(All)
      BY <2>1 DEF ReportInv
    <3>5. StalledLines(All)' = StalledLines(All')
      BY DEF StalledLines
    <3>6. Reported' = StalledLines(All)'
      BY <3>1, <3>2, <3>3, <3>4, <3>5
    <3>7. bound' /\ pc' = "next" /\ ~Searching'
      BY <2>1, <2>2, <3>1 DEF Searching
    <3> QED
      BY <3>6, <3>7 DEF ReportInv
  <2>3. CASE ~(SourceAvailable \/ bound)
    <3>1. pc' = "failed" /\ report' = report
      BY <1>5, <2>3 DEF OtherStall
    <3>2. Reported' = Reported /\ SourceAvailable' = SourceAvailable
      BY <2>1, <3>1, SameReported, SameKernel
    <3>3. Reported = <<>> /\ \A t \in 1..type : Located(t) = <<>>
      BY <2>1, <2>3 DEF ReportInv
    <3>4. 1 \in 1..(type - 1) /\ 1 \in 1..type
      BY <1>1, <2>1
    <3>5. \A t \in 1..(type - 1) : Located(t)' = Located(t)
      BY <2>1, ReachedOneMore
    <3>6. Located(1)' = <<>>
      BY <3>3, <3>4, <3>5
    <3>7. ~bound' /\ ~Searching'
      BY <2>1, <2>3, <3>1 DEF Searching, SourceAvailable
    <3> QED
      BY <2>3, <3>1, <3>2, <3>3, <3>6, <3>7 DEF ReportInv
  <2> QED
    BY <2>2, <2>3
<1>6. CASE LookAtInstruction \/ LookAtComment \/ NextBlock
  <2>1. /\ pc = "search" /\ UNCHANGED <<program, type, row, bound, report>>
        /\ pc' = pc \/ pc' = "found"
    BY <1>6 DEF LookAtInstruction, LookAtComment, NextBlock, Looking, Leave, written
  <2>2. (Searching' <=> Searching) /\ pc' # "failed" /\ pc' \notin {"next", "pages", "ended"}
    BY <2>1 DEF Searching
  <2> QED
    BY <2>1, <2>2, ReportKept
<1>7. CASE ScanUpwards
  <2>1. pc = "found" /\ pc' = "next" /\ UNCHANGED <<program, type, row, bound>>
    BY <1>7 DEF ScanUpwards
  <2> QED
    BY <1>7, <2>1, Scanned, ReportDone DEF Searching
<1>8. CASE GiveUp
  <2>1. pc = "search" /\ pc' = "next" /\ UNCHANGED <<program, type, row, bound>>
    BY <1>8 DEF GiveUp
  <2> QED
    BY <1>8, <2>1, GivenUp, ReportDone DEF Searching
<1>9. CASE PutPiece \/ LastPage
  <2>1. /\ pc = "pages" /\ UNCHANGED <<program, type, row, bound, report>>
        /\ pc' = pc \/ pc' = "ended"
    BY <1>9 DEF PutPiece, LastPage
  <2>2. (Searching' <=> Searching) /\ pc' # "failed"
    BY <2>1 DEF Searching
  <2> QED
    BY <2>1, <2>2, ReportKept
<1>10. CASE UNCHANGED vars
  <2>1. UNCHANGED <<program, type, row, bound, report, pc>>
    BY <1>10 DEF vars, written
  <2> QED
    BY <2>1, ReportKept DEF Searching
<1> QED
  BY <1>2, <1>3, <1>4, <1>5, <1>6, <1>7, <1>8, <1>9, <1>10 DEF Next

LEMMA SearchInit == Init => SearchInv
<1> SUFFICES ASSUME Init PROVE SearchInv
  OBVIOUS
<1>1. pc = "next" /\ row = 0
  BY DEF Init
<1> QED
  BY <1>1 DEF SearchInv, Searched, Searching

LEMMA ReportInit == Init => ReportInv
<1> SUFFICES ASSUME Init PROVE ReportInv
  OBVIOUS
<1> DEFINE P == Positions(program)
           none == <<>>
<1>1. /\ program \in Programs /\ pc = "next" /\ type = 1 /\ row = 0 /\ bound = FALSE
      /\ report = <<Text, Text, Blank, Text, Text, Text>>
  BY DEF Init
<1>2. Reported = <<>>
  <2> DEFINE X == {Text, Blank}
  <2>1. X \cap Stalled = {}
    BY DEF Stalled, Text, Blank
  <2>2. report \in Seq(X)
    BY <1>1
  <2> HIDE DEF X
  <2>3. Those(report, Stalled) = <<>>
    BY <2>1, <2>2, NoneOfThose
  <2> QED
    BY <2>3 DEF Reported, Stalled
<1>3. Located(1) = none
  <2> DEFINE s == program.stalls[1]
             top == program.numtopstalls
             X == Instructions(program) \cup {Nowhere}
  <2>1. s \in Seq(X) /\ Len(s) \in Nat /\ top \in Int
    BY <1>1, StallFacts, ProgramAssumption
  <2>2. (IF top < 0 \/ 0 < top THEN 0 ELSE top) = 0 \/ SubSeq(s, 1, top) = <<>>
    BY <2>1
  <2>3. Reached(1) = SubSeq(s, 1, IF top < 0 \/ 0 < top THEN 0 ELSE top)
    BY <1>1 DEF Reached
  <2>4. (IF top < 0 \/ 0 < top THEN 0 ELSE top) = 0
    BY <2>1
  <2> HIDE DEF s, top
  <2>5. SubSeq(s, 1, 0) = <<>>
    BY <2>1
  <2>6. Reached(1) = <<>>
    BY <2>3, <2>4, <2>5
  <2>7. Those(<<>>, P) = <<>>
    <3> DEFINE nobody == {}
    <3>1. <<>> \in Seq(nobody) /\ nobody \cap P = {}
      OBVIOUS
    <3> HIDE DEF nobody
    <3> QED
      BY <3>1, NoneOfThose
  <2> QED
    BY <2>6, <2>7 DEF Located
<1>4. All = <<>>
  <2> DEFINE q == [t \in 1..1 |-> Located(t)]
             a == Append(none, none)
  <2>1. q = [t \in 1..1 |-> none]
    BY <1>3
  <2>2. a = <<none>>
    OBVIOUS
  <2>3. q = a
    BY <2>1, <2>2
  <2>4. none \in Seq(Seq(P)) /\ none \in Seq(P)
    BY EmptySeq
  <2> HIDE DEF P, a, q, none
  <2>5. FlattenSeq(Append(none, none)) = FlattenSeq(none) \o none
    BY <2>4, FlattenOneMore
  <2>6. FlattenSeq(none) = none
    BY FlattenNothing DEF none
  <2>7. none \o none = none
    BY <2>4, ConcatEmptySeq DEF none
  <2>8. All = FlattenSeq(q)
    BY <1>1 DEF All, q
  <2> QED
    BY <2>3, <2>5, <2>6, <2>7, <2>8 DEF a, none
<1>5. StalledLines(All) = <<>>
  BY <1>4 DEF StalledLines
<1>6. \A t \in 1..type : Located(t) = <<>>
  BY <1>1, <1>3
<1> QED
  BY <1>1, <1>2, <1>5, <1>6 DEF ReportInv, Searching

--------------------------------------------------------------------------------
(* The pages.                                                              *)

Piece == Nat \X Nat
\* The first pieces of a line; the pieces of the first lines.
FirstPieces(k, n) == [i \in 1..n |-> <<k, line_width * (i - 1)>>]
FirstLines(n) == [k \in 1..n |-> Pieces(k)]

\* What is left of a line that is cut is wider than a page as long as there is a
\* piece more.
LEMMA WiderThanPage ==
  ASSUME NEW len \in Nat \ {0}, NEW w \in Nat \ {0}, NEW m \in Nat \ {0}
  PROVE  /\ (len - 1) \div w \in Nat
         /\ len - w * (m - 1) > w <=> m < (len - 1) \div w + 1
         /\ w * (m - 1) + w = w * m
<1> DEFINE a == len - 1
           q == a \div w
           e == m - 1
<1>1. a \in Nat /\ len = a + 1 /\ e \in Nat /\ m = e + 1 /\ m \in Nat
  OBVIOUS
<1> HIDE DEF a, e
<1>2. q \in Nat /\ w * q <= a /\ a < w * q + w
  BY <1>1, Division
<1> HIDE DEF q
<1> DEFINE r == q + 1
           x == w * m
           y == w * e
           z == w * q
           u == w * r
<1>3. r \in Nat /\ r = q + 1
  BY <1>2
<1>4. x = y + w /\ u = z + w
  BY <1>1, <1>2, TimesMore
<1>5. x \in Nat /\ y \in Nat /\ z \in Nat /\ u \in Nat
  BY <1>1, <1>2, <1>3, TimesMore
<1>6. (m <= q => x <= z) /\ (r <= m => u <= x)
  BY <1>1, <1>2, <1>3, TimesMore
<1>7. z <= a /\ a < z + w
  BY <1>2
<1> HIDE DEF x, y, z, u, r
<1>8. len - y > w <=> m < q + 1
  BY <1>1, <1>2, <1>3, <1>4, <1>5, <1>6, <1>7
<1> QED
  BY <1>2, <1>4, <1>8 DEF a, q, e, x, y

LEMMA PieceFacts ==
  ASSUME report \in Seq(ReportLine), NEW k \in 1..Len(report)
  PROVE  /\ Len(Pieces(k)) \in Nat \ {0} /\ Pieces(k) = FirstPieces(k, Len(Pieces(k)))
         /\ \A m \in Nat \ {0} : Length(k) - line_width * (m - 1) > line_width <=> m < Len(Pieces(k))
<1> DEFINE len == Length(k)
           n == (len - 1) \div line_width + 1
<1>1. line_width \in Nat \ {0} /\ k \in Nat
  BY LayoutAssumption
<1>2. len \in Nat \ {0}
  <2>1. report[k] \in ReportLine
    BY ElementOfSeq
  <2>2. report[k][1] \in {"text", "blank", "code", "stalled"}
    BY <2>1 DEF ReportLine, Text, Blank
  <2>3. \A l \in {"text", "code", "stalled"} : LineLength[l] \in Nat \ {0}
    BY LayoutAssumption
  <2> QED
    BY <2>2, <2>3 DEF Length
<1> HIDE DEF len
<1>3. n \in Nat \ {0} /\ \A m \in Nat \ {0} : len - line_width * (m - 1) > line_width <=> m < n
  <2>1. (len - 1) \div line_width \in Nat
    BY <1>1, <1>2, WiderThanPage
  <2>2. ASSUME NEW m \in Nat \ {0} PROVE len - line_width * (m - 1) > line_width <=> m < n
    BY <1>1, <1>2, WiderThanPage
  <2> QED
    BY <2>1, <2>2
<1>4. Pieces(k) = FirstPieces(k, n)
  BY DEF Pieces, FirstPieces, len
<1> HIDE DEF n
<1>5. Len(Pieces(k)) = n
  BY <1>3, <1>4 DEF FirstPieces
<1> QED
  BY <1>3, <1>4, <1>5 DEF len

LEMMA PieceOneMore ==
  ASSUME NEW k \in Nat, NEW n \in Nat
  PROVE  /\ FirstPieces(k, n) \in Seq(Piece) /\ <<k, line_width * n>> \in Piece
         /\ FirstPieces(k, n + 1) = Append(FirstPieces(k, n), <<k, line_width * n>>)
<1> DEFINE c == FirstPieces(k, n)
           f == FirstPieces(k, n + 1)
           d == n + 1
<1>1. \A i \in 1..d : i - 1 \in Nat /\ line_width * (i - 1) \in Nat
  BY LayoutAssumption, TimesMore
<1>2. line_width * n \in Nat
  BY LayoutAssumption, TimesMore
<1>3. /\ c \in [1..n -> Piece] /\ f \in [1..(n + 1) -> Piece] /\ \A i \in 1..n : c[i] = f[i]
  BY <1>1 DEF FirstPieces, Piece
<1>4. f[n + 1] = <<k, line_width * n>>
  <2>1. d \in 1..d /\ d - 1 = n
    OBVIOUS
  <2>2. f[d] = <<k, line_width * (d - 1)>>
    BY <2>1 DEF FirstPieces
  <2> QED
    BY <2>1, <2>2
<1> HIDE DEF c, f
<1>5. c \in Seq(Piece) /\ f = Append(c, f[n + 1])
  BY <1>3, LastAppended
<1> QED
  BY <1>2, <1>4, <1>5 DEF c, f, Piece

LEMMA LineOneMore ==
  ASSUME report \in Seq(ReportLine), NEW n \in Nat, n < Len(report)
  PROVE  /\ FlattenSeq(FirstLines(n)) \in Seq(Piece) /\ Pieces(n + 1) \in Seq(Piece)
         /\ FlattenSeq(FirstLines(n + 1)) = FlattenSeq(FirstLines(n)) \o Pieces(n + 1)
<1> DEFINE X == Seq(Piece)
           c == FirstLines(n)
           f == FirstLines(n + 1)
           d == n + 1
<1>1. Len(report) \in Nat
  BY LenProperties
<1>2. ASSUME NEW k \in 1..d PROVE Pieces(k) \in X
  <2>1. k \in 1..Len(report) /\ k \in Nat
    BY <1>1
  <2>2. Pieces(k) = FirstPieces(k, Len(Pieces(k))) /\ Len(Pieces(k)) \in Nat
    BY <2>1, PieceFacts
  <2> QED
    BY <2>1, <2>2, PieceOneMore
<1>3. c \in [1..n -> X] /\ f \in [1..(n + 1) -> X] /\ \A i \in 1..n : c[i] = f[i]
  BY <1>2 DEF FirstLines
<1>4. f[n + 1] = Pieces(n + 1) /\ Pieces(n + 1) \in X
  <2>1. d \in 1..d
    OBVIOUS
  <2>2. f[d] = Pieces(d)
    BY <2>1 DEF FirstLines
  <2> QED
    BY <1>2, <2>1, <2>2
<1> DEFINE y == Pieces(n + 1)
<1> HIDE DEF c, f
<1>5. c \in Seq(X) /\ f = Append(c, y) /\ y \in X
  BY <1>3, <1>4, LastAppended
<1> HIDE DEF y
<1>6. FlattenSeq(c) \in Seq(Piece) /\ FlattenSeq(Append(c, y)) = FlattenSeq(c) \o y
  BY <1>5, FlattenOneMore
<1> QED
  BY <1>4, <1>5, <1>6 DEF c, f, y

\* A piece is put on the page: it is the last of what is on pages.
LEMMA PutOne ==
  ASSUME NEW piece \in Piece, Put(piece), pages \in Seq(Seq(Piece)), page \in Seq(Piece),
         Len(page) < page_size, \A k \in DOMAIN pages : Len(pages[k]) = page_size
  PROVE  /\ pages' \in Seq(Seq(Piece)) /\ page' \in Seq(Piece) /\ Len(page') < page_size
         /\ \A k \in DOMAIN pages' : Len(pages'[k]) = page_size
         /\ FlattenSeq(Append(pages, page)) \in Seq(Piece)
         /\ FlattenSeq(Append(pages', page')) = Append(FlattenSeq(Append(pages, page)), piece)
<1> DEFINE P == Piece
           longer == Append(page, piece)
           F == FlattenSeq(pages)
           none == <<>>
           one == <<piece>>
<1>1. page_size \in Nat \ {0}
  BY LayoutAssumption
<1>2. longer \in Seq(P) /\ Len(longer) = Len(page) + 1 /\ Len(page) \in Nat /\ longer = page \o one
  <2>1. longer \in Seq(P) /\ Len(longer) = Len(page) + 1
    BY AppendProperties
  <2>2. longer = page \o one
    BY AppendIsConcat
  <2>3. Len(page) \in Nat
    BY LenProperties
  <2> QED
    BY <2>1, <2>2, <2>3
<1>3. one \in Seq(P) /\ none \in Seq(P)
  OBVIOUS
<1> HIDE DEF longer, one, P
<1>4. F \in Seq(P) /\ FlattenSeq(Append(pages, page)) = F \o page
  BY FlattenOneMore DEF P
<1>5. FlattenSeq(Append(pages, longer)) = F \o longer
  BY <1>2, FlattenOneMore DEF P
<1> HIDE DEF F
<1>6. F \o page \in Seq(P) /\ F \o longer = Append(F \o page, piece)
  <2>1. \A s, t, u \in Seq(P) : (s \o t) \o u = s \o (t \o u)
    BY SMTT(30), ConcatAssociative
  <2>2. F \o page \in Seq(P)
    BY <1>4, ConcatProperties DEF P
  <2>3. Append(F \o page, piece) = (F \o page) \o one
    BY <2>2, AppendIsConcat DEF P, one
  <2>4. (F \o page) \o one = F \o (page \o one)
    BY <1>3, <1>4, <2>1 DEF P
  <2> QED
    BY <1>2, <2>2, <2>3, <2>4
<1>7. CASE Len(page) + 1 = page_size
  <2> DEFINE q == Append(pages, longer)
             N == Len(pages)
  <2>1. pages' = q /\ page' = none
    BY <1>7 DEF Put, longer
  <2>2. /\ q \in Seq(Seq(P)) /\ Len(q) = N + 1 /\ (\A k \in 1..N : q[k] = pages[k]) /\ q[N + 1] = longer
        /\ N \in Nat /\ DOMAIN pages = 1..N
    <3>1. pages \in Seq(Seq(P)) /\ longer \in Seq(P)
      BY <1>2 DEF P
    <3> DEFINE X == Seq(P)
    <3> HIDE DEF X
    <3>2. pages \in Seq(X) /\ longer \in X
      BY <3>1 DEF X
    <3>3. /\ q \in Seq(X) /\ Len(q) = N + 1 /\ (\A k \in 1..N : q[k] = pages[k]) /\ q[N + 1] = longer
      BY <3>2, AppendProperties
    <3>4. N \in Nat /\ DOMAIN pages = 1..N
      BY <3>2, LenProperties
    <3> QED
      BY <3>3, <3>4 DEF X
  <2> HIDE DEF q, N
  <2>3. DOMAIN q = 1..(N + 1)
    BY <2>2, LenProperties
  <2>4. ASSUME NEW k \in 1..(N + 1) PROVE Len(q[k]) = page_size
    <3>1. k \in 1..N \/ k = N + 1
      BY <2>2
    <3> QED
      BY <1>2, <1>7, <2>2, <3>1
  <2>5. FlattenSeq(Append(q, none)) = FlattenSeq(q) \o none /\ FlattenSeq(q) \in Seq(P)
    BY <1>3, <2>2, FlattenOneMore
  <2>6. FlattenSeq(q) \o none = FlattenSeq(q)
    BY <2>5, ConcatEmptySeq
  <2>7. FlattenSeq(q) = F \o longer
    BY <1>5 DEF q
  <2>8. Len(none) = 0
    OBVIOUS
  <2>9. none \in Seq(P)
    BY <1>3
  <2> HIDE DEF none
  <2>10. Len(page') < page_size /\ page' \in Seq(P)
    BY <1>1, <2>1, <2>8, <2>9
  <2>11. pages' \in Seq(Seq(P)) /\ \A k \in DOMAIN pages' : Len(pages'[k]) = page_size
    BY <2>1, <2>2, <2>3, <2>4
  <2> QED
    BY <1>4, <1>6, <2>1, <2>5, <2>6, <2>7, <2>10, <2>11 DEF P
<1>8. CASE Len(page) + 1 # page_size
  <2>1. pages' = pages /\ page' = longer
    BY <1>8 DEF Put, longer
  <2>2. Len(longer) < page_size
    BY <1>1, <1>2, <1>8
  <2> QED
    BY <1>2, <1>4, <1>5, <1>6, <2>1, <2>2 DEF P
<1> QED
  BY <1>7, <1>8

\* Nothing is on pages at first.
LEMMA PagesStart ==
  /\ <<>> \in Seq(Seq(Piece)) /\ <<>> \in Seq(Piece) /\ Len(<<>>) = 0
  /\ FlattenSeq(Append(<<>>, <<>>)) = <<>>
<1> DEFINE none == <<>>
<1>1. none \in Seq(Seq(Piece)) /\ none \in Seq(Piece) /\ Len(none) = 0
  BY EmptySeq
<1>2. FlattenSeq(none) = none
  BY FlattenNothing
<1> HIDE DEF none
<1>3. FlattenSeq(Append(none, none)) = FlattenSeq(none) \o none
  BY <1>1, FlattenOneMore
<1>4. none \o none = none
  BY <1>1, ConcatEmptySeq DEF none
<1> QED
  BY <1>1, <1>2, <1>3, <1>4 DEF none

LEMMA PagesInit == Init => PagesInv
<1> SUFFICES ASSUME Init PROVE PagesInv
  OBVIOUS
<1>1. pc = "next" /\ pages = <<>> /\ page = <<>> /\ put = 0 /\ cut = 0
  BY DEF Init
<1>2. pages \in Seq(Seq(Piece)) /\ page \in Seq(Piece) /\ Len(page) = 0 /\ DOMAIN pages = {}
  BY <1>1, PagesStart
<1>3. page_size > 0
  BY LayoutAssumption
<1> QED
  BY <1>1, <1>2, <1>3 DEF PagesInv, Piece

\* The report is there and none of it is on pages.
LEMMA PagesBegin ==
  ASSUME PagesInv, pc = "next", pc' = "pages", UNCHANGED <<pages, page, put, cut>>,
         report' \in Seq(ReportLine)
  PROVE  PagesInv'
<1>1. pages' = <<>> /\ page' = <<>> /\ put' = 0 /\ cut' = 0
  BY DEF PagesInv
<1>2. pages' \in Seq(Seq(Piece)) /\ page' \in Seq(Piece) /\ Len(page') = 0 /\ DOMAIN pages' = {}
  BY <1>1, PagesStart
<1>3. page_size > 0 /\ line_width \in Nat
  BY LayoutAssumption
<1>4. Len(report') \in Nat
  BY LenProperties
<1>5. PutUpTo(1)'
  <2>1. FlattenSeq(Append(pages', page')) = <<>>
    BY <1>1, PagesStart
  <2>2. [k \in 1..put' |-> Pieces(k)'] = <<>> /\ [n \in 1..(1 - 1) |-> <<put' + 1, line_width * (n - 1)>>] = <<>>
    BY <1>1
  <2>3. FlattenSeq(<<>>) \o <<>> = <<>>
    <3> DEFINE none == <<>>
    <3>1. FlattenSeq(none) = none /\ none \in Seq(Piece)
      BY FlattenNothing, EmptySeq
    <3> HIDE DEF none
    <3>2. none \o none = none
      BY <3>1, ConcatEmptySeq DEF none
    <3> QED
      BY <3>1, <3>2 DEF none
  <2>4. cut' = line_width * (1 - 1)
    BY <1>1, <1>3
  <2>5. FlattenSeq(Append(pages', page')) =
          FlattenSeq([k \in 1..put' |-> Pieces(k)']) \o [n \in 1..(1 - 1) |-> <<put' + 1, line_width * (n - 1)>>]
    BY <2>1, <2>2, <2>3
  <2> QED
    BY <2>4, <2>5 DEF PutUpTo
<1> QED
  BY <1>1, <1>2, <1>3, <1>4, <1>5 DEF PagesInv, Piece

\* What is on pages, in the names of these lemmas.
LEMMA PutIs ==
  ASSUME NEW m
  PROVE  PutUpTo(m) <=>
           /\ put < Len(report) /\ m > 1 => m <= Len(Pieces(put + 1))
           /\ put = Len(report) => m = 1
           /\ cut = line_width * (m - 1)
           /\ FlattenSeq(Append(pages, page)) = FlattenSeq(FirstLines(put)) \o FirstPieces(put + 1, m - 1)
BY DEF PutUpTo, FirstLines, FirstPieces

\* The lines do not change while they are put on pages.
LEMMA SamePieces ==
  ASSUME report' = report
  PROVE  \A k : Pieces(k)' = Pieces(k)
<1>1. \A k : Length(k)' = Length(k)
  BY DEF Length
<1> QED
  BY <1>1 DEF Pieces

LEMMA PiecePut ==
  ASSUME Typed, PagesInv, PutPiece
  PROVE  PagesInv'
<1> DEFINE k == put + 1
           piece == <<k, cut>>
           before == FlattenSeq(Append(pages, page))
           after == FlattenSeq(Append(pages', page'))
           len == Len(report)
<1>1. /\ pc = "pages" /\ pc' = "pages" /\ put < len /\ report' = report /\ Put(piece)
      /\ Length(k) - cut > line_width => cut' = cut + line_width /\ put' = put
      /\ ~(Length(k) - cut > line_width) => cut' = 0 /\ put' = put + 1
  BY DEF PutPiece
<1>2. report \in Seq(ReportLine) /\ len \in Nat
  BY LenProperties DEF Typed
<1>3. /\ pages \in Seq(Seq(Piece)) /\ page \in Seq(Piece) /\ Len(page) < page_size
      /\ put \in 0..len /\ \A i \in DOMAIN pages : Len(pages[i]) = page_size
  BY <1>1 DEF PagesInv, Piece
<1>4. PICK m \in Nat \ {0} : PutUpTo(m)
  BY <1>1 DEF PagesInv
<1> DEFINE e == m - 1
           n == Len(Pieces(k))
           lines == FlattenSeq(FirstLines(put))
           first == FirstPieces(k, e)
<1>5. put \in Nat /\ k \in Nat /\ k \in 1..len /\ e \in Nat /\ m = e + 1 /\ k = put + 1
  BY <1>1, <1>2, <1>4, <1>3 DEF PagesInv
<1>6. /\ m > 1 => m <= n
      /\ cut = line_width * e /\ before = lines \o first
  BY <1>1, <1>4, PutIs
<1>7. /\ n \in Nat \ {0} /\ Pieces(k) = FirstPieces(k, n)
      /\ Length(k) - line_width * e > line_width <=> m < n
  <2>1. \A i \in 1..len : /\ Len(Pieces(i)) \in Nat \ {0} /\ Pieces(i) = FirstPieces(i, Len(Pieces(i)))
                          /\ \A l \in Nat \ {0} : Length(i) - line_width * (l - 1) > line_width <=> l < Len(Pieces(i))
    BY <1>2, PieceFacts
  <2> QED
    BY <1>4, <1>5, <2>1, Zenon
<1> HIDE DEF k, e, n, len, before, after
<1>8. first \in Seq(Piece) /\ piece \in Piece /\ FirstPieces(k, m) = Append(first, piece)
  <2>1. /\ FirstPieces(k, e) \in Seq(Piece) /\ <<k, line_width * e>> \in Piece
        /\ FirstPieces(k, e + 1) = Append(FirstPieces(k, e), <<k, line_width * e>>)
    BY <1>5, PieceOneMore
  <2> QED
    BY <1>5, <1>6, <2>1
<1>9. /\ lines \in Seq(Piece) /\ Pieces(k) \in Seq(Piece)
      /\ FlattenSeq(FirstLines(k)) = lines \o Pieces(k)
  BY <1>1, <1>2, <1>5, LineOneMore DEF k, len
<1> HIDE DEF piece, first, lines
<1>10. /\ pages' \in Seq(Seq(Piece)) /\ page' \in Seq(Piece) /\ Len(page') < page_size
       /\ \A i \in DOMAIN pages' : Len(pages'[i]) = page_size
       /\ before \in Seq(Piece) /\ after = Append(before, piece)
  BY <1>1, <1>3, <1>8, PutOne DEF before, after
<1>11. after = lines \o FirstPieces(k, m)
  <2> DEFINE one == <<piece>>
             P == Piece
  <2>1. one \in Seq(P) /\ lines \in Seq(P) /\ first \in Seq(P)
    BY <1>8, <1>9
  <2>2. Append(first, piece) = first \o one
    BY <1>8, AppendIsConcat
  <2>3. after = before \o one
    BY <1>8, <1>10, AppendIsConcat
  <2> HIDE DEF one, P
  <2>4. \A s, t, u \in Seq(P) : (s \o t) \o u = s \o (t \o u)
    BY ConcatAssociative
  <2>5. (lines \o first) \o one = lines \o (first \o one)
    BY <2>1, <2>4
  <2> QED
    BY <1>6, <1>8, <2>2, <2>3, <2>5
<1>12. \A i : Pieces(i)' = Pieces(i)
  BY <1>1, SamePieces
<1>13. line_width \in Nat \ {0}
  BY LayoutAssumption
<1>14. put' \in 0..len /\ \E l \in Nat \ {0} : PutUpTo(l)'
  <2>1. CASE m < n
    <3>1. \E l \in Nat \ {0} : l - 1 = m /\ l <= n
      <4>1. m + 1 \in Nat \ {0} /\ (m + 1) - 1 = m /\ m + 1 <= n
        BY <1>7, <2>1
      <4> QED
        BY <4>1
    <3>2. put' = put /\ cut' = line_width * e + line_width
      BY <1>1, <1>6, <1>7, <2>1
    <3>3. cut' = line_width * m
      BY <1>5, <1>13, <3>2, TimesMore
    <3>4. after = FlattenSeq([i \in 1..put |-> Pieces(i)]) \o [i \in 1..m |-> <<put + 1, line_width * (i - 1)>>]
      BY <1>11 DEF lines, FirstLines, FirstPieces, k
    <3>5. ASSUME NEW l \in Nat \ {0}, l - 1 = m, l <= n PROVE PutUpTo(l)'
      <4>1. put' < Len(report') /\ l > 1 => l <= Len(Pieces(put + 1)')
        BY <1>12, <3>2, <3>5 DEF n, k
      <4>2. put' # Len(report')
        BY <1>1, <1>2, <1>5, <3>2 DEF len
      <4>3. FlattenSeq(Append(pages', page')) =
              FlattenSeq([i \in 1..put' |-> Pieces(i)']) \o [i \in 1..(l - 1) |-> <<put' + 1, line_width * (i - 1)>>]
        BY <1>12, <3>2, <3>4, <3>5 DEF after
      <4>4. cut' = line_width * (l - 1)
        BY <3>3, <3>5
      <4> QED
        BY <4>1, <4>2, <4>3, <4>4 DEF PutUpTo
    <3>6. \E l \in Nat \ {0} : PutUpTo(l)'
      BY <3>1, <3>5
    <3>7. put' \in 0..len
      BY <1>3, <3>2
    <3> QED
      BY <3>6, <3>7
  <2>2. CASE ~(m < n)
    <3>1. m = n /\ put' = k /\ cut' = 0
      <4>1. m = n
        BY <1>4, <1>6, <1>7, <2>2
      <4> QED
        BY <1>1, <1>6, <1>7, <2>2, <4>1 DEF k
    <3>2. after = FlattenSeq(FirstLines(k))
      BY <1>7, <1>9, <1>11, <3>1
    <3>3. after \in Seq(Piece)
      BY <1>8, <1>10, AppendProperties
    <3>4. after = after \o <<>>
      BY <3>3, ConcatEmptySeq
    <3>5. [i \in 1..(1 - 1) |-> <<put' + 1, line_width * (i - 1)>>] = <<>>
      OBVIOUS
    <3>6. FlattenSeq(Append(pages', page')) =
            FlattenSeq([i \in 1..put' |-> Pieces(i)']) \o [i \in 1..(1 - 1) |-> <<put' + 1, line_width * (i - 1)>>]
      <4>1. FirstLines(k) = [i \in 1..put' |-> Pieces(i)']
        BY <1>12, <3>1 DEF FirstLines
      <4>2. after = FlattenSeq([i \in 1..put' |-> Pieces(i)']) \o <<>>
        BY <3>2, <3>4, <4>1
      <4> QED
        BY <3>5, <4>2 DEF after
    <3>7. cut' = line_width * (1 - 1)
      BY <1>13, <3>1
    <3>8. PutUpTo(1)'
      BY <3>6, <3>7 DEF PutUpTo
    <3> QED
      BY <1>2, <1>5, <3>1, <3>8
  <2> QED
    BY <2>1, <2>2
<1> QED
  BY <1>1, <1>10, <1>14 DEF PagesInv, Piece, len

LEMMA PagesEnd ==
  ASSUME Typed, PagesInv, LastPage
  PROVE  PagesInv'
<1> DEFINE P == Piece
           all == FlattenSeq([k \in DOMAIN report |-> Pieces(k)])
           none == <<>>
           len == Len(report)
<1>1. pc = "pages" /\ pc' = "ended" /\ put = len /\ UNCHANGED <<report, page, put, cut>>
      /\ pages' = IF page = none THEN pages ELSE Append(pages, page)
  BY DEF LastPage
<1>2. report \in Seq(ReportLine) /\ len \in Nat /\ DOMAIN report = 1..len
  BY LenProperties DEF Typed
<1>3. /\ pages \in Seq(Seq(P)) /\ page \in Seq(P) /\ Len(page) < page_size
      /\ \A i \in DOMAIN pages : Len(pages[i]) = page_size
  BY <1>1 DEF PagesInv, Piece
<1>4. PutUpTo(1)
  BY <1>1 DEF PagesInv, PutUpTo
<1>5. FlattenSeq(Append(pages, page)) = all
  <2>1. FlattenSeq(Append(pages, page)) = all \o [n \in 1..(1 - 1) |-> <<put + 1, line_width * (n - 1)>>]
    BY <1>1, <1>2, <1>4 DEF PutUpTo
  <2>2. [n \in 1..(1 - 1) |-> <<put + 1, line_width * (n - 1)>>] = none
    OBVIOUS
  <2>3. all \in Seq(P)
    <3>1. all = FlattenSeq(FirstLines(len))
      BY <1>2 DEF FirstLines
    <3>2. CASE len = 0
      <4>1. FirstLines(0) = none
        BY DEF FirstLines
      <4> QED
        BY <3>1, <3>2, <4>1, FlattenNothing, EmptySeq
    <3>3. CASE len # 0
      <4> DEFINE n == len - 1
      <4>1. n \in Nat /\ n < Len(report) /\ len = n + 1
        BY <1>2, <3>3
      <4> HIDE DEF n, P, all
      <4>2. FlattenSeq(FirstLines(n)) \in Seq(Piece) /\ Pieces(n + 1) \in Seq(Piece)
            /\ FlattenSeq(FirstLines(n + 1)) = FlattenSeq(FirstLines(n)) \o Pieces(n + 1)
        BY <1>2, <4>1, LineOneMore
      <4> DEFINE a == FlattenSeq(FirstLines(n))
                 b == Pieces(n + 1)
      <4> HIDE DEF a, b
      <4>3. a \o b \in Seq(P)
        BY <4>2, ConcatProperties DEF a, b, P
      <4> QED
        BY <3>1, <4>1, <4>2, <4>3 DEF a, b
    <3> QED
      BY <3>2, <3>3
  <2> HIDE DEF all, P
  <2>4. all \o none = all
    BY <2>3, ConcatEmptySeq
  <2> QED
    BY <2>1, <2>2, <2>4
<1>6. FlattenSeq(Append(pages, page)) = FlattenSeq(pages) \o page /\ FlattenSeq(pages) \in Seq(P)
  <2> HIDE DEF P
  <2> QED
    BY <1>3, FlattenOneMore
<1>7. page_size \in Nat \ {0} /\ Len(page) \in Nat
  BY <1>3, LayoutAssumption, LenProperties
<1> HIDE DEF all, P, len
<1>8. FlattenSeq(pages') = all /\ pages' \in Seq(Seq(P))
      /\ (\A i \in DOMAIN pages' : Len(pages'[i]) \in 1..page_size)
      /\ \A i \in 1..(Len(pages') - 1) : Len(pages'[i]) = page_size
  <2> DEFINE N == Len(pages)
             X == Seq(P)
  <2>1. pages \in Seq(X) /\ page \in X
    BY <1>3
  <2> HIDE DEF X
  <2>2. N \in Nat /\ DOMAIN pages = 1..N
    BY <2>1, LenProperties
  <2>3. CASE page = none
    <3>1. FlattenSeq(pages) \o none = FlattenSeq(pages)
      BY <1>6, ConcatEmptySeq
    <3>2. FlattenSeq(pages) = all
      BY <1>5, <1>6, <2>3, <3>1
    <3>3. \A i \in 1..N : Len(pages[i]) = page_size
      BY <1>3, <2>2
    <3>4. page_size \in 1..page_size /\ \A i \in 1..(N - 1) : i \in 1..N
      BY <1>7, <2>2
    <3>5. pages' = pages
      BY <1>1, <2>3
    <3> QED
      BY <2>1, <2>2, <3>2, <3>3, <3>4, <3>5 DEF X
  <2>4. CASE page # none
    <3> DEFINE q == Append(pages, page)
    <3>1. pages' = q /\ FlattenSeq(q) = all
      BY <1>1, <1>5, <2>4
    <3>2. q \in Seq(X) /\ Len(q) = N + 1 /\ (\A i \in 1..N : q[i] = pages[i]) /\ q[N + 1] = page
      BY <2>1, AppendProperties
    <3> HIDE DEF q, N
    <3>3. DOMAIN q = 1..(N + 1) /\ Len(q) - 1 = N
      BY <2>2, <3>2, LenProperties
    <3>4. Len(page) \in 1..page_size
      <4>1. Len(page) # 0
        BY <1>3, <2>4, EmptySeq
      <4> QED
        BY <1>3, <1>7, <4>1
    <3>5. \A i \in 1..N : Len(q[i]) = page_size
      BY <1>3, <2>2, <3>2
    <3>6. page_size \in 1..page_size /\ \A i \in 1..(N + 1) : i \in 1..N \/ i = N + 1
      BY <1>7, <2>2
    <3>7. \A i \in 1..(N + 1) : Len(q[i]) \in 1..page_size
      BY <3>2, <3>4, <3>5, <3>6
    <3> QED
      BY <3>1, <3>2, <3>3, <3>5, <3>7 DEF X
  <2> QED
    BY <2>3, <2>4
<1>9. FlattenSeq([k \in DOMAIN report |-> Pieces(k)])' = all
  <2>1. \A k : Pieces(k)' = Pieces(k)
    BY <1>1, SamePieces
  <2>2. [k \in DOMAIN report |-> Pieces(k)]' = [k \in DOMAIN report |-> Pieces(k)]
    BY <1>1, <2>1
  <2> QED
    BY <2>2 DEF all
<1> QED
  BY <1>1, <1>3, <1>8, <1>9 DEF PagesInv, Piece, P

LEMMA PagesStep ==
  ASSUME Typed, SearchInv, PagesInv, [Next]_vars
  PROVE  PagesInv'
\* Nothing is put on pages before the report is there.
<1>1. ASSUME UNCHANGED <<pages, page, put, cut>>, pc \notin {"pages", "ended"}, pc' \notin {"pages", "ended"}
      PROVE  PagesInv'
  BY <1>1 DEF PagesInv
<1>2. CASE NextType
  <2>1. pc = "next" /\ UNCHANGED <<pages, page, put, cut>> /\ (pc' = pc \/ pc' = "pages")
    BY <1>2 DEF NextType
  <2>2. report' \in Seq(ReportLine)
    BY <1>2, NextTypeReports
  <2> QED
    BY <1>1, <2>1, <2>2, PagesBegin
<1>3. CASE NotInAssembly \/ FindSbids
  <2>1. pc = "next" /\ UNCHANGED <<pages, page, put, cut>> /\ (pc' = pc \/ pc' = "search")
    BY <1>3 DEF NotInAssembly, FindSbids, NextStall, written
  <2> QED
    BY <1>1, <2>1
<1>4. CASE OtherStall
  <2>1. pc = "next" /\ UNCHANGED <<pages, page, put, cut>> /\ (pc' = pc \/ pc' = "failed")
    BY <1>4 DEF OtherStall, NextStall
  <2> QED
    BY <1>1, <2>1
<1>5. CASE LookAtInstruction \/ LookAtComment \/ NextBlock
  <2>1. pc = "search" /\ UNCHANGED <<pages, page, put, cut>> /\ (pc' = pc \/ pc' = "found")
    BY <1>5 DEF LookAtInstruction, LookAtComment, NextBlock, Looking, Leave, written
  <2> QED
    BY <1>1, <2>1
<1>6. CASE ScanUpwards \/ GiveUp
  <2>1. (pc = "search" \/ pc = "found") /\ UNCHANGED <<pages, page, put, cut>> /\ pc' = "next"
    BY <1>6 DEF ScanUpwards, GiveUp
  <2> QED
    BY <1>1, <2>1
<1>7. CASE PutPiece
  BY <1>7, PiecePut
<1>8. CASE LastPage
  BY <1>8, PagesEnd
<1>9. CASE UNCHANGED vars
  <2>1. UNCHANGED <<pages, page, put, cut, pc, report>>
    BY <1>9 DEF vars, written
  <2>2. \A k : Pieces(k)' = Pieces(k)
    BY <2>1, SamePieces
  <2>3. \A m : PutUpTo(m)' <=> PutUpTo(m)
    <3>1. [k \in 1..put |-> Pieces(k)]' = [k \in 1..put |-> Pieces(k)]
      BY <2>1, <2>2
    <3> QED
      BY <2>1, <2>2, <3>1 DEF PutUpTo
  <2>4. [k \in DOMAIN report |-> Pieces(k)]' = [k \in DOMAIN report |-> Pieces(k)]
    BY <2>1, <2>2
  <2> QED
    BY <2>1, <2>3, <2>4 DEF PagesInv
<1> QED
  BY <1>2, <1>3, <1>4, <1>5, <1>6, <1>7, <1>8, <1>9 DEF Next

--------------------------------------------------------------------------------
(* The theorems.                                                           *)

\* Every step of AnalyzeStalls and WriteOutStallReport keeps the invariant: what the
\* search has found and passed, which sources it has named, which stalls are in the
\* report and how much of it is on the pages.
THEOREM StallInvariant == Spec => []StallInv
<1>1. Init => StallInv
  BY TypedInit, SearchInit, ReportInit, PagesInit DEF StallInv
<1>2. ASSUME StallInv, [Next]_vars PROVE StallInv'
  <2>1. Typed /\ SearchInv /\ ReportInv /\ PagesInv
    BY <1>2 DEF StallInv
  <2>2. Typed'
    BY <1>2, <2>1, TypedStep
  <2>3. SearchInv'
    BY <1>2, <2>1, SearchStep
  <2>4. ReportInv'
    BY <1>2, <2>1, ReportStep
  <2>5. PagesInv'
    BY <1>2, <2>1, PagesStep
  <2> QED
    BY <2>2, <2>3, <2>4, <2>5 DEF StallInv
<1> QED
  BY <1>1, <1>2, PTL DEF Spec

\* When the list is at its end, all that can be executed before the stall was looked
\* at.
LEMMA NothingLeft ==
  ASSUME Typed, SearchInv, Searched, ~Searching, sbids_stalled # <<>>
  PROVE  \A q \in Before(Position) : \A t \in ToSet(sbids_stalled) : ~SetsAt(q, t)
<1> DEFINE b == Position[1]
           n == Len(bbs_to_check)
           S == {c \in DOMAIN program.blocks : IsListed(c)}
<1>1. program \in Programs /\ Position \in Positions(program) /\ ToCheck /\ Checked
  BY PositionTyped DEF Typed, SearchInv
<1>2. b \in DOMAIN program.blocks /\ Position[2] \in Nat
  BY <1>1, PositionFacts
<1>3. bbs_to_check \in Seq((DOMAIN program.blocks) \X {1} \X Nat) /\ bbs_to_check # <<>>
      /\ bbs_to_check[1] = <<b, 1, Position[2] - 1>>
  BY <1>1 DEF ToCheck
<1>4. n \in Nat /\ 1 \in 1..n /\ \A m \in 2..n : m \in 1..n
  <2>1. n \in Nat /\ n # 0
    BY <1>3, EmptySeq, LenProperties
  <2> QED
    BY <2>1
<1>5. j = n
  BY <1>1 DEF Checked
<1>6. \A i \in 1..n : Passed(bbs_to_check[i], 0) /\ \A c \in ToSet(Preds(bbs_to_check[i][1])) : IsListed(c)
  BY <1>1, <1>5 DEF Checked
<1>7. ASSUME NEW d \in S \cup {b} PROVE ToSet(Preds(d)) \subseteq S
  <2>1. ToSet(Preds(d)) \subseteq DOMAIN program.blocks
    <3>1. Preds(d) \in Seq(DOMAIN program.blocks)
      BY <1>1, <1>2, ProgramFacts
    <3> QED
      BY <3>1, LenProperties, ElementOfSeq DEF ToSet
  <2>2. PICK m \in 1..n : bbs_to_check[m][1] = d
    <3>1. CASE d = b
      BY <1>3, <1>4, <3>1
    <3>2. CASE d # b
      <4>1. PICK m \in 2..n : bbs_to_check[m] = WholeBlock(d)
        BY <3>2 DEF IsListed
      <4> QED
        BY <1>4, <4>1 DEF WholeBlock
    <3> QED
      BY <3>1, <3>2
  <2> QED
    BY <1>6, <2>1, <2>2
<1>8. Ahead(b) \subseteq S
  <2>1. S \in SUBSET DOMAIN program.blocks
    OBVIOUS
  <2> HIDE DEF S, b
  <2> QED
    BY <1>7, <2>1 DEF Ahead
<1>9. ASSUME NEW q \in Before(Position), NEW t \in ToSet(sbids_stalled) PROVE ~SetsAt(q, t)
  <2>1. \A i \in 1..n : \A m \in 1..bbs_to_check[i][3] : ~SetsAt(<<bbs_to_check[i][1], m>>, t)
    BY <1>6 DEF Passed
  <2>2. CASE q \in {<<b, m>> : m \in 1..(Position[2] - 1)}
    BY <1>3, <1>4, <2>1, <2>2
  <2>3. CASE q \notin {<<b, m>> : m \in 1..(Position[2] - 1)}
    <3>0. PICK c \in Ahead(b) : \E m \in DOMAIN program.blocks[c] : q = <<c, m>>
      BY <2>3 DEF Before
    <3>1. PICK m \in DOMAIN program.blocks[c] : q = <<c, m>>
      BY <3>0
    <3>2. PICK i \in 2..n : bbs_to_check[i] = WholeBlock(c)
      BY <1>8, <3>1 DEF IsListed
    <3>3. i \in 1..n /\ bbs_to_check[i][1] = c /\ bbs_to_check[i][3] = Len(program.blocks[c])
      BY <1>4, <3>2 DEF WholeBlock
    <3>4. m \in 1..Len(program.blocks[c])
      BY <1>1, <1>8, <3>1, ProgramFacts
    <3> QED
      BY <2>1, <3>1, <3>3, <3>4
  <2> QED
    BY <2>2, <2>3
<1> QED
  BY <1>9

\* What AnalyzeStalls names for a stall can be executed before it and sets a token
\* that it waits for, and no token is left out that has one; so it is for every
\* kernel, its loops included, and not for the instances that were checked alone.
THEOREM StallsExplainedCorrect == Spec => []StallsExplained
<1>1. StallInv => StallsExplained
  <2> SUFFICES ASSUME StallInv, Searched
               PROVE  LET waits == Tokens(Item(Position)) IN
                      /\ \A k \in DOMAIN stall :
                           stall[k] \in Before(Position) /\ \E t \in ToSet(waits) : SetsAt(stall[k], t)
                      /\ ~Searching => \A t \in ToSet(waits) :
                           (t \in ToSet(sbids_stalled)) = ~(\E q \in Before(Position) : SetsAt(q, t))
                      /\ Len(stall) + Len(sbids_stalled) = Len(waits)
                      /\ ~Searching => \A k \in DOMAIN stall : Code(stall[k]) \in ToSet(report)
    BY DEF StallsExplained
  <2>1. Typed /\ SearchInv /\ Found /\ Named
    BY DEF StallInv, SearchInv
  <2>2. stall \in Seq(Before(Position)) /\ Len(stall) + Len(sbids_stalled) = Len(Waits)
    BY <2>1 DEF Found
  <2>3. ASSUME NEW k \in DOMAIN stall PROVE stall[k] \in Before(Position)
    BY <2>2, LenProperties, ElementOfSeq
  <2>4. \A k \in DOMAIN stall : \E t \in ToSet(Waits) : SetsAt(stall[k], t)
    BY <2>1 DEF Found
  <2>5. ASSUME ~Searching, NEW t \in ToSet(Waits)
        PROVE  (t \in ToSet(sbids_stalled)) = ~(\E q \in Before(Position) : SetsAt(q, t))
    <3>1. CASE t \in ToSet(sbids_stalled)
      <4>1. sbids_stalled # <<>>
        BY <3>1 DEF ToSet
      <4> QED
        BY <2>1, <2>5, <3>1, <4>1, NothingLeft
    <3>2. CASE t \notin ToSet(sbids_stalled)
      BY <2>1, <3>2 DEF Found
    <3> QED
      BY <3>1, <3>2
  <2>6. ~Searching => \A k \in DOMAIN stall : Code(stall[k]) \in ToSet(report)
    BY <2>1 DEF Named
  <2> QED
    BY <2>2, <2>3, <2>4, <2>5, <2>6 DEF Waits
<1> QED
  BY <1>1, StallInvariant, PTL

\* The source line that AnalyzeStalls gives to the stalled instruction, or to one
\* that it waits for, is the comment above it that is closest in the file, unless
\* the search left that block without one.
THEOREM SourceIsClosestCorrect == Spec => []SourceIsClosest
<1>1. StallInv => SourceIsClosest
  <2> SUFFICES ASSUME StallInv, Searched, NEW kind \in Kinds
               PROVE  /\ \A p \in DOMAIN source[kind] :
                           \/ source[kind][p] = Above(kind, Where(p))
                           \/ j > 0 /\ Above(kind, Where(p))[1] # Where(p)[1]
                      /\ ~Searching /\ j = 0 /\ sbids_stalled = <<>> /\ SourceAvailable =>
                           \A p \in unresolved[kind] : Above(kind, Where(p)) = Nowhere
    BY DEF SourceIsClosest, Where
  <2>1. Sourced
    BY DEF StallInv, SearchInv
  <2> QED
    BY <2>1 DEF Sourced, Closest
<1> QED
  BY <1>1, StallInvariant, PTL

\* The report of AnalyzeStalls and WriteOutStallReport has every stall that the
\* loops came to once and in order, and its pages every piece of its lines; the
\* script fails only if there is no source and no Sbid stall was reported before.
THEOREM ReportCompleteCorrect == Spec => []ReportComplete
<1>1. StallInv => ReportComplete
  <2> SUFFICES ASSUME StallInv PROVE ReportComplete
    OBVIOUS
  <2>1. ReportInv /\ PagesInv
    BY DEF StallInv
  <2>2. pc = "failed" => ~SourceAvailable /\ Located(1) = <<>> /\ Reported = <<>>
    BY <2>1 DEF ReportInv
  <2>3. pc \in {"next", "pages", "ended"} => Reported = [k \in DOMAIN All |-> <<"stalled", All[k]>>]
    BY <2>1 DEF ReportInv, StalledLines
  <2>4. pc = "ended" =>
          /\ FlattenSeq(pages) = FlattenSeq([k \in DOMAIN report |-> Pieces(k)])
          /\ \A k \in DOMAIN pages : Len(pages[k]) \in 1..page_size
          /\ \A k \in 1..(Len(pages) - 1) : Len(pages[k]) = page_size
    BY <2>1 DEF PagesInv
  <2> QED
    BY <2>2, <2>3, <2>4 DEF ReportComplete, All
<1> QED
  BY <1>1, StallInvariant, PTL
================================================================================
