---------------------------- MODULE PerfMetricsProofs --------------------------
(***************************************************************************)
(* Proofs about PerfMetrics.tla, for any files whose instances are of one  *)
(* kernel each, any options and any requests.                              *)
(***************************************************************************)
EXTENDS PerfMetrics, NatLemmas, SequenceTheorems, FiniteSetTheorems

Titles == Kernels \cup {""}
Page == [title : Titles, first : Nat, last : Nat]

\* The rows from first on, to the one before stop, are the beginning of an
\* instance or all of it.
RunUpTo(rows, first, stop) ==
  /\ first \in Nat /\ 1 <= first /\ first < stop
  /\ \A n \in first..(stop - 1) : ~IsNan(rows[n])
  /\ first > 1 => IsNan(rows[first - 1])

\* An instance, and blank rows after it.
Nameless(rows, first, stop) ==
  \E j \in (first - 1)..(stop - 1) :
    /\ j = first - 1 \/ IsRun(rows, first, j)
    /\ AllNan(rows, j + 1, stop - 1)

\* "all": with a name, the loop is in the instance that began at start; without
\* one it is after it.
InAll ==
  /\ options.kernel = "" /\ options.instance < 1
  /\ start \in Nat /\ 1 <= start /\ start <= index
  /\ kernel # "" => RunUpTo(frame, start, index) /\ kernel = frame[start].kernel
  /\ kernel = "" => (index > 1 => IsNan(frame[index - 1])) /\ Nameless(frame, start, index)

\* "find" and "one", for the instances of k: it is in the one that began at start,
\* and a row of k that may start one is the first of its instance.
LoopAt(rows, first, counts_, n, k) ==
  /\ first \in Nat /\ counts_ \in BOOLEAN
  /\ first # 0 => counts_ = FALSE /\ RunUpTo(rows, first, n) /\ rows[first].kernel = k
  /\ counts_ = TRUE /\ n > 1 => IsNan(rows[n - 1]) \/ rows[n - 1].kernel # k
InLoop(k) == LoopAt(frame, start, counting, index, k)

PagesInv ==
  /\ file \in Files /\ options \in OptionSet
  /\ pages \in Seq(Page) /\ PagesOfOneInstance
  /\ pc \in {"start", "list"} => pages = <<>>
  /\ pc \in {"all", "find", "one"} =>
       frame \in Seq(FrameRow) /\ RunsOfOneKernel(frame) /\ index \in 1..(Len(frame) + 1)
  /\ pc = "all" => InAll
  /\ pc = "find" /\ todo # <<>> => InLoop(Head(todo))
  /\ pc = "one" => InLoop(options.kernel) /\ (counting = FALSE => start # 0)

--------------------------------------------------------------------------------
\* A chart of what it should show may be added.
PageFits(rows, opts, page) ==
  \/ /\ IsRun(rows, page.first, page.last)
     /\ page.title = rows[page.first].kernel
  \/ /\ opts.kernel = "" /\ opts.instance < 1
     /\ page.title = ""
     /\ \E j \in (page.first - 1)..(page.last - 1) :
          /\ j = page.first - 1 \/ IsRun(rows, page.first, j)
          /\ AllNan(rows, j + 1, page.last)

PageOk(page) == PageFits(frame, options, page)

LEMMA PagesAreOk ==
  /\ PagesOfOneInstance <=> \A n \in DOMAIN pages : PageOk(pages[n])
  /\ PagesOfOneInstance' <=> \A n \in DOMAIN pages' : PageFits(frame', options', pages'[n])
BY DEF PagesOfOneInstance, PageOk, PageFits

LEMMA AddChart ==
  ASSUME PagesOfOneInstance, pages \in Seq(Page), options.sets \in Nat,
         UNCHANGED <<frame, options>>,
         NEW first, NEW stop, NEW title,
         pages' = pages \o Chart(first, stop, title),
         first < stop => LET page == [title |-> title, first |-> first, last |-> stop - 1]
                         IN page \in Page /\ PageOk(page)
  PROVE  pages' \in Seq(Page) /\ PagesOfOneInstance'
<1> DEFINE page == [title |-> title, first |-> first, last |-> stop - 1]
           more == Chart(first, stop, title)
<1>1. more \in Seq(Page) /\ \A n \in 1..Len(more) : first < stop /\ more[n] = page
  <2>1. CASE first < stop
    <3>1. page \in Page
      BY <2>1
    <3>2. more = [n \in 1..options.sets |-> page]
      BY <2>1 DEF Chart
    <3> HIDE DEF more, page
    <3>3. more \in Seq(Page) /\ Len(more) = options.sets
      BY <3>1, <3>2
    <3> QED
      BY <2>1, <3>2, <3>3
  <2>2. CASE ~(first < stop)
    <3>1. more = <<>>
      BY <2>2 DEF Chart
    <3> HIDE DEF more
    <3> QED
      BY <3>1, EmptySeq
  <2> QED
    BY <2>1, <2>2
<1>2. /\ pages' \in Seq(Page) /\ Len(pages') = Len(pages) + Len(more)
      /\ \A n \in 1..(Len(pages) + Len(more)) :
           pages'[n] = IF n <= Len(pages) THEN pages[n] ELSE more[n - Len(pages)]
  BY <1>1, ConcatProperties
<1>3. Len(pages) \in Nat /\ Len(more) \in Nat /\ DOMAIN pages = 1..Len(pages) /\ DOMAIN pages' = 1..Len(pages')
  BY <1>1, <1>2, LenProperties
<1>4. first < stop => PageOk(page)
  OBVIOUS
<1> HIDE DEF more, page
<1>5. ASSUME NEW n \in DOMAIN pages' PROVE PageOk(pages'[n])
  <2>1. CASE n <= Len(pages)
    <3>1. n \in DOMAIN pages /\ pages'[n] = pages[n]
      BY <1>2, <1>3, <2>1
    <3> QED
      BY <3>1, PagesAreOk
  <2>2. CASE ~(n <= Len(pages))
    <3>1. n - Len(pages) \in 1..Len(more) /\ pages'[n] = more[n - Len(pages)]
      BY <1>2, <1>3, <2>2
    <3> QED
      BY <1>1, <1>4, <3>1
  <2> QED
    BY <2>1, <2>2
<1>6. \A n \in DOMAIN pages' : PageFits(frame', options', pages'[n])
  BY <1>5 DEF PageOk
<1> QED
  BY <1>2, <1>6, PagesAreOk

\* The instance that a blank row or the end of the frame ends.
LEMMA RunEnds ==
  ASSUME frame \in Seq(FrameRow), NEW first, NEW stop \in 1..(Len(frame) + 1),
         RunUpTo(frame, first, stop), stop <= Len(frame) => IsNan(frame[stop])
  PROVE  /\ IsRun(frame, first, stop - 1)
         /\ first \in Nat /\ stop - 1 \in Nat /\ frame[first].kernel \in Kernels
<1>1. Len(frame) \in Nat /\ \A n \in 1..Len(frame) : frame[n] \in FrameRow
  BY LenProperties, ElementOfSeq
<1>2. first \in 1..Len(frame) /\ ~IsNan(frame[first]) /\ stop \in Nat
  BY <1>1 DEF RunUpTo
<1>3. frame[first].kernel \in Kernels
  BY <1>1, <1>2 DEF FrameRow, SampleRow, IsNan, BlankRow
<1>4. IsRun(frame, first, stop - 1)
  BY <1>1, <1>2 DEF IsRun, RunUpTo
<1> QED
  BY <1>2, <1>3, <1>4

\* A chart of an instance.
LEMMA ChartOfRun ==
  ASSUME frame \in Seq(FrameRow), NEW first, NEW stop \in 1..(Len(frame) + 1),
         RunUpTo(frame, first, stop), stop <= Len(frame) => IsNan(frame[stop]),
         NEW title, title = frame[first].kernel
  PROVE  LET page == [title |-> title, first |-> first, last |-> stop - 1]
         IN page \in Page /\ PageOk(page)
<1>1. /\ IsRun(frame, first, stop - 1)
      /\ first \in Nat /\ stop - 1 \in Nat /\ title \in Kernels
  BY RunEnds
<1> QED
  BY <1>1 DEF PageOk, PageFits, Page, Titles

\* What the rows of a frame are.
LEMMA Rows ==
  ASSUME frame \in Seq(FrameRow), NEW n \in 1..Len(frame)
  PROVE  /\ IsNan(frame[n]) \/ frame[n].kernel \in Kernels
         /\ ~IsNan(frame[n]) => frame[n].kernel # ""
<1>1. frame[n] \in FrameRow
  BY ElementOfSeq
<1>2. IsNan(frame[n]) \/ frame[n].kernel \in Kernels
  BY <1>1 DEF FrameRow, SampleRow, IsNan, BlankRow
<1> QED
  BY <1>2, KernelAssumption

\* A row of the instance that began at first, and the row that begins one.
LEMMA RunGrows ==
  ASSUME frame \in Seq(FrameRow), NEW n \in 1..Len(frame), ~IsNan(frame[n]),
         NEW first, RunUpTo(frame, first, n)
  PROVE  RunUpTo(frame, first, n + 1)
BY LenProperties DEF RunUpTo

LEMMA RunBegins ==
  ASSUME frame \in Seq(FrameRow), NEW n \in 1..Len(frame), ~IsNan(frame[n]),
         n > 1 => IsNan(frame[n - 1])
  PROVE  RunUpTo(frame, n, n + 1)
BY LenProperties DEF RunUpTo

LEMMA InvFacts ==
  ASSUME PagesInv
  PROVE  /\ options.sets \in Nat /\ options.instance \in Int
         /\ pc \in {"all", "find", "one"} => Len(frame) \in Nat /\ index \in Nat /\ 1 <= index
<1>1. options \in OptionSet
  BY DEF PagesInv
<1>2. pc \in {"all", "find", "one"} => frame \in Seq(FrameRow) /\ index \in 1..(Len(frame) + 1)
  BY DEF PagesInv
<1> QED
  BY <1>1, <1>2, OptionAssumption, LenProperties

--------------------------------------------------------------------------------
(* All instances of all kernels.                                           *)

LEMMA AllRowPages == ASSUME PagesInv, AllRow PROVE PagesInv'
<1> pc = "all" /\ index <= Len(frame)
  BY DEF AllRow
<1>1. /\ frame \in Seq(FrameRow) /\ RunsOfOneKernel(frame)
      /\ index \in 1..Len(frame) /\ Len(frame) \in Nat
      /\ InAll /\ options.sets \in Nat /\ options.instance \in Int
      /\ pages \in Seq(Page) /\ PagesOfOneInstance
  BY InvFacts DEF PagesInv
<1>n. index \in Nat /\ 1 <= index /\ index <= Len(frame) /\ Len(frame) \in Nat
  BY <1>1
<1>2. index' = index + 1 /\ UNCHANGED <<file, options, pc, frame>>
  BY DEF AllRow, shared
<1>3. index' \in 1..(Len(frame) + 1) /\ index' - 1 = index /\ index' > 1
  BY <1>1, <1>2
<1>o. options'.kernel = "" /\ options'.instance < 1
  BY <1>1, <1>2 DEF InAll
<1>s. start \in Nat /\ 1 <= start /\ start <= index
  BY <1>1 DEF InAll
<1>i. index' = index + 1
  BY <1>2
\* After a blank row.
<1>b. ASSUME IsNan(frame[index]), kernel' = "", start' = start, Nameless(frame, start, index + 1)
      PROVE  InAll'
  <2> start' = start
    BY <1>b
  <2>1. start' \in Nat /\ 1 <= start' /\ start' <= index'
    BY <1>n, <1>s, <1>i
  <2>2. IsNan(frame'[index' - 1]) /\ Nameless(frame', start', index')
    BY <1>2, <1>3, <1>b
  <2> QED
    BY <1>o, <1>b, <2>1, <2>2 DEF InAll
<1>4. CASE IsNan(frame[index])
  <2>1. pages' = pages \o Chart(start, index, kernel) /\ kernel' = "" /\ start' = start
    BY <1>4 DEF AllRow
  <2>2. CASE kernel # ""
    <3>1. RunUpTo(frame, start, index) /\ kernel = frame[start].kernel
      BY <1>1, <2>2 DEF InAll
    <3>a. LET page == [title |-> kernel, first |-> start, last |-> index - 1]
          IN page \in Page /\ PageOk(page)
      BY <1>1, <1>4, <3>1, ChartOfRun
    <3>2. pages' \in Seq(Page) /\ PagesOfOneInstance'
      BY <1>1, <1>2, <2>1, <3>a, AddChart
    <3>3. IsRun(frame, start, index - 1)
      BY <1>1, <1>4, <3>1, RunEnds
    <3>4. Nameless(frame, start, index + 1)
      <4>1. index - 1 \in (start - 1)..index /\ AllNan(frame, index, index)
        BY <1>1, <1>4, <3>1 DEF RunUpTo, AllNan
      <4> QED
        BY <1>1, <3>3, <4>1 DEF Nameless
    <3>5. InAll'
      BY <1>b, <1>4, <2>1, <3>4
    <3> QED
      BY <1>1, <1>2, <1>3, <3>2, <3>5 DEF PagesInv
  <2>3. CASE kernel = ""
    <3>1. /\ start \in Nat /\ 1 <= start /\ start <= index /\ (index > 1 => IsNan(frame[index - 1]))
          /\ options.kernel = "" /\ options.instance < 1
      BY <1>1, <2>3 DEF InAll
    <3>2. PICK j \in (start - 1)..(index - 1) :
            (j = start - 1 \/ IsRun(frame, start, j)) /\ AllNan(frame, j + 1, index - 1)
      BY <1>1, <2>3 DEF InAll, Nameless
    <3>3. start < index => j # index - 1
      <4> SUFFICES ASSUME start < index, j = index - 1 PROVE FALSE
        OBVIOUS
      <4>1. index > 1 /\ index - 1 # start - 1 /\ index - 1 \in start..(index - 1)
        BY <1>n, <1>s
      <4>2. IsRun(frame, start, index - 1) /\ IsNan(frame[index - 1])
        BY <3>1, <3>2, <4>1
      <4> QED
        BY <4>1, <4>2 DEF IsRun
    <3>4. ASSUME start < index
          PROVE  LET page == [title |-> kernel, first |-> start, last |-> index - 1]
                 IN page \in Page /\ PageOk(page)
      <4>1. j \in (start - 1)..(index - 1 - 1)
        <5>1. j \in Int /\ start - 1 <= j /\ j <= index - 1 /\ j # index - 1
          BY <1>n, <1>s, <3>3, <3>4
        <5> QED
          BY <1>n, <1>s, <5>1
      <4>2. start \in Nat /\ index - 1 \in Nat
        BY <1>n, <1>s
      <4> DEFINE page == [title |-> kernel, first |-> start, last |-> index - 1]
      <4>3. page \in Page
        BY <2>3, <4>2 DEF Page, Titles
      <4>4. page.title = "" /\ page.first = start /\ page.last = index - 1
        BY <2>3
      <4> HIDE DEF page
      <4>5. PageOk(page)
        BY <3>1, <3>2, <4>1, <4>4 DEF PageOk, PageFits
      <4> QED
        BY <4>3, <4>5 DEF page
    <3>5. pages' \in Seq(Page) /\ PagesOfOneInstance'
      BY <1>1, <1>2, <2>1, <3>4, AddChart
    <3>6. Nameless(frame, start, index + 1)
      <4>1. j \in (start - 1)..index /\ AllNan(frame, j + 1, index)
        <5>1. j \in Int /\ start - 1 <= j /\ j <= index - 1
          BY <1>n, <1>s
        <5>2. \A n \in (j + 1)..index : n \in (j + 1)..(index - 1) \/ n = index
          BY <1>n, <5>1
        <5> QED
          BY <1>n, <1>4, <1>s, <3>2, <5>1, <5>2 DEF AllNan
      <4> QED
        BY <1>1, <3>2, <4>1 DEF Nameless
    <3>7. InAll'
      BY <1>b, <1>4, <2>1, <3>6
    <3> QED
      BY <1>1, <1>2, <1>3, <3>5, <3>7 DEF PagesInv
  <2> QED
    BY <2>2, <2>3
<1>5. CASE ~IsNan(frame[index])
  <2>1. /\ kernel' = IF kernel = "" THEN frame[index].kernel ELSE kernel
        /\ start' = IF kernel = "" THEN index ELSE start
        /\ pages' = pages
    BY <1>5 DEF AllRow
  <2>2. kernel' # "" /\ RunUpTo(frame, start', index + 1) /\ kernel' = frame[start'].kernel
    <3>1. frame[index].kernel # ""
      BY <1>1, <1>5, Rows
    <3>2. CASE kernel = ""
      BY <1>1, <1>5, <2>1, <3>1, <3>2, RunBegins DEF InAll
    <3>3. CASE kernel # ""
      BY <1>1, <1>5, <2>1, <3>3, RunGrows DEF InAll
    <3> QED
      BY <3>2, <3>3
  <2>3. InAll'
    <3>1. start' \in Nat /\ 1 <= start' /\ start' <= index'
      <4>1. start' = index \/ start' = start
        BY <2>1
      <4> QED
        BY <1>n, <1>s, <1>i, <4>1
    <3>2. RunUpTo(frame', start', index') /\ kernel' = frame'[start'].kernel
      BY <1>2, <2>2
    <3> QED
      BY <1>o, <2>2, <3>1, <3>2 DEF InAll
  <2>4. PagesOfOneInstance'
    BY <1>1, <1>2, <2>1 DEF PagesOfOneInstance
  <2> QED
    BY <1>1, <1>2, <1>3, <2>1, <2>3, <2>4 DEF PagesInv
<1> QED
  BY <1>4, <1>5

--------------------------------------------------------------------------------
(* Instances of a kernel.                                                  *)

\* A blank row outside of an instance of interest, or after it.
LEMMA LoopBlank ==
  ASSUME NEW rows, NEW n \in Nat, 1 <= n, IsNan(rows[n]), NEW k
  PROVE  LoopAt(rows, 0, TRUE, n + 1, k)
BY DEF LoopAt

\* A sample: the first of an instance of k, or not.
LEMMA LoopRow ==
  ASSUME frame \in Seq(FrameRow), RunsOfOneKernel(frame),
         NEW n \in 1..Len(frame), ~IsNan(frame[n]), NEW k,
         NEW first, NEW c, LoopAt(frame, first, c, n, k),
         NEW first2, NEW c2 \in BOOLEAN,
         c = TRUE /\ frame[n].kernel = k => c2 = FALSE /\ first2 \in {first, n},
         ~(c = TRUE /\ frame[n].kernel = k) => c2 = c /\ first2 = first
  PROVE  LoopAt(frame, first2, c2, n + 1, k)
<1>1. Len(frame) \in Nat /\ n \in Nat /\ 1 <= n /\ n <= Len(frame)
  BY LenProperties
<1>2. first \in Nat /\ c \in BOOLEAN
  BY DEF LoopAt
<1>3. first2 \in Nat
  BY <1>1, <1>2
<1>4. c2 = TRUE => frame[n].kernel # k
  BY <1>2
<1>5. CASE c = TRUE /\ frame[n].kernel = k
  <2>1. first = 0 /\ c2 = FALSE
    BY <1>5 DEF LoopAt
  <2>2. n > 1 => IsNan(frame[n - 1])
    <3> SUFFICES ASSUME n > 1, ~IsNan(frame[n - 1]) PROVE FALSE
      OBVIOUS
    <3>1. frame[n - 1].kernel # k
      BY <1>5 DEF LoopAt
    <3>2. n - 1 \in 1..(Len(frame) - 1) /\ n - 1 + 1 = n
      BY <1>1
    <3>3. frame[n - 1].kernel = frame[n - 1 + 1].kernel
      BY <3>2 DEF RunsOfOneKernel
    <3> QED
      BY <1>5, <3>1, <3>2, <3>3
  <2>3. RunUpTo(frame, n, n + 1)
    BY <2>2, RunBegins
  <2> QED
    BY <1>3, <1>5, <2>1, <2>3 DEF LoopAt
<1>6. CASE ~(c = TRUE /\ frame[n].kernel = k)
  <2>1. c2 = c /\ first2 = first
    BY <1>6
  <2>2. first # 0 => RunUpTo(frame, first, n + 1)
    BY RunGrows DEF LoopAt
  <2>3. n + 1 - 1 = n
    BY <1>1
  <2> QED
    BY <1>2, <1>4, <2>1, <2>2, <2>3 DEF LoopAt
<1> QED
  BY <1>5, <1>6

\* The instance of interest ends at a blank row or with the frame.
LEMMA LoopChart ==
  ASSUME PagesInv, frame \in Seq(FrameRow),
         NEW n \in 1..(Len(frame) + 1), n <= Len(frame) => IsNan(frame[n]),
         NEW first, NEW c, NEW k, LoopAt(frame, first, c, n, k), first # 0,
         UNCHANGED <<frame, options>>, pages' = pages \o Chart(first, n, k)
  PROVE  pages' \in Seq(Page) /\ PagesOfOneInstance'
<1>1. RunUpTo(frame, first, n) /\ k = frame[first].kernel
  BY DEF LoopAt
<1>2. LET page == [title |-> k, first |-> first, last |-> n - 1]
      IN page \in Page /\ PageOk(page)
  BY <1>1, ChartOfRun
<1>3. pages \in Seq(Page) /\ PagesOfOneInstance /\ options.sets \in Nat
  BY InvFacts DEF PagesInv
<1> QED
  BY <1>2, <1>3, AddChart

\* Before the first row.
LEMMA LoopBegin == ASSUME NEW rows, NEW k PROVE LoopAt(rows, 0, TRUE, 1, k)
BY DEF LoopAt

LEMMA FrameFacts ==
  ASSUME PagesInv, pc \in {"all", "find", "one"}
  PROVE  /\ frame \in Seq(FrameRow) /\ RunsOfOneKernel(frame) /\ Len(frame) \in Nat
         /\ index \in 1..(Len(frame) + 1) /\ index \in Nat /\ 1 <= index
         /\ index <= Len(frame) => index \in 1..Len(frame) /\ index + 1 \in 1..(Len(frame) + 1)
         /\ 1 \in 1..(Len(frame) + 1)
<1>1. /\ frame \in Seq(FrameRow) /\ RunsOfOneKernel(frame)
      /\ index \in 1..(Len(frame) + 1)
  BY DEF PagesInv
<1>2. Len(frame) \in Nat
  BY <1>1, LenProperties
<1> QED
  BY <1>1, <1>2

\* In a loop, what is to be shown of each kind of step.
LEMMA FindStep ==
  ASSUME PagesInv, pc = "find", UNCHANGED <<file, options, pc, frame>>,
         pages' \in Seq(Page) /\ PagesOfOneInstance',
         index' \in 1..(Len(frame) + 1),
         todo' # <<>> => LoopAt(frame, start', counting', index', Head(todo'))
  PROVE  PagesInv'
<1>1. frame \in Seq(FrameRow) /\ RunsOfOneKernel(frame) /\ file \in Files /\ options \in OptionSet
  BY DEF PagesInv
<1> QED
  BY <1>1 DEF PagesInv, InLoop

LEMMA OneStep ==
  ASSUME PagesInv, pc = "one", UNCHANGED <<file, options, pc, frame>>,
         pages' \in Seq(Page) /\ PagesOfOneInstance',
         index' \in 1..(Len(frame) + 1),
         LoopAt(frame, start', counting', index', options.kernel), counting' = FALSE => start' # 0
  PROVE  PagesInv'
<1>1. frame \in Seq(FrameRow) /\ RunsOfOneKernel(frame) /\ file \in Files /\ options \in OptionSet
  BY DEF PagesInv
<1> QED
  BY <1>1 DEF PagesInv, InLoop

LEMMA SamePages ==
  ASSUME PagesInv, UNCHANGED <<frame, options, pages>>
  PROVE  pages' \in Seq(Page) /\ PagesOfOneInstance'
<1>1. pages \in Seq(Page) /\ PagesOfOneInstance
  BY DEF PagesInv
<1> QED
  BY <1>1, PagesAreOk DEF PageOk

LEMMA FindPages == ASSUME PagesInv, FindRow \/ FindEnd PROVE PagesInv'
<1> pc = "find" /\ todo # <<>>
  BY DEF FindRow, FindEnd
<1>1. UNCHANGED <<file, options, pc, frame>>
  BY DEF FindRow, FindEnd, shared
<1>2. LoopAt(frame, start, counting, index, Head(todo)) /\ counting \in BOOLEAN
  BY DEF PagesInv, InLoop, LoopAt
<1>3. ASSUME FindNext PROVE index' = 1 /\ start' = 0 /\ counting' = TRUE
  BY <1>3 DEF FindNext, Rewound
<1>4. ASSUME FindNext, pages' \in Seq(Page) /\ PagesOfOneInstance' PROVE PagesInv'
  BY <1>1, <1>3, <1>4, FrameFacts, LoopBegin, FindStep
<1>5. CASE FindRow /\ IsNan(frame[index]) /\ start # 0
  <2>1. pages' = pages \o Chart(start, index, Head(todo)) /\ FindNext
    BY <1>5 DEF FindRow
  <2>2. pages' \in Seq(Page) /\ PagesOfOneInstance'
    BY <1>1, <1>2, <1>5, <2>1, FrameFacts, LoopChart
  <2> QED
    BY <1>4, <2>1, <2>2
<1>6. CASE FindRow /\ IsNan(frame[index]) /\ start = 0
  <2>1. /\ counting' = TRUE /\ index' = index + 1 /\ index <= Len(frame)
        /\ todo' = todo /\ start' = 0 /\ pages' = pages
    BY <1>6 DEF FindRow
  <2>2. LoopAt(frame, start', counting', index', Head(todo'))
    BY <1>6, <2>1, FrameFacts, LoopBlank
  <2> QED
    BY <1>1, <2>1, <2>2, FrameFacts, SamePages, FindStep
<1>7. CASE FindRow /\ ~IsNan(frame[index])
  <2> DEFINE new == counting /\ frame[index].kernel = Head(todo)
  <2>1. /\ index' = index + 1 /\ index <= Len(frame)
        /\ counting' = (counting /\ ~new)
        /\ start' = IF new /\ instance' = options.instance THEN index ELSE start
        /\ todo' = todo /\ pages' = pages
    BY <1>7 DEF FindRow
  <2>2. /\ counting' \in BOOLEAN
        /\ counting = TRUE /\ frame[index].kernel = Head(todo) => counting' = FALSE /\ start' \in {start, index}
        /\ ~(counting = TRUE /\ frame[index].kernel = Head(todo)) => counting' = counting /\ start' = start
    BY <1>2, <2>1
  <2>3. LoopAt(frame, start', counting', index', Head(todo'))
    BY <1>2, <1>7, <2>1, <2>2, FrameFacts, LoopRow
  <2> QED
    BY <1>1, <2>1, <2>3, FrameFacts, SamePages, FindStep
<1>8. CASE FindEnd
  <2>1. /\ pages' = IF start = 0 THEN pages ELSE pages \o Chart(start, Len(frame) + 1, Head(todo))
        /\ FindNext /\ index > Len(frame)
    BY <1>8 DEF FindEnd
  <2>2. index = Len(frame) + 1 /\ ~(index <= Len(frame))
    BY <2>1, FrameFacts
  <2>3. pages' \in Seq(Page) /\ PagesOfOneInstance'
    <3>1. CASE start = 0
      BY <1>1, <2>1, <3>1, SamePages
    <3>2. CASE start # 0
      BY <1>1, <1>2, <2>1, <2>2, <3>2, FrameFacts, LoopChart
    <3> QED
      BY <3>1, <3>2
  <2> QED
    BY <1>4, <2>1, <2>3
<1> QED
  BY <1>5, <1>6, <1>7, <1>8

LEMMA OnePages == ASSUME PagesInv, OneRow PROVE PagesInv'
<1> pc = "one" /\ index <= Len(frame)
  BY DEF OneRow
<1>1. UNCHANGED <<file, options, pc, frame>> /\ index' = index + 1
  BY DEF OneRow, shared
<1> DEFINE k == options.kernel
<1>2. LoopAt(frame, start, counting, index, k) /\ counting \in BOOLEAN /\ (counting = FALSE => start # 0)
  BY DEF PagesInv, InLoop, LoopAt
<1>n. 1 <= index /\ index \in Nat /\ index \in 1..Len(frame) /\ index # 0
  BY FrameFacts
<1>3. CASE IsNan(frame[index]) /\ ~counting
  <2>1. /\ pages' = pages \o Chart(start, index, k)
        /\ counting' = TRUE /\ start' = 0
    BY <1>3 DEF OneRow
  <2>2. start # 0
    BY <1>2, <1>3
  <2>3. pages' \in Seq(Page) /\ PagesOfOneInstance'
    BY <1>1, <1>2, <1>3, <2>1, <2>2, FrameFacts, LoopChart
  <2>4. LoopAt(frame, start', counting', index', k)
    BY <1>1, <1>3, <1>n, <2>1, LoopBlank
  <2> QED
    BY <1>1, <2>1, <2>3, <2>4, FrameFacts, OneStep
<1>4. CASE IsNan(frame[index]) /\ counting
  <2>1. UNCHANGED <<start, counting, pages>> /\ counting = TRUE
    BY <1>2, <1>4 DEF OneRow
  <2>2. start = 0
    BY <1>2, <2>1 DEF LoopAt
  <2>3. LoopAt(frame, start', counting', index', k)
    BY <1>1, <1>4, <1>n, <2>1, <2>2, LoopBlank
  <2> QED
    BY <1>1, <2>1, <2>3, FrameFacts, SamePages, OneStep
<1>5. CASE ~IsNan(frame[index])
  <2> DEFINE new == counting /\ frame[index].kernel = k
  <2>1. /\ start' = (IF new THEN index ELSE start) /\ counting' = (counting /\ ~new)
        /\ pages' = pages
    BY <1>5 DEF OneRow
  <2>2. /\ counting' \in BOOLEAN
        /\ counting = TRUE /\ frame[index].kernel = k => counting' = FALSE /\ start' = index
        /\ ~(counting = TRUE /\ frame[index].kernel = k) => counting' = counting /\ start' = start
    BY <1>2, <2>1
  <2>3. LoopAt(frame, start', counting', index', k)
    BY <1>1, <1>2, <1>5, <1>n, <2>2, FrameFacts, LoopRow
  <2>4. counting' = FALSE => start' # 0
    BY <1>2, <1>n, <2>2
  <2> QED
    BY <1>1, <2>1, <2>3, <2>4, FrameFacts, SamePages, OneStep
<1> QED
  BY <1>3, <1>4, <1>5

--------------------------------------------------------------------------------
(* The other steps leave the charts as they are.                           *)

LEMMA NoPages ==
  ASSUME pages' = <<>> PROVE pages' \in Seq(Page) /\ PagesOfOneInstance'
BY EmptySeq DEF PagesOfOneInstance

LEMMA PagesInit == Init => PagesInv
<1> SUFFICES ASSUME Init PROVE PagesInv
  OBVIOUS
<1>1. file \in Files /\ options \in OptionSet /\ pc = "start" /\ pages = <<>>
  BY DEF Init, ChartsInit
<1>2. pages \in Seq(Page) /\ PagesOfOneInstance
  BY <1>1, EmptySeq DEF PagesOfOneInstance
<1> QED
  BY <1>1, <1>2 DEF PagesInv

\* After the loops, and in the ones about stall events.
LEMMA Elsewhere ==
  ASSUME PagesInv, UNCHANGED <<file, options, frame, pages>>,
         pc' \notin {"start", "list", "all", "find", "one"}
  PROVE  PagesInv'
<1>1. pages' \in Seq(Page) /\ PagesOfOneInstance'
  BY SamePages
<1> QED
  BY <1>1 DEF PagesInv

\* Before the first chart.
LEMMA Listing ==
  ASSUME PagesInv, pc \in {"start", "list"}, pc' \in {"start", "list"},
         UNCHANGED <<file, options, pages>>
  PROVE  PagesInv'
<1>1. pages' = <<>>
  BY DEF PagesInv
<1>2. pages' \in Seq(Page) /\ PagesOfOneInstance'
  BY <1>1, NoPages
<1> QED
  BY <1>1, <1>2 DEF PagesInv

LEMMA ListPages == ASSUME PagesInv, ListFile \/ ListRow \/ ListEnd PROVE PagesInv'
<1>1. /\ pc \in {"start", "list"} /\ pc' \in {"start", "list"}
      /\ UNCHANGED <<file, options, pages>>
  BY DEF ListFile, ListRow, ListEnd, List, shared
<1> QED
  BY <1>1, Listing

\* A loop begins: the rows are those of the device, and there is no chart yet.
LEMMA PlotPages == ASSUME PagesInv, Plot PROVE PagesInv'
<1>1. /\ pages' = <<>> /\ file' = file /\ options' = options
      /\ file \in Files /\ options \in OptionSet
  BY DEF PagesInv, Plot, AnalyzePerfMetrics, AnalyzeStallMetrics
<1>2. pages' \in Seq(Page) /\ PagesOfOneInstance'
  BY <1>1, NoPages
<1>3. CASE HasEvents(options.device)
  <2>1. pc' \in {"ended", "stalls", "stall"}
    BY <1>3 DEF Plot, AnalyzeStallMetrics
  <2> QED
    BY <1>1, <1>2, <2>1 DEF PagesInv
<1>4. CASE ~HasEvents(options.device)
  <2>1. AnalyzePerfMetrics
    BY <1>4 DEF Plot
  <2>2. frame' \in Seq(FrameRow) /\ RunsOfOneKernel(frame')
    <3>1. options.device \in Devices(file) /\ ~file[HeaderOf(file, options.device)].stall
      BY <1>4 DEF Plot, Refused, HasEvents
    <3>2. frame' = FrameOf(file, options.device)
      BY <2>1 DEF AnalyzePerfMetrics
    <3> QED
      BY <1>1, <3>1, <3>2, FileAssumption
  <2>3. index' \in 1..(Len(frame') + 1)
    <3>1. index' = 1
      BY <2>1 DEF AnalyzePerfMetrics, Rewound
    <3>2. Len(frame') \in Nat
      BY <2>2, LenProperties
    <3> QED
      BY <3>1, <3>2
  <2>4. /\ index' = 1 /\ kernel' = "" /\ counting' = TRUE
        /\ pc' \in {"ended", "find", "all", "one"}
        /\ pc' = "all" => options.kernel = "" /\ ~(options.instance >= 1) /\ start' = 1
        /\ pc' \in {"find", "one"} => start' = 0
    <3>1. ASSUME pc' = "find" PROVE options.instance >= 1
      BY <2>1, <3>1 DEF AnalyzePerfMetrics
    <3>2. ASSUME pc' = "one" PROVE options.kernel # ""
      BY <2>1, <3>2 DEF AnalyzePerfMetrics
    <3>3. options.instance >= 1 => ~(options.instance < 1)
      <4>1. options.instance \in Int
        BY <1>1, OptionAssumption
      <4> QED
        BY <4>1
    <3>4. pc' = "all" => options.kernel = "" /\ ~(options.instance >= 1)
      BY <2>1 DEF AnalyzePerfMetrics
    <3>5. ~(options.instance >= 1) => options.instance < 1
      <4>1. options.instance \in Int
        BY <1>1, OptionAssumption
      <4> QED
        BY <4>1
    <3>6. start' = IF options.kernel = "" /\ options.instance < 1 THEN 1 ELSE 0
      BY <2>1 DEF AnalyzePerfMetrics, Rewound
    <3>7. index' = 1 /\ kernel' = "" /\ counting' = TRUE /\ pc' \in {"ended", "find", "all", "one"}
      BY <2>1 DEF AnalyzePerfMetrics, Rewound
    <3> QED
      BY <3>1, <3>2, <3>3, <3>4, <3>5, <3>6, <3>7
  <2>5. pc' = "all" => InAll'
    <3> SUFFICES ASSUME pc' = "all" PROVE InAll'
      OBVIOUS
    <3>1. options'.kernel = "" /\ options'.instance < 1
      <4>1. options.instance \in Int
        BY <1>1, OptionAssumption
      <4>2. ~(options.instance >= 1)
        BY <2>4
      <4>3. options.instance < 1
        BY <4>1, <4>2
      <4> QED
        BY <1>1, <2>4, <4>3
    <3>i. start' = 1 /\ index' = 1
      BY <2>4
    <3>2. start' = 1 /\ index' = 1 /\ kernel' = ""
      BY <2>4
    <3>3. Nameless(frame', 1, 1)
      <4>1. 0 \in (1 - 1)..(1 - 1) /\ AllNan(frame', 0 + 1, 1 - 1) /\ 0 = 1 - 1
        BY DEF AllNan
      <4> QED
        BY <4>1 DEF Nameless
    <3>4. start' \in Nat /\ 1 <= start' /\ start' <= index' /\ ~(index' > 1)
      BY <3>i
    <3>5. Nameless(frame', start', index')
      BY <3>2, <3>3
    <3> QED
      BY <3>1, <3>2, <3>4, <3>5 DEF InAll
  <2>6. pc' \in {"find", "one"} => \A k : LoopAt(frame', start', counting', index', k)
    BY <2>4, LoopBegin
  <2> QED
    BY <1>1, <1>2, <2>2, <2>3, <2>4, <2>5, <2>6 DEF PagesInv, InLoop
<1> QED
  BY <1>3, <1>4

LEMMA OtherPages ==
  ASSUME PagesInv,
         \/ Refuse \/ Serve \/ OneUnterminated \/ Close
         \/ StallsRow \/ StallsEnd \/ StallRow \/ StallEnd
         \/ /\ UNCHANGED charts
            /\ ScanRow \/ StartServer \/ TrySection \/ Interrupt \/ \E r \in Requests : DoGet(r)
  PROVE  PagesInv'
<1>1. CASE Refuse \/ Serve \/ OneUnterminated \/ Close
  <2>1. UNCHANGED <<file, options, frame, pages>> /\ pc' \in {"ended", "failed", "scan"}
    BY <1>1 DEF Refuse, Serve, PerfMetricsHTTPServer, OneUnterminated, Close, charts
  <2> QED
    BY <2>1, Elsewhere
<1>2. CASE StallsRow \/ StallsEnd \/ StallRow \/ StallEnd
  <2>1. /\ UNCHANGED <<file, options, frame, pages>>
        /\ pc' \in {"stalls", "stall", "ended", "failed"}
    BY <1>2 DEF StallsRow, StallsEnd, StallRow, StallEnd, PlotStalls, shared
  <2> QED
    BY <2>1, Elsewhere
<1>3. CASE /\ UNCHANGED charts
           /\ ScanRow \/ StartServer \/ TrySection \/ Interrupt \/ \E r \in Requests : DoGet(r)
  <2>1. UNCHANGED <<file, options, frame, pages>>
    BY <1>3 DEF charts, ScanRow, StartServer, TrySection, Interrupt, DoGet, shared
  <2>2. pc' \in {"scan", "failed", "ended", "serve", "get"}
    BY <1>3 DEF ScanRow, StartServer, TrySection, Interrupt, DoGet, shared
  <2> QED
    BY <2>1, <2>2, Elsewhere
<1> QED
  BY <1>1, <1>2, <1>3

LEMMA Stutter == ASSUME PagesInv, UNCHANGED vars PROVE PagesInv'
<1>1. UNCHANGED <<file, options, pc, devices, counts, frame, todo, pages>>
      /\ index' = index /\ start' = start /\ kernel' = kernel /\ counting' = counting
  BY DEF vars, shared, charts, loop
<1>2. pages' \in Seq(Page) /\ PagesOfOneInstance'
  BY <1>1, SamePages
<1> QED
  BY <1>1, <1>2 DEF PagesInv, InAll, InLoop

LEMMA PagesStep == PagesInv /\ [Next]_vars => PagesInv'
<1> SUFFICES ASSUME PagesInv, [Next]_vars PROVE PagesInv'
  OBVIOUS
<1>1. CASE ListFile \/ ListRow \/ ListEnd
  BY <1>1, ListPages
<1>2. CASE Plot
  BY <1>2, PlotPages
<1>3. CASE AllRow
  BY <1>3, AllRowPages
<1>4. CASE FindRow \/ FindEnd
  BY <1>4, FindPages
<1>5. CASE OneRow
  BY <1>5, OnePages
<1>6. CASE \/ Refuse \/ Serve \/ OneUnterminated \/ Close
           \/ StallsRow \/ StallsEnd \/ StallRow \/ StallEnd
           \/ /\ UNCHANGED charts
              /\ ScanRow \/ StartServer \/ TrySection \/ Interrupt \/ \E r \in Requests : DoGet(r)
  BY <1>6, OtherPages
<1>7. CASE UNCHANGED vars
  BY <1>7, Stutter
<1> QED
  BY <1>1, <1>2, <1>3, <1>4, <1>5, <1>6, <1>7 DEF Next

\* A chart of performance metrics shows the samples of one kernel instance, all
\* of them and no other, under the name of its kernel, whichever of the three
\* loops of AnalyzePerfMetrics plots it; the one exception is the chart without
\* a name at a second blank row.
THEOREM PagesCorrect == Spec => []PagesOfOneInstance
<1>1. PagesInv => PagesOfOneInstance
  BY DEF PagesInv
<1> QED
  BY <1>1, PagesInit, PagesStep, PTL DEF Spec

--------------------------------------------------------------------------------
(* Counting: the members of a finite set of rows up to a row.              *)

\* The number of members up to n.
Rank(S, n) == Cardinality({m \in S : m <= n})

\* Sets of numbers up to a limit are finite.
LEMMA Finite ==
  ASSUME NEW b \in Nat, NEW S \in SUBSET (1..b)
  PROVE  /\ IsFiniteSet(S) /\ Cardinality(S) \in Nat
         /\ \A n \in S : n \in Nat /\ 1 <= n /\ n <= b
         /\ S \in SUBSET (Nat \ {0})
         /\ \A n \in Nat : b <= n => Rank(S, n) = Cardinality(S)
<1>1. 1 \in Int /\ b \in Int
  OBVIOUS
<1>2. IsFiniteSet(1..b)
  BY <1>1, FS_Interval
<1>3. IsFiniteSet(S) /\ Cardinality(S) \in Nat
  BY <1>2, FS_Subset, FS_CardinalityType
<1>4. \A n \in S : n \in 1..b
  OBVIOUS
<1>5. \A n \in 1..b : n \in Nat /\ 1 <= n /\ n <= b
  OBVIOUS
<1>6. ASSUME NEW n \in Nat, b <= n PROVE {m \in S : m <= n} = S
  <2>1. \A m \in Nat : m <= b => m <= n
    BY <1>6
  <2> QED
    BY <1>4, <1>5, <2>1
<1> QED
  BY <1>3, <1>4, <1>5, <1>6 DEF Rank

\* The next number is counted if it is a member.
LEMMA RankStep ==
  ASSUME NEW S \in SUBSET (Nat \ {0}), IsFiniteSet(S), NEW n \in Nat
  PROVE  /\ Rank(S, n) \in Nat /\ Rank(S, 0) = 0
         /\ Rank(S, n + 1) = Rank(S, n) + (IF n + 1 \in S THEN 1 ELSE 0)
<1> DEFINE To(k) == {m \in S : m <= k}
<1>0. \A m \in S : m \in Nat /\ 1 <= m
  OBVIOUS
<1>1. \A k \in Nat : IsFiniteSet(To(k)) /\ Cardinality(To(k)) \in Nat
  BY FS_Subset, FS_CardinalityType
<1>2. \A m \in S : ~(m <= 0) /\ (m <= n + 1 <=> m <= n \/ m = n + 1)
  <2>1. \A m \in Nat : 1 <= m => ~(m <= 0) /\ (m <= n + 1 <=> m <= n \/ m = n + 1)
    OBVIOUS
  <2> QED
    BY <1>0, <2>1
<1>3. To(0) = {}
  BY <1>2, Zenon
<1>4. n + 1 \in S => To(n + 1) = To(n) \cup {n + 1}
  <2> SUFFICES ASSUME n + 1 \in S PROVE To(n + 1) = To(n) \cup {n + 1}
    OBVIOUS
  <2>1. n + 1 <= n + 1
    OBVIOUS
  <2> QED
    BY <1>2, <2>1, Zenon
<1>5. n + 1 \notin S => To(n + 1) = To(n)
  BY <1>2, Zenon
<1>6. n + 1 \notin To(n) /\ n + 1 \in Nat
  OBVIOUS
<1>7. \A k \in Nat : Rank(S, k) = Cardinality(To(k))
  BY DEF Rank
<1> HIDE DEF To
<1>8. Rank(S, 0) = 0
  BY <1>3, <1>7, FS_EmptySet
<1>9. CASE n + 1 \in S
  BY <1>1, <1>4, <1>6, <1>7, <1>8, <1>9, FS_AddElement
<1>10. CASE n + 1 \notin S
  BY <1>1, <1>5, <1>6, <1>7, <1>8, <1>10
<1> QED
  BY <1>9, <1>10

\* A later member has a higher rank.
LEMMA RankMonotone ==
  ASSUME NEW S \in SUBSET (Nat \ {0}), IsFiniteSet(S), NEW n \in Nat, NEW m \in S, n < m
  PROVE  Rank(S, n) < Rank(S, m) /\ Rank(S, n) \in Nat /\ Rank(S, m) \in Nat
<1> DEFINE T == {k \in Nat : Rank(S, n) <= Rank(S, k)}
<1>m. m \in Nat /\ m - 1 \in Nat /\ m - 1 + 1 = m
  OBVIOUS
<1>r. ASSUME NEW k \in Nat
      PROVE  /\ Rank(S, k) \in Nat
             /\ Rank(S, k + 1) = Rank(S, k) + (IF k + 1 \in S THEN 1 ELSE 0)
  BY RankStep
<1>1. n..(m - 1) \subseteq T
  <2>1. n \in T
    BY <1>r
  <2>2. ASSUME NEW k \in n..(m - 1 - 1), k \in T PROVE k + 1 \in T
    <3>1. k \in Nat /\ k + 1 \in Nat /\ Rank(S, n) <= Rank(S, k)
      BY <2>2
    <3>2. Rank(S, n) \in Nat /\ Rank(S, k) \in Nat /\ Rank(S, k + 1) = Rank(S, k) + (IF k + 1 \in S THEN 1 ELSE 0)
      BY <3>1, <1>r
    <3> QED
      BY <3>1, <3>2
  <2> HIDE DEF T
  <2> QED
    BY <1>m, <2>1, <2>2, UpTo
<1>2. Rank(S, n) <= Rank(S, m - 1)
  BY <1>1, <1>m
<1>3. /\ Rank(S, m) = Rank(S, m - 1) + (IF m \in S THEN 1 ELSE 0)
      /\ Rank(S, n) \in Nat /\ Rank(S, m) \in Nat /\ Rank(S, m - 1) \in Nat
  BY <1>m, <1>r
<1> QED
  BY <1>2, <1>3

\* InOrder gives every member, each once and in order.
LEMMA NthMember ==
  ASSUME NEW b \in Nat, NEW S \in SUBSET (1..b), NEW i \in 1..Cardinality(S)
  PROVE  Nth(S, i) \in S /\ Rank(S, Nth(S, i)) = i
<1> DEFINE T == {n \in Nat : i <= Rank(S, n)}
<1>s. S \in SUBSET (Nat \ {0}) /\ IsFiniteSet(S) /\ Rank(S, b) = Cardinality(S)
  BY Finite
<1>i. i \in Nat /\ i # 0 /\ i <= Cardinality(S)
  <2>1. Cardinality(S) \in Nat
    BY Finite
  <2> QED
    BY <2>1
<1>1. b \in T
  BY <1>i, <1>s
<1>2. PICK n \in T : \A m \in T : n <= m
  <2>1. T \in SUBSET Nat /\ T # {}
    BY <1>1
  <2> HIDE DEF T
  <2> QED
    BY <2>1, LeastNat
<1>3. n # 0 /\ n \in Nat
  BY <1>2, <1>i, <1>s, RankStep
<1>4. n - 1 \in Nat /\ n - 1 + 1 = n /\ ~(n <= n - 1)
  BY <1>3
<1>5. n - 1 \notin T
  BY <1>2, <1>4
<1>6. /\ Rank(S, n) = Rank(S, n - 1) + (IF n \in S THEN 1 ELSE 0)
      /\ Rank(S, n) \in Nat /\ Rank(S, n - 1) \in Nat
  BY <1>3, <1>4, <1>s, RankStep
<1>7. n \in S /\ Rank(S, n) = i
  BY <1>2, <1>4, <1>5, <1>6, <1>i
<1> QED
  BY <1>7 DEF Nth, Rank

LEMMA InOrderCorrect ==
  ASSUME NEW b \in Nat, NEW S \in SUBSET (1..b)
  PROVE  /\ InOrder(S) \in Seq(S) /\ Len(InOrder(S)) = Cardinality(S) /\ Cardinality(S) \in Nat
         /\ DOMAIN InOrder(S) = 1..Cardinality(S)
         /\ \A i \in 1..Cardinality(S) : InOrder(S)[i] \in S
         /\ \A i, j \in 1..Cardinality(S) : i < j => InOrder(S)[i] < InOrder(S)[j]
         /\ \A n \in S : \E i \in 1..Cardinality(S) : InOrder(S)[i] = n
<1>1. Cardinality(S) \in Nat /\ S \in SUBSET (Nat \ {0}) /\ IsFiniteSet(S)
  BY Finite
<1>2. \A i \in 1..Cardinality(S) : Nth(S, i) \in S /\ Rank(S, Nth(S, i)) = i
  BY NthMember
<1>3. InOrder(S) = [i \in 1..Cardinality(S) |-> Nth(S, i)]
  BY DEF InOrder
<1>4. InOrder(S) \in Seq(S) /\ Len(InOrder(S)) = Cardinality(S)
  BY <1>1, <1>2, <1>3
<1>5. ASSUME NEW i \in 1..Cardinality(S), NEW j \in 1..Cardinality(S), i < j
      PROVE  Nth(S, i) < Nth(S, j)
  <2>1. Nth(S, i) \in S /\ Nth(S, j) \in S /\ Rank(S, Nth(S, i)) = i /\ Rank(S, Nth(S, j)) = j
    BY <1>2
  <2>2. Nth(S, i) \in Nat /\ Nth(S, j) \in Nat
    BY <2>1, Finite
  <2>3. Nth(S, j) < Nth(S, i) => j < i
    BY <2>1, <2>2, <1>1, RankMonotone
  <2>4. Nth(S, j) # Nth(S, i)
    BY <1>5, <2>1
  <2>5. ~(j < i)
    BY <1>1, <1>5
  <2> QED
    BY <2>2, <2>3, <2>4, <2>5
<1>6. ASSUME NEW n \in S PROVE \E i \in 1..Cardinality(S) : Nth(S, i) = n
  <2>1. n \in Nat /\ 0 < n /\ 0 \in Nat
    <3>1. n \in Nat /\ 1 <= n
      BY Finite
    <3> QED
      BY <3>1
  <2>2. Rank(S, n) \in Nat /\ 1 <= Rank(S, n)
    <3>1. Rank(S, 0) < Rank(S, n) /\ Rank(S, 0) \in Nat /\ Rank(S, n) \in Nat
      BY <2>1, <1>1, RankMonotone
    <3> QED
      BY <3>1
  <2>3. Rank(S, n) <= Cardinality(S)
    <3>1. {m \in S : m <= n} \in SUBSET S /\ IsFiniteSet(S)
      BY Finite
    <3> QED
      BY <3>1, FS_Subset DEF Rank
  <2> DEFINE i == Rank(S, n)
  <2>4. i \in 1..Cardinality(S)
    BY <1>1, <2>2, <2>3
  <2>5. Nth(S, i) \in S /\ Rank(S, Nth(S, i)) = i
    BY <1>2, <2>4
  <2>6. Nth(S, i) \in Nat
    BY <2>5, <1>1
  <2>7. ~(Nth(S, i) < n) /\ ~(n < Nth(S, i))
    <3>1. Nth(S, i) < n => Rank(S, Nth(S, i)) < Rank(S, n)
      BY <2>6, <1>1, RankMonotone
    <3>2. n < Nth(S, i) => Rank(S, n) < Rank(S, Nth(S, i))
      BY <2>1, <2>5, <1>1, RankMonotone
    <3> QED
      BY <2>2, <2>5, <3>1, <3>2
  <2> HIDE DEF i
  <2>8. Nth(S, i) = n
    BY <2>1, <2>6, <2>7
  <2> QED
    BY <2>4, <2>8
<1>7. \A i \in 1..Cardinality(S) : InOrder(S)[i] = Nth(S, i)
  BY <1>3
<1> QED
  BY <1>1, <1>2, <1>3, <1>4, <1>5, <1>6, <1>7

--------------------------------------------------------------------------------
(* List: instances end and begin.                                          *)

\* The name between two instances, which no kernel has.
NoName == ""

\* The kernel of the row before row n, "" if that row is blank or there is none.
NameBefore(rows, n) == IF n > 1 /\ ~IsNan(rows[n - 1]) THEN rows[n - 1].kernel ELSE NoName

\* Where the instances of k end with a blank row, and where they begin.
Ends(rows, k) == {n \in DOMAIN rows : IsNan(rows[n]) /\ NameBefore(rows, n) = k}
Begins(rows, k) ==
  {n \in DOMAIN rows : ~IsNan(rows[n]) /\ rows[n].kernel = k /\ NameBefore(rows, n) # k}

\* The number of instances listed so far of the device at work; of the others
\* all are.
Listed(d, k, n) == counts[d][k] = Rank(Ends(frame, k), n)
ListInv ==
  /\ file \in Files
  /\ devices \in Seq(Devices(file))
  /\ \A d \in DOMAIN counts : d \in Devices(file) /\ ~HasEvents(d) /\ counts[d] \in [Kernels -> Nat]
  /\ \A d \in DOMAIN counts, k \in Kernels :
       (pc = "list" /\ d = Head(devices)) \/ counts[d][k] = Cardinality(Ends(FrameOf(file, d), k))
  /\ pc = "list" =>
       /\ devices # <<>> /\ frame = FrameOf(file, Head(devices))
       /\ Head(devices) \in DOMAIN counts =>
            /\ index \in 1..(Len(frame) + 1) /\ kernel = NameBefore(frame, index)
            /\ \A k \in Kernels : Listed(Head(devices), k, index - 1)

IsFrame(rows) == rows \in Seq(FrameRow) /\ RunsOfOneKernel(rows)

LEMMA FrameRows ==
  ASSUME NEW rows, IsFrame(rows)
  PROVE  /\ Len(rows) \in Nat /\ DOMAIN rows = 1..Len(rows)
         /\ \A n \in 1..Len(rows) : ~IsNan(rows[n]) => rows[n].kernel \in Kernels /\ rows[n].kernel # NoName
<1>1. rows \in Seq(FrameRow)
  BY DEF IsFrame
<1>2. Len(rows) \in Nat /\ DOMAIN rows = 1..Len(rows) /\ \A n \in 1..Len(rows) : rows[n] \in FrameRow
  BY <1>1, LenProperties, ElementOfSeq
<1>3. \A n \in 1..Len(rows) : ~IsNan(rows[n]) => rows[n].kernel \in Kernels
  BY <1>2 DEF FrameRow, SampleRow, IsNan, BlankRow
<1> QED
  BY <1>2, <1>3, KernelAssumption DEF NoName

\* The row before the next one is this one; a row goes on with the instance of
\* the row before it.
LEMMA NameStep ==
  ASSUME NEW rows, IsFrame(rows), NEW n \in 1..Len(rows)
  PROVE  /\ NameBefore(rows, n + 1) = IF IsNan(rows[n]) THEN NoName ELSE rows[n].kernel
         /\ ~IsNan(rows[n]) => NameBefore(rows, n) \in {NoName, rows[n].kernel} /\ rows[n].kernel # NoName
         /\ NameBefore(rows, 1) = NoName
<1>1. Len(rows) \in Nat /\ (~IsNan(rows[n]) => rows[n].kernel # NoName)
  BY FrameRows
<1>2. n + 1 > 1 /\ n + 1 - 1 = n
  OBVIOUS
<1>3. ASSUME ~IsNan(rows[n]), n > 1, ~IsNan(rows[n - 1]) PROVE rows[n - 1].kernel = rows[n].kernel
  <2>1. n - 1 \in 1..(Len(rows) - 1) /\ n - 1 + 1 = n
    <3>1. n \in Nat /\ n <= Len(rows) /\ Len(rows) \in Nat /\ n > 1
      BY <1>1, <1>3
    <3> QED
      BY ONLY <3>1
  <2> QED
    BY <1>3, <2>1 DEF IsFrame, RunsOfOneKernel
<1>4. NameBefore(rows, n + 1) = IF IsNan(rows[n]) THEN NoName ELSE rows[n].kernel
  <2>1. NameBefore(rows, n + 1) =
          IF n + 1 > 1 /\ ~IsNan(rows[n + 1 - 1]) THEN rows[n + 1 - 1].kernel ELSE NoName
    BY DEF NameBefore
  <2> QED
    BY <1>2, <2>1
<1>5. ~IsNan(rows[n]) => NameBefore(rows, n) \in {NoName, rows[n].kernel}
  BY <1>3 DEF NameBefore
<1>6. NameBefore(rows, 1) = NoName
  BY DEF NameBefore
<1> QED
  BY <1>1, <1>4, <1>5, <1>6

\* One row more: whether an instance of k ends or begins there.
LEMMA CountStep ==
  ASSUME NEW rows, IsFrame(rows), NEW S \in SUBSET (DOMAIN rows), NEW n \in 1..Len(rows)
  PROVE  /\ Rank(S, n - 1) \in Nat
         /\ Rank(S, n) = Rank(S, n - 1) + (IF n \in S THEN 1 ELSE 0)
         /\ Rank(S, 0) = 0 /\ Rank(S, Len(rows)) = Cardinality(S) /\ Cardinality(S) \in Nat
         /\ Rank(S, n) <= Cardinality(S)
<1>1. Len(rows) \in Nat /\ S \in SUBSET (1..Len(rows))
  BY FrameRows
<1>2. /\ IsFiniteSet(S) /\ Cardinality(S) \in Nat /\ S \in SUBSET (Nat \ {0})
      /\ Rank(S, Len(rows)) = Cardinality(S)
  BY <1>1, Finite
<1>3. n - 1 \in Nat /\ n - 1 + 1 = n
  BY <1>1
<1>4. /\ Rank(S, n - 1) \in Nat /\ Rank(S, 0) = 0
      /\ Rank(S, n - 1 + 1) = Rank(S, n - 1) + (IF n - 1 + 1 \in S THEN 1 ELSE 0)
  BY <1>2, <1>3, RankStep
<1>5. Rank(S, n) <= Cardinality(S)
  <2>1. {m \in S : m <= n} \in SUBSET S
    OBVIOUS
  <2> QED
    BY <1>2, <2>1, FS_Subset DEF Rank
<1> QED
  BY <1>2, <1>3, <1>4, <1>5

LEMMA EndsStep ==
  ASSUME NEW rows, IsFrame(rows), NEW k, NEW n \in 1..Len(rows)
  PROVE  /\ Rank(Ends(rows, k), n - 1) \in Nat
         /\ Rank(Ends(rows, k), n) =
              Rank(Ends(rows, k), n - 1) + (IF IsNan(rows[n]) /\ NameBefore(rows, n) = k THEN 1 ELSE 0)
<1>1. Ends(rows, k) \in SUBSET (DOMAIN rows)
  BY DEF Ends
<1>2. n \in DOMAIN rows
  BY FrameRows
<1>3. n \in Ends(rows, k) <=> IsNan(rows[n]) /\ NameBefore(rows, n) = k
  BY <1>2 DEF Ends
<1> QED
  BY <1>1, <1>3, CountStep

LEMMA BeginsStep ==
  ASSUME NEW rows, IsFrame(rows), NEW k, NEW n \in 1..Len(rows)
  PROVE  /\ Rank(Begins(rows, k), n - 1) \in Nat
         /\ Rank(Begins(rows, k), n) =
              Rank(Begins(rows, k), n - 1) +
              (IF ~IsNan(rows[n]) /\ rows[n].kernel = k /\ NameBefore(rows, n) # k THEN 1 ELSE 0)
         /\ Rank(Begins(rows, k), n) <= Cardinality(Begins(rows, k))
<1>1. Begins(rows, k) \in SUBSET (DOMAIN rows)
  BY DEF Begins
<1>2. n \in DOMAIN rows
  BY FrameRows
<1>3. n \in Begins(rows, k) <=> ~IsNan(rows[n]) /\ rows[n].kernel = k /\ NameBefore(rows, n) # k
  BY <1>2 DEF Begins
<1> QED
  BY <1>1, <1>3, CountStep

\* Before the first row and after the last.
LEMMA CountEnds ==
  ASSUME NEW rows, IsFrame(rows), NEW S \in SUBSET (DOMAIN rows)
  PROVE  Rank(S, 0) = 0 /\ Rank(S, Len(rows)) = Cardinality(S) /\ Cardinality(S) \in Nat
<1>1. Len(rows) \in Nat /\ S \in SUBSET (1..Len(rows))
  BY FrameRows
<1>2. /\ IsFiniteSet(S) /\ Cardinality(S) \in Nat /\ S \in SUBSET (Nat \ {0})
      /\ Rank(S, Len(rows)) = Cardinality(S)
  BY <1>1, Finite
<1> QED
  BY <1>2, RankStep

\* Of the instances that have begun all have ended but the one at the end.
LEMMA BeganOrEnded ==
  ASSUME NEW rows, IsFrame(rows), NEW k \in Kernels
  PROVE  Cardinality(Begins(rows, k)) =
           Cardinality(Ends(rows, k)) + (IF NameBefore(rows, Len(rows) + 1) = k THEN 1 ELSE 0)
<1> DEFINE B(n) == Rank(Begins(rows, k), n)
           E(n) == Rank(Ends(rows, k), n)
           T == {n \in Nat : B(n) = E(n) + (IF NameBefore(rows, n + 1) = k THEN 1 ELSE 0)}
<1>1. Len(rows) \in Nat /\ k # NoName
  BY FrameRows, KernelAssumption DEF NoName
<1>2. /\ B(0) = 0 /\ E(0) = 0
      /\ B(Len(rows)) = Cardinality(Begins(rows, k)) /\ E(Len(rows)) = Cardinality(Ends(rows, k))
  <2>1. Begins(rows, k) \in SUBSET (DOMAIN rows) /\ Ends(rows, k) \in SUBSET (DOMAIN rows)
    BY DEF Begins, Ends
  <2> QED
    BY <2>1, CountEnds
<1>3. 0 \in T
  <2>1. NameBefore(rows, 0 + 1) = NoName
    BY DEF NameBefore
  <2> HIDE DEF B, E
  <2> QED
    BY <1>1, <1>2, <2>1
<1>4. ASSUME NEW n \in 0..(Len(rows) - 1), n \in T PROVE n + 1 \in T
  <2>1. n + 1 \in 1..Len(rows) /\ n + 1 - 1 = n /\ n \in Nat /\ n + 1 \in Nat
    <3>1. n \in 0..(Len(rows) - 1) /\ Len(rows) \in Nat
      BY <1>1, <1>4
    <3> QED
      BY ONLY <3>1
  <2> DEFINE m == n + 1
  <2>2. /\ B(m) = B(n) + (IF ~IsNan(rows[m]) /\ rows[m].kernel = k /\ NameBefore(rows, m) # k THEN 1 ELSE 0)
        /\ E(m) = E(n) + (IF IsNan(rows[m]) /\ NameBefore(rows, m) = k THEN 1 ELSE 0)
        /\ B(n) \in Nat /\ E(n) \in Nat
    BY <2>1, BeginsStep, EndsStep
  <2>3. /\ NameBefore(rows, m + 1) = IF IsNan(rows[m]) THEN NoName ELSE rows[m].kernel
        /\ ~IsNan(rows[m]) => NameBefore(rows, m) \in {NoName, rows[m].kernel}
    BY <2>1, NameStep
  <2>4. B(n) = E(n) + (IF NameBefore(rows, m) = k THEN 1 ELSE 0)
    BY <1>4
  <2>5. B(m) = E(m) + (IF NameBefore(rows, m + 1) = k THEN 1 ELSE 0)
    <3> HIDE DEF B, E, m
    <3>1. CASE IsNan(rows[m])
      BY <1>1, <2>2, <2>3, <2>4, <3>1
    <3>2. CASE ~IsNan(rows[m])
      <4>1. CASE rows[m].kernel = k
        BY <1>1, <2>2, <2>3, <2>4, <3>2, <4>1
      <4>2. CASE rows[m].kernel # k
        BY <1>1, <2>2, <2>3, <2>4, <3>2, <4>2
      <4> QED
        BY <4>1, <4>2
    <3> QED
      BY <3>1, <3>2
  <2> QED
    BY <2>1, <2>5
<1>5. 0..Len(rows) \subseteq T
  <2> HIDE DEF T
  <2> QED
    BY <1>1, <1>3, <1>4, UpTo
<1>6. Len(rows) \in T
  <2>1. Len(rows) \in 0..Len(rows)
    BY <1>1
  <2> HIDE DEF T
  <2> QED
    BY <1>5, <2>1
<1> QED
  BY <1>2, <1>6

--------------------------------------------------------------------------------
(* The charts of a title.                                                  *)

LEMMA IntervalSubset ==
  \A b \in Nat : \A S \in SUBSET (1..b) : IsFiniteSet(S) /\ Cardinality(S) \in Nat
BY Finite

TitledIn(charts_, k) == Cardinality({n \in DOMAIN charts_ : charts_[n].title = k})

AllTitled(charts_, title) == \A n \in 1..Len(charts_) : charts_[n].title = title

\* Charts of the same title are added.
LEMMA TitledMore ==
  ASSUME NEW ps \in Seq(Page), NEW more \in Seq(Page), NEW title,
         AllTitled(more, title), NEW k
  PROVE  /\ TitledIn(ps, k) \in Nat
         /\ TitledIn(ps \o more, k) = TitledIn(ps, k) + (IF title = k THEN Len(more) ELSE 0)
<1> DEFINE L == Len(ps)
           M == Len(more)
           Old == {n \in 1..L : ps[n].title = k}
           New == {n \in 1..(L + M) : n > L /\ title = k}
           all == ps \o more
<1>1. /\ L \in Nat /\ M \in Nat /\ DOMAIN ps = 1..L /\ DOMAIN all = 1..(L + M)
      /\ \A n \in 1..(L + M) : all[n] = IF n <= L THEN ps[n] ELSE more[n - L]
  <2>1. all \in Seq(Page) /\ Len(all) = L + M
    BY ConcatProperties
  <2> QED
    BY <2>1, LenProperties, ConcatProperties
<1> HIDE DEF L, M, all
<1>2. TitledIn(ps, k) = Cardinality(Old)
  BY <1>1 DEF TitledIn
<1>3. {n \in DOMAIN all : all[n].title = k} = Old \cup New
  <2>1. ASSUME NEW n \in 1..(L + M), n <= L PROVE n \in 1..L /\ ~(n > L)
    BY <1>1, <2>1
  <2>2. ASSUME NEW n \in 1..(L + M), ~(n <= L) PROVE n - L \in 1..M /\ n > L /\ n \notin 1..L
    BY <1>1, <2>2
  <2>3. ASSUME NEW n \in 1..(L + M) PROVE all[n].title = k <=> n \in Old \cup New
    <3>1. CASE n <= L
      BY <1>1, <2>1, <3>1
    <3>2. CASE ~(n <= L)
      <4>1. all[n].title = title
        BY <1>1, <2>2, <3>2 DEF M, AllTitled
      <4> QED
        BY <2>2, <3>2, <4>1
    <3> QED
      BY <3>1, <3>2
  <2>4. Old \subseteq 1..(L + M) /\ New \subseteq 1..(L + M)
    BY <1>1
  <2> HIDE DEF Old, New
  <2> QED
    BY <1>1, <2>3, <2>4
<1>4. TitledIn(all, k) = Cardinality(Old \cup New)
  BY <1>3 DEF TitledIn
<1>5. Old \in SUBSET (1..L) /\ New \in SUBSET (1..(L + M)) /\ L + M \in Nat /\ Old \cap New = {}
  BY <1>1
<1>6. New = IF title = k THEN (L + 1)..(L + M) ELSE {}
  BY <1>1
<1> HIDE DEF Old, New
<1>7. /\ IsFiniteSet(Old) /\ IsFiniteSet(New) /\ Cardinality(Old) \in Nat /\ Cardinality(New) \in Nat
      /\ Cardinality({}) = 0
  <2>1. IsFiniteSet(Old) /\ Cardinality(Old) \in Nat
    BY <1>1, <1>5, IntervalSubset
  <2>2. IsFiniteSet(New) /\ Cardinality(New) \in Nat
    BY <1>5, IntervalSubset
  <2> QED
    BY <2>1, <2>2, FS_EmptySet
<1>8. Cardinality(New) = IF title = k THEN M ELSE 0
  <2>1. Cardinality((L + 1)..(L + M)) = M
    <3> DEFINE a == L + 1
               b == L + M
    <3>1. a \in Int /\ b \in Int /\ (a > b <=> M = 0) /\ b - a + 1 = M
      <4>1. L \in Nat /\ M \in Nat
        BY <1>1
      <4> QED
        BY ONLY <4>1
    <3> HIDE DEF a, b
    <3>2. Cardinality(a..b) = IF a > b THEN 0 ELSE b - a + 1
      BY <3>1, FS_Interval
    <3>3. Cardinality(a..b) = M
      BY <3>1, <3>2
    <3> QED
      BY <3>3 DEF a, b
  <2> QED
    BY <1>6, <1>7, <2>1
<1>9. Cardinality(Old \cup New) = Cardinality(Old) + Cardinality(New)
  <2>1. Cardinality(Old \cup New) = Cardinality(Old) + Cardinality(New) - Cardinality(Old \cap New)
    BY <1>7, FS_Union
  <2>2. Cardinality(Old \cap New) = 0
    BY <1>5, <1>7, Zenon
  <2> QED
    BY <1>7, <2>1, <2>2
<1> QED
  BY <1>2, <1>4, <1>7, <1>8, <1>9 DEF M, all

More(ps, first, stop, title) == ps \o Chart(first, stop, title)

\* A chart of some rows adds one page for each set of metrics.
LEMMA TitledStep ==
  ASSUME pages \in Seq(Page), options.sets \in Nat, NEW first \in Nat, NEW stop \in Nat,
         NEW title \in Titles, pages' = More(pages, first, stop, title), NEW k
  PROVE  /\ TitledIn(pages, k) \in Nat
         /\ TitledIn(pages', k) =
              TitledIn(pages, k) + (IF first < stop /\ title = k THEN options.sets ELSE 0)
<1> DEFINE page == [title |-> title, first |-> first, last |-> stop - 1]
           more == Chart(first, stop, title)
<1>1. /\ more \in Seq(Page) /\ AllTitled(more, title)
      /\ Len(more) = IF first < stop THEN options.sets ELSE 0
  <2>1. CASE first < stop
    <3>1. page \in Page /\ page.title = title
      <4>1. stop - 1 \in Nat
        BY <2>1
      <4> QED
        BY <4>1 DEF Page
    <3>2. more = [n \in 1..options.sets |-> page]
      BY <2>1 DEF Chart
    <3> HIDE DEF more, page
    <3>3. page \in Page
      BY <3>1
    <3>4. more \in Seq(Page) /\ Len(more) = options.sets
      BY ONLY <3>2, <3>3, options.sets \in Nat
    <3>5. \A n \in 1..options.sets : more[n] = page
      BY <3>2
    <3> QED
      BY <2>1, <3>1, <3>4, <3>5 DEF AllTitled
  <2>2. CASE ~(first < stop)
    <3>1. more = <<>>
      BY <2>2 DEF Chart
    <3> HIDE DEF more
    <3>2. more \in Seq(Page) /\ Len(more) = 0
      BY <3>1, EmptySeq
    <3>3. AllTitled(more, title)
      BY <3>2 DEF AllTitled
    <3> QED
      BY <2>2, <3>2, <3>3
  <2> QED
    BY <2>1, <2>2
<1> HIDE DEF more, page
<1>2. /\ TitledIn(pages, k) \in Nat
      /\ TitledIn(pages \o more, k) = TitledIn(pages, k) + (IF title = k THEN Len(more) ELSE 0)
  BY <1>1, TitledMore
<1>3. pages' = pages \o more
  BY DEF more, More
<1> QED
  BY <1>1, <1>2, <1>3

LEMMA TitledNone == ASSUME NEW k PROVE TitledIn(<<>>, k) = 0
<1>1. {n \in DOMAIN << >> : << >>[n].title = k} = {}
  OBVIOUS
<1> QED
  BY <1>1, FS_EmptySet DEF TitledIn

\* What is charted so far of each kernel: in "all" and "one" its instances up to
\* the row, in "find" the one of it if its turn is over.
Asked(k) == options.kernel \in {k, ""}
InTodo(k) == \E n \in DOMAIN todo : todo[n] = k
ChartedInAll == \A k \in Kernels : TitledIn(pages, k) = options.sets * Rank(Ends(frame, k), index - 1)
ChartedInOne ==
  \A k \in Kernels :
    TitledIn(pages, k) = IF k = options.kernel THEN options.sets * Rank(Ends(frame, k), index - 1) ELSE 0
ChartedInFind ==
  \A k \in Kernels :
    TitledIn(pages, k) =
      IF Asked(k) /\ ~InTodo(k) /\ Cardinality(Begins(frame, k)) >= options.instance
      THEN options.sets ELSE 0

ChartedInv ==
  /\ pc \in {"start", "scan", "serve", "get"} => frame = <<>>
  /\ pc \in {"start", "list", "all", "find", "one"} => closed = FALSE
  /\ pc \in {"stalls", "stall"} => HasEvents(options.device)
  /\ pc \in {"all", "find", "one"} =>
       /\ frame = FrameOf(file, options.device) /\ options.device \in Devices(file)
       /\ ~HasEvents(options.device) /\ options.known
  /\ pc = "all" => kernel = NameBefore(frame, index) /\ ChartedInAll
  /\ pc = "one" =>
       /\ options.kernel # NoName /\ options.instance < 1
       /\ counting \in BOOLEAN /\ (counting = FALSE <=> NameBefore(frame, index) = options.kernel)
       /\ ChartedInOne
  /\ pc = "find" =>
       /\ options.instance >= 1
       /\ \A n \in DOMAIN todo : todo[n] # NoName /\ Asked(todo[n])
       /\ \A m, n \in DOMAIN todo : todo[m] = todo[n] => m = n
       /\ todo # <<>> =>
            /\ counting \in BOOLEAN /\ (counting = FALSE <=> NameBefore(frame, index) = Head(todo))
            /\ instance = Rank(Begins(frame, Head(todo)), index - 1)
            /\ start = 0 <=> instance < options.instance
       /\ todo \in Seq(Kernels \cup {options.kernel})
       /\ ChartedInFind

CountInv == PagesInv /\ ListInv /\ ChartedInv /\ ListedAreCharted

--------------------------------------------------------------------------------
(* What List counts.                                                       *)

LEMMA DeviceFrame ==
  ASSUME file \in Files, NEW d \in Devices(file), ~HasEvents(d)
  PROVE  IsFrame(FrameOf(file, d))
BY FileAssumption DEF HasEvents, IsFrame

\* Outside of List.
LEMMA ListKept ==
  ASSUME ListInv, UNCHANGED <<file, devices, counts>>, pc # "list", pc' # "list"
  PROVE  ListInv'
BY DEF ListInv, HasEvents

\* A device's turn.
LEMMA ListBegins ==
  ASSUME ListInv, NEW ds \in Seq(Devices(file)), List(ds),
         \A d \in DOMAIN counts, k \in Kernels : counts[d][k] = Cardinality(Ends(FrameOf(file, d), k))
  PROVE  ListInv'
<1> DEFINE d0 == Head(ds)
           zero == [k \in Kernels |-> 0]
<1>1. /\ devices' = ds /\ file' = file
      /\ pc' = (IF ds = <<>> THEN "start" ELSE "list")
      /\ frame' = (IF ds = <<>> THEN <<>> ELSE FrameOf(file, d0))
      /\ index' = 1 /\ kernel' = NoName
  BY DEF List, Rewound, NoName
<1>2. /\ file \in Files
      /\ \A d \in DOMAIN counts : d \in Devices(file) /\ ~HasEvents(d) /\ counts[d] \in [Kernels -> Nat]
  BY DEF ListInv
<1>3. CASE ds = <<>> \/ HasEvents(d0)
  <2>1. counts' = counts
    BY <1>3 DEF List, HasEvents
  <2>2. ds # <<>> => d0 \notin DOMAIN counts
    BY <1>2, <1>3
  <2>3. ds = <<>> => pc' # "list"
    BY <1>1
  <2> QED
    BY <1>1, <1>2, <2>1, <2>2, <2>3 DEF ListInv, HasEvents
<1>4. CASE ds # <<>> /\ ~HasEvents(d0)
  <2>2. counts' = [d \in DOMAIN counts \cup {d0} |-> IF d = d0 THEN zero ELSE counts[d]]
    BY <1>4 DEF List, HasEvents
  <2>3. d0 \in Devices(file)
    BY <1>4
  <2>4. IsFrame(FrameOf(file, d0))
    BY <1>2, <1>4, <2>3, DeviceFrame
  <2>5. /\ 1 \in 1..(Len(FrameOf(file, d0)) + 1) /\ 1 - 1 = 0
        /\ NameBefore(FrameOf(file, d0), 1) = NoName
        /\ \A k \in Kernels : Rank(Ends(FrameOf(file, d0), k), 0) = 0
    <3>1. \A k \in Kernels : Ends(FrameOf(file, d0), k) \in SUBSET (DOMAIN FrameOf(file, d0))
      BY DEF Ends
    <3>2. \A k \in Kernels : Rank(Ends(FrameOf(file, d0), k), 0) = 0
      BY <2>4, <3>1, CountEnds
    <3>3. Len(FrameOf(file, d0)) \in Nat
      BY <2>4, FrameRows
    <3>4. NameBefore(FrameOf(file, d0), 1) = NoName
      BY DEF NameBefore
    <3> QED
      BY <3>2, <3>3, <3>4
  <2> HIDE DEF d0, zero
  <2>6. ASSUME NEW d \in DOMAIN counts'
        PROVE  d \in Devices(file') /\ ~HasEvents(d)' /\ counts'[d] \in [Kernels -> Nat]
    <3>1. HasEvents(d)' = HasEvents(d)
      BY <1>1 DEF HasEvents
    <3>2. zero \in [Kernels -> Nat]
      BY DEF zero
    <3> QED
      BY <1>1, <1>2, <1>4, <2>2, <2>3, <3>1, <3>2
  <2>7. ASSUME NEW d \in DOMAIN counts', NEW k \in Kernels
        PROVE  (pc' = "list" /\ d = Head(devices')) \/ counts'[d][k] = Cardinality(Ends(FrameOf(file', d), k))
    <3>1. CASE d = d0
      BY <1>1, <1>4, <3>1 DEF d0
    <3>2. CASE d # d0
      BY <1>1, <2>2, <3>2
    <3> QED
      BY <3>1, <3>2
  <2>8. ASSUME NEW k \in Kernels PROVE counts'[d0][k] = 0
    BY <2>2 DEF zero
  <2>9. Head(devices') = d0 /\ devices' # <<>> /\ frame' = FrameOf(file', d0)
    BY <1>1, <1>4 DEF d0
  <2>10. devices' \in Seq(Devices(file')) /\ file' \in Files
    BY <1>1, <1>2
  <2>11. \A k \in Kernels : counts'[d0][k] = Rank(Ends(frame', k), index' - 1)
    BY <1>1, <2>5, <2>8, <2>9
  <2>12. index' \in 1..(Len(frame') + 1) /\ kernel' = NameBefore(frame', index')
    BY <1>1, <2>5, <2>9
  <2> QED
    BY <2>6, <2>7, <2>9, <2>10, <2>11, <2>12 DEF ListInv, Listed
<1> QED
  BY <1>3, <1>4

LEMMA ListRowCounts == ASSUME ListInv, ListRow PROVE ListInv'
<1> DEFINE d0 == Head(devices)
<1>1. /\ pc = "list" /\ d0 \in DOMAIN counts /\ index <= Len(frame)
      /\ index' = index + 1
      /\ UNCHANGED <<file, options, pc, devices, frame>>
  BY DEF ListRow, shared
<1>2. /\ file \in Files /\ devices \in Seq(Devices(file)) /\ devices # <<>>
      /\ \A d \in DOMAIN counts : d \in Devices(file) /\ ~HasEvents(d) /\ counts[d] \in [Kernels -> Nat]
      /\ \A d \in DOMAIN counts, k \in Kernels :
           d = d0 \/ counts[d][k] = Cardinality(Ends(FrameOf(file, d), k))
      /\ frame = FrameOf(file, d0)
      /\ index \in 1..(Len(frame) + 1) /\ kernel = NameBefore(frame, index)
      /\ \A k \in Kernels : counts[d0][k] = Rank(Ends(frame, k), index - 1)
  BY <1>1 DEF ListInv, Listed
<1>3. IsFrame(frame)
  BY <1>1, <1>2, DeviceFrame
<1>4. index \in 1..Len(frame) /\ index + 1 \in 1..(Len(frame) + 1) /\ index + 1 - 1 = index
  <2>1. Len(frame) \in Nat
    BY <1>3, FrameRows
  <2>2. index \in 1..(Len(frame) + 1) /\ index <= Len(frame)
    BY <1>1, <1>2
  <2> QED
    BY ONLY <2>1, <2>2
<1>5. kernel' = NameBefore(frame, index + 1)
  <2>1. /\ NameBefore(frame, index + 1) = IF IsNan(frame[index]) THEN NoName ELSE frame[index].kernel
        /\ ~IsNan(frame[index]) => kernel \in {NoName, frame[index].kernel}
    BY <1>2, <1>3, <1>4, NameStep
  <2>2. kernel' = IF IsNan(frame[index]) THEN NoName
                  ELSE IF kernel = NoName THEN frame[index].kernel ELSE kernel
    BY DEF ListRow, NoName
  <2> QED
    BY <2>1, <2>2
<1>6. /\ DOMAIN counts' = DOMAIN counts
      /\ \A d \in DOMAIN counts : d # d0 => counts'[d] = counts[d]
      /\ counts'[d0] \in [Kernels -> Nat]
      /\ \A k \in Kernels :
           counts'[d0][k] = counts[d0][k] + (IF IsNan(frame[index]) /\ kernel = k THEN 1 ELSE 0)
  <2>0. counts[d0] \in [Kernels -> Nat] /\ \A k \in Kernels : k # NoName
    BY <1>1, <1>2, KernelAssumption DEF NoName
  <2>1. CASE IsNan(frame[index]) /\ kernel # NoName
    <3>1. counts' = [counts EXCEPT ![d0] = [counts[d0] EXCEPT ![kernel] = counts[d0][kernel] + 1]]
      BY <2>1 DEF ListRow, NoName
    <3>2. kernel \in Kernels
      <4>1. Len(frame) \in Nat /\ \A n \in 1..Len(frame) : ~IsNan(frame[n]) => frame[n].kernel \in Kernels
        BY <1>3, FrameRows
      <4>2. index > 1 /\ ~IsNan(frame[index - 1]) /\ kernel = frame[index - 1].kernel
        BY <1>2, <2>1 DEF NameBefore
      <4>3. index - 1 \in 1..Len(frame)
        <5> index \in 1..Len(frame) /\ index > 1 /\ Len(frame) \in Nat
          BY <1>4, <4>1, <4>2
        <5> QED
          OBVIOUS
      <4> QED
        BY <4>1, <4>2, <4>3
    <3> HIDE DEF d0
    <3> QED
      BY <1>1, <2>0, <2>1, <3>1, <3>2
  <2>2. CASE ~(IsNan(frame[index]) /\ kernel # NoName)
    <3>1. counts' = counts
      BY <2>2 DEF ListRow, NoName
    <3> HIDE DEF d0
    <3> QED
      BY <2>0, <2>2, <3>1
  <2> QED
    BY <2>1, <2>2
<1>7. ASSUME NEW k \in Kernels PROVE counts'[d0][k] = Rank(Ends(frame, k), index + 1 - 1)
  <2>1. Rank(Ends(frame, k), index) =
          Rank(Ends(frame, k), index - 1) + (IF IsNan(frame[index]) /\ kernel = k THEN 1 ELSE 0)
    BY <1>2, <1>3, <1>4, EndsStep
  <2> QED
    BY <1>2, <1>4, <1>6, <2>1
<1>8. ASSUME NEW d \in DOMAIN counts' PROVE d \in Devices(file') /\ ~HasEvents(d)' /\ counts'[d] \in [Kernels -> Nat]
  <2>1. HasEvents(d)' = HasEvents(d)
    BY <1>1 DEF HasEvents
  <2> QED
    BY <1>1, <1>2, <1>6, <2>1
<1>9. ASSUME NEW d \in DOMAIN counts', NEW k \in Kernels
      PROVE  d = Head(devices') \/ counts'[d][k] = Cardinality(Ends(FrameOf(file', d), k))
  BY <1>1, <1>2, <1>6
<1>10. /\ index' \in 1..(Len(frame') + 1) /\ kernel' = NameBefore(frame', index')
       /\ \A k \in Kernels : counts'[Head(devices')][k] = Rank(Ends(frame', k), index' - 1)
  BY <1>1, <1>4, <1>5, <1>7
<1> QED
  BY <1>1, <1>2, <1>8, <1>9, <1>10 DEF ListInv, Listed

LEMMA ListEndCounts == ASSUME ListInv, ListEnd PROVE ListInv'
<1> DEFINE d0 == Head(devices)
<1>1. pc = "list" /\ (d0 \notin DOMAIN counts \/ index > Len(frame)) /\ List(Tail(devices))
  BY DEF ListEnd
<1>2. devices \in Seq(Devices(file)) /\ devices # <<>>
  BY <1>1 DEF ListInv
<1>3. Tail(devices) \in Seq(Devices(file))
  BY <1>2
<1>4. ASSUME NEW d \in DOMAIN counts, NEW k \in Kernels
      PROVE  counts[d][k] = Cardinality(Ends(FrameOf(file, d), k))
  <2>1. CASE d # d0
    BY <2>1 DEF ListInv
  <2>2. CASE d = d0
    <3>1. /\ frame = FrameOf(file, d) /\ index \in 1..(Len(frame) + 1) /\ index > Len(frame)
          /\ counts[d][k] = Rank(Ends(frame, k), index - 1)
          /\ file \in Files /\ d \in Devices(file) /\ ~HasEvents(d)
      BY <1>1, <2>2 DEF ListInv, Listed
    <3>2. IsFrame(frame)
      BY <3>1, DeviceFrame
    <3>3. index - 1 = Len(frame)
      <4>1. Len(frame) \in Nat
        BY <3>2, FrameRows
      <4>2. index \in 1..(Len(frame) + 1) /\ index > Len(frame)
        BY <3>1
      <4> QED
        BY ONLY <4>1, <4>2
    <3>4. Ends(frame, k) \in SUBSET (DOMAIN frame)
      BY DEF Ends
    <3>5. Rank(Ends(frame, k), Len(frame)) = Cardinality(Ends(frame, k))
      BY <3>2, <3>4, CountEnds
    <3> QED
      BY <3>1, <3>3, <3>5
  <2> QED
    BY <2>1, <2>2
<1> QED
  BY <1>1, <1>3, <1>4, ListBegins

\* The devices that are listed are those of the banners.
LEMMA ListFileCounts == ASSUME ListInv, ListFile PROVE ListInv'
<1>1. pc = "start" /\ List([n \in DOMAIN Banners |-> Banners[n].device])
  BY DEF ListFile
<1>2. [n \in DOMAIN Banners |-> Banners[n].device] \in Seq(Devices(file))
  <2>1. BannerLines \in SUBSET (1..Len(file)) /\ DOMAIN file = 1..Len(file) /\ Len(file) \in Nat
    <3>1. file \in Seq(FileRow)
      BY FileAssumption DEF ListInv
    <3>2. DOMAIN file = 1..Len(file) /\ Len(file) \in Nat
      BY <3>1, LenProperties
    <3> QED
      BY <3>2 DEF BannerLines
  <2>2. Cardinality(BannerLines) \in Nat
    BY <2>1, Finite
  <2>3. ASSUME NEW n \in 1..Cardinality(BannerLines) PROVE Banners[n].device \in Devices(file)
    <3>1. Nth(BannerLines, n) \in BannerLines
      BY <2>1, NthMember
    <3> QED
      BY <3>1 DEF Banners, BannerLines, Devices
  <2> DEFINE ds == [n \in 1..Cardinality(BannerLines) |-> Banners[n].device]
  <2>4. ds \in Seq(Devices(file))
    BY <2>2, <2>3
  <2>5. DOMAIN Banners = 1..Cardinality(BannerLines)
    BY DEF Banners
  <2> QED
    BY <2>4, <2>5
<1>3. \A d \in DOMAIN counts, k \in Kernels : counts[d][k] = Cardinality(Ends(FrameOf(file, d), k))
  BY <1>1 DEF ListInv
<1> QED
  BY <1>1, <1>2, <1>3, ListBegins

--------------------------------------------------------------------------------
(* The loops of all kernels and of one.                                    *)

LEMMA Product ==
  ASSUME NEW a \in Nat, NEW b \in Nat
  PROVE  a * (b + 1) = a * b + a /\ a * b \in Nat /\ a * 0 = 0
OBVIOUS

\* In a loop.
LEMMA LoopFacts ==
  ASSUME PagesInv, pc \in {"all", "find", "one"}
  PROVE  /\ IsFrame(frame) /\ Len(frame) \in Nat
         /\ index \in Nat /\ 1 <= index /\ index <= Len(frame) + 1
         /\ index <= Len(frame) => index \in 1..Len(frame) /\ index + 1 - 1 = index
         /\ pages \in Seq(Page) /\ options.sets \in Nat /\ options.instance \in Int
<1>1. /\ frame \in Seq(FrameRow) /\ RunsOfOneKernel(frame) /\ Len(frame) \in Nat
      /\ index \in 1..(Len(frame) + 1) /\ index \in Nat /\ 1 <= index
      /\ index <= Len(frame) => index \in 1..Len(frame)
  BY FrameFacts
<1>2. pages \in Seq(Page)
  BY DEF PagesInv
<1>3. index <= Len(frame) + 1 /\ index + 1 - 1 = index
  BY <1>1
<1> QED
  BY <1>1, <1>2, <1>3, InvFacts DEF IsFrame

\* The row after an instance: its name.
LEMMA NameOfRow ==
  ASSUME NEW rows, IsFrame(rows), NEW n \in 1..(Len(rows) + 1), NameBefore(rows, n) # NoName
  PROVE  NameBefore(rows, n) \in Kernels
<1>1. Len(rows) \in Nat /\ \A m \in 1..Len(rows) : ~IsNan(rows[m]) => rows[m].kernel \in Kernels
  BY FrameRows
<1>2. n > 1 /\ ~IsNan(rows[n - 1]) /\ NameBefore(rows, n) = rows[n - 1].kernel
  BY DEF NameBefore
<1>3. n - 1 \in 1..Len(rows)
  <2>1. n \in 1..(Len(rows) + 1) /\ n > 1 /\ Len(rows) \in Nat
    BY <1>1, <1>2
  <2> QED
    BY ONLY <2>1
<1> QED
  BY <1>1, <1>2, <1>3

LEMMA AllCharted == ASSUME PagesInv, ChartedInv, AllRow PROVE ChartedInv'
<1>1. /\ pc = "all" /\ index <= Len(frame) /\ index' = index + 1
      /\ UNCHANGED <<file, options, pc, frame, closed>>
  BY DEF AllRow, shared
<1>2. /\ IsFrame(frame) /\ index \in 1..Len(frame) /\ index + 1 - 1 = index
      /\ pages \in Seq(Page) /\ options.sets \in Nat /\ index \in Nat
  BY <1>1, LoopFacts
<1>3. kernel = NameBefore(frame, index) /\ ChartedInAll /\ closed = FALSE
  BY <1>1 DEF ChartedInv
<1>4. /\ NameBefore(frame, index + 1) = IF IsNan(frame[index]) THEN NoName ELSE frame[index].kernel
      /\ ~IsNan(frame[index]) => kernel \in {NoName, frame[index].kernel}
  BY <1>2, <1>3, NameStep
<1>5. kernel' = NameBefore(frame, index + 1)
  <2>1. kernel' = IF IsNan(frame[index]) THEN NoName
                  ELSE IF kernel = NoName THEN frame[index].kernel ELSE kernel
    BY DEF AllRow, NoName
  <2> QED
    BY <1>4, <2>1
<1>6. ASSUME NEW k \in Kernels
      PROVE  TitledIn(pages', k) = options.sets * Rank(Ends(frame, k), index)
  <2> DEFINE r == Rank(Ends(frame, k), index - 1)
  <2>1. /\ r \in Nat
        /\ Rank(Ends(frame, k), index) = r + (IF IsNan(frame[index]) /\ kernel = k THEN 1 ELSE 0)
    BY <1>2, <1>3, EndsStep
  <2>2. TitledIn(pages, k) = options.sets * r
    BY <1>3 DEF ChartedInAll
  <2>3. k # NoName
    BY KernelAssumption DEF NoName
  <2> HIDE DEF r
  <2>4. CASE IsNan(frame[index])
    <3>1. pages' = More(pages, start, index, kernel)
      BY <2>4 DEF AllRow, More
    <3>2. start \in Nat /\ kernel \in Titles
      <4>1. start \in Nat
        BY <1>1 DEF PagesInv, InAll
      <4>2. index \in 1..(Len(frame) + 1)
        BY <1>2, LoopFacts, <1>1
      <4>3. kernel = NoName \/ kernel \in Kernels
        BY <1>2, <1>3, <4>2, NameOfRow
      <4> QED
        BY <4>1, <4>3 DEF Titles, NoName
    <3>3. /\ TitledIn(pages, k) \in Nat
          /\ TitledIn(pages', k) =
               TitledIn(pages, k) + (IF start < index /\ kernel = k THEN options.sets ELSE 0)
      BY <1>2, <3>1, <3>2, TitledStep
    <3>4. kernel = k => start < index
      <4> SUFFICES ASSUME kernel = k PROVE start < index
        OBVIOUS
      <4>1. kernel # ""
        BY <2>3 DEF NoName
      <4>2. RunUpTo(frame, start, index)
        BY <1>1, <4>1 DEF PagesInv, InAll
      <4> QED
        BY <4>2 DEF RunUpTo
    <3>5. CASE kernel = k
      <4>1. TitledIn(pages', k) = options.sets * r + options.sets
        BY <2>2, <3>3, <3>4, <3>5
      <4>2. Rank(Ends(frame, k), index) = r + 1
        BY <2>1, <2>4, <3>5
      <4> QED
        BY <1>2, <2>1, <4>1, <4>2, Product
    <3>6. CASE kernel # k
      <4>1. TitledIn(pages', k) = options.sets * r
        BY <2>2, <3>3, <3>6
      <4>2. Rank(Ends(frame, k), index) = r
        BY <2>1, <3>6
      <4> QED
        BY <4>1, <4>2
    <3> QED
      BY <3>5, <3>6
  <2>5. CASE ~IsNan(frame[index])
    <3>1. pages' = pages
      BY <2>5 DEF AllRow
    <3>2. Rank(Ends(frame, k), index) = r
      BY <2>1, <2>5
    <3> QED
      BY <2>2, <3>1, <3>2
  <2> QED
    BY <2>4, <2>5
<1>7. \A k \in Kernels : TitledIn(pages', k) = options'.sets * Rank(Ends(frame', k), index' - 1)
  BY <1>1, <1>2, <1>6
<1>8. ChartedInAll'
  BY <1>7 DEF ChartedInAll
<1>9. kernel' = NameBefore(frame', index')
  BY <1>1, <1>5
<1>10. /\ frame' = FrameOf(file', options'.device) /\ options'.device \in Devices(file')
       /\ ~HasEvents(options.device)' /\ options'.known
  BY <1>1 DEF ChartedInv, HasEvents
<1> QED
  BY <1>1, <1>3, <1>8, <1>9, <1>10 DEF ChartedInv

LEMMA OneCharted == ASSUME PagesInv, ChartedInv, OneRow PROVE ChartedInv'
<1> DEFINE K == options.kernel
<1>1. /\ pc = "one" /\ index <= Len(frame) /\ index' = index + 1
      /\ UNCHANGED <<file, options, pc, frame, closed>>
  BY DEF OneRow, shared
<1>2. /\ IsFrame(frame) /\ index \in 1..Len(frame) /\ index + 1 - 1 = index
      /\ pages \in Seq(Page) /\ options.sets \in Nat /\ index \in Nat
  BY <1>1, LoopFacts
<1>3. /\ ChartedInOne /\ closed = FALSE /\ K # NoName /\ options.instance < 1
      /\ counting \in BOOLEAN /\ (counting = FALSE <=> NameBefore(frame, index) = K)
  BY <1>1 DEF ChartedInv
<1>4. /\ NameBefore(frame, index + 1) = IF IsNan(frame[index]) THEN NoName ELSE frame[index].kernel
      /\ ~IsNan(frame[index]) => NameBefore(frame, index) \in {NoName, frame[index].kernel}
  BY <1>2, NameStep
<1>5. /\ counting' \in BOOLEAN
      /\ IsNan(frame[index]) => counting' = TRUE
      /\ ~IsNan(frame[index]) => (counting' = FALSE <=> counting = FALSE \/ frame[index].kernel = K)
  <2>1. CASE IsNan(frame[index])
    BY <1>3, <2>1 DEF OneRow
  <2>2. CASE ~IsNan(frame[index])
    <3>1. counting' = (counting /\ ~(counting /\ frame[index].kernel = K))
      BY <2>2 DEF OneRow
    <3> QED
      BY <1>3, <2>2, <3>1
  <2> QED
    BY <2>1, <2>2
<1>6. counting' = FALSE <=> NameBefore(frame, index + 1) = K
  BY <1>3, <1>4, <1>5
<1>7. ASSUME NEW k \in Kernels
      PROVE  TitledIn(pages', k) = IF k = K THEN options.sets * Rank(Ends(frame, k), index) ELSE 0
  <2> DEFINE r == Rank(Ends(frame, k), index - 1)
  <2>1. /\ r \in Nat
        /\ Rank(Ends(frame, k), index) = r + (IF IsNan(frame[index]) /\ NameBefore(frame, index) = k THEN 1 ELSE 0)
    BY <1>2, EndsStep
  <2>2. TitledIn(pages, k) = IF k = K THEN options.sets * r ELSE 0
    BY <1>3 DEF ChartedInOne
  <2> HIDE DEF r
  <2>4. CASE IsNan(frame[index]) /\ counting = FALSE
    <3>1. pages' = More(pages, start, index, K)
      BY <2>4 DEF OneRow, More
    <3>2. start \in Nat /\ start < index /\ K \in Titles
      <4>1. LoopAt(frame, start, counting, index, K) /\ start # 0
        BY <1>1, <2>4 DEF PagesInv, InLoop
      <4>2. start \in Nat /\ start < index
        BY <4>1 DEF LoopAt, RunUpTo
      <4>3. index \in 1..(Len(frame) + 1)
        BY <1>1, <1>2, LoopFacts
      <4>4. K \in Kernels
        BY <1>2, <1>3, <2>4, <4>3, NameOfRow
      <4> QED
        BY <4>2, <4>4 DEF Titles
    <3>3. /\ TitledIn(pages, k) \in Nat
          /\ TitledIn(pages', k) =
               TitledIn(pages, k) + (IF start < index /\ K = k THEN options.sets ELSE 0)
      BY <1>2, <3>1, <3>2, TitledStep
    <3>5. CASE K = k
      <4>1. TitledIn(pages', k) = options.sets * r + options.sets
        BY <2>2, <3>2, <3>3, <3>5
      <4>2. Rank(Ends(frame, k), index) = r + 1
        BY <1>3, <2>1, <2>4, <3>5
      <4>3. options.sets * (r + 1) = options.sets * r + options.sets
        BY <1>2, <2>1, Product
      <4> QED
        BY <3>5, <4>1, <4>2, <4>3
    <3>6. CASE K # k
      BY <2>2, <3>3, <3>6
    <3> QED
      BY <3>5, <3>6
  <2>5. CASE ~(IsNan(frame[index]) /\ counting = FALSE)
    <3>1. pages' = pages
      BY <1>3, <2>5 DEF OneRow
    <3>2. k = K => Rank(Ends(frame, k), index) = r
      BY <1>3, <2>1, <2>5
    <3> QED
      BY <2>2, <3>1, <3>2
  <2> QED
    BY <2>4, <2>5
<1>8. \A k \in Kernels :
        TitledIn(pages', k) = IF k = options'.kernel THEN options'.sets * Rank(Ends(frame', k), index' - 1) ELSE 0
  BY <1>1, <1>2, <1>7
<1>9. ChartedInOne'
  BY <1>8 DEF ChartedInOne
<1>10. counting' = FALSE <=> NameBefore(frame', index') = options'.kernel
  BY <1>1, <1>6
<1>11. /\ frame' = FrameOf(file', options'.device) /\ options'.device \in Devices(file')
       /\ ~HasEvents(options.device)' /\ options'.known
  BY <1>1 DEF ChartedInv, HasEvents
<1>12. options'.kernel # NoName /\ options'.instance < 1 /\ counting' \in BOOLEAN /\ closed' = FALSE /\ pc' = "one"
  BY <1>1, <1>3, <1>5
<1> QED
  BY <1>9, <1>10, <1>11, <1>12 DEF ChartedInv

--------------------------------------------------------------------------------
(* The loop that looks for an instance.                                    *)

\* The turn of the next kernel; the one before has had its chart if it has
\* enough instances.
LEMMA NextCharted ==
  ASSUME PagesInv, ChartedInv, pc = "find", todo # <<>>, FindNext,
         UNCHANGED <<file, options, pc, frame, closed>>,
         \A k \in Kernels :
           TitledIn(pages', k) =
             IF k = Head(todo)
             THEN IF Cardinality(Begins(frame, k)) >= options.instance THEN options.sets ELSE 0
             ELSE TitledIn(pages, k)
  PROVE  ChartedInv'
<1>1. /\ todo' = Tail(todo) /\ index' = 1 /\ start' = 0 /\ counting' = TRUE /\ instance' = 0
  BY DEF FindNext, Rewound
<1>2. /\ options.instance >= 1 /\ options.instance \in Int /\ IsFrame(frame) /\ closed = FALSE
      /\ \A n \in DOMAIN todo : todo[n] # NoName /\ Asked(todo[n])
      /\ \A m, n \in DOMAIN todo : todo[m] = todo[n] => m = n
      /\ todo \in Seq(Kernels \cup {options.kernel})
      /\ ChartedInFind
  BY LoopFacts DEF ChartedInv
<1>3. /\ Len(todo) \in Nat /\ DOMAIN todo = 1..Len(todo) /\ 1 \in DOMAIN todo /\ Head(todo) = todo[1]
      /\ Tail(todo) \in Seq(Kernels \cup {options.kernel})
      /\ Len(Tail(todo)) = Len(todo) - 1 /\ DOMAIN Tail(todo) = 1..(Len(todo) - 1)
      /\ \A n \in 1..(Len(todo) - 1) : n + 1 \in DOMAIN todo /\ Tail(todo)[n] = todo[n + 1]
  <2>1. todo \in Seq(Kernels \cup {options.kernel}) /\ todo # <<>>
    BY <1>2
  <2>2. Len(todo) \in Nat /\ DOMAIN todo = 1..Len(todo) /\ Len(todo) # 0
    BY <2>1, LenProperties, EmptySeq
  <2>3. Head(todo) = todo[1] /\ Tail(todo) \in Seq(Kernels \cup {options.kernel})
        /\ Len(Tail(todo)) = Len(todo) - 1 /\ \A n \in 1..(Len(todo) - 1) : Tail(todo)[n] = todo[n + 1]
    BY <2>1, HeadTailProperties
  <2>4. DOMAIN Tail(todo) = 1..(Len(todo) - 1)
    BY <2>3, LenProperties
  <2>5. 1 \in DOMAIN todo /\ \A n \in 1..(Len(todo) - 1) : n + 1 \in DOMAIN todo
    BY <2>2
  <2> QED
    BY <2>2, <2>3, <2>4, <2>5
<1>4. ASSUME NEW k PROVE InTodo(k)' <=> InTodo(k) /\ k # Head(todo)
  <2>1. ASSUME NEW n \in DOMAIN Tail(todo), Tail(todo)[n] = k PROVE InTodo(k) /\ k # Head(todo)
    <3>1. n + 1 \in DOMAIN todo /\ todo[n + 1] = k /\ n + 1 # 1
      BY <1>3, <2>1
    <3>2. k # todo[1]
      BY <1>2, <1>3, <3>1
    <3> QED
      BY <1>3, <3>1, <3>2 DEF InTodo
  <2>2. ASSUME InTodo(k), k # Head(todo) PROVE \E n \in DOMAIN Tail(todo) : Tail(todo)[n] = k
    <3>1. PICK n \in DOMAIN todo : todo[n] = k
      BY <2>2 DEF InTodo
    <3>2. n # 1
      BY <1>3, <2>2, <3>1
    <3>3. n - 1 \in 1..(Len(todo) - 1) /\ n - 1 + 1 = n
      <4>1. n \in 1..Len(todo) /\ n # 1 /\ Len(todo) \in Nat
        BY <1>3, <3>2
      <4> QED
        BY ONLY <4>1
    <3> QED
      BY <1>3, <3>1, <3>3
  <2>3. InTodo(k)' <=> \E n \in DOMAIN Tail(todo) : Tail(todo)[n] = k
    BY <1>1 DEF InTodo
  <2> QED
    BY <2>1, <2>2, <2>3
<1>5. InTodo(Head(todo)) /\ Asked(Head(todo))
  BY <1>2, <1>3 DEF InTodo
<1>6. ASSUME NEW k \in Kernels
      PROVE  TitledIn(pages', k) =
               IF Asked(k) /\ ~InTodo(k)' /\ Cardinality(Begins(frame, k)) >= options.instance
               THEN options.sets ELSE 0
  <2>1. CASE k = Head(todo)
    <3>1. Asked(k) /\ ~InTodo(k)'
      BY <1>4, <1>5, <2>1
    <3> QED
      BY <2>1, <3>1
  <2>2. CASE k # Head(todo)
    <3>1. TitledIn(pages', k) = TitledIn(pages, k) /\ (InTodo(k)' <=> InTodo(k))
      BY <1>4, <2>2
    <3> QED
      BY <1>2, <3>1 DEF ChartedInFind
  <2> QED
    BY <2>1, <2>2
<1>7. ChartedInFind'
  <2>1. \A k \in Kernels : Asked(k)' <=> Asked(k)
    BY DEF Asked
  <2> QED
    BY <1>6, <2>1 DEF ChartedInFind
<1>8. /\ \A n \in DOMAIN todo' : todo'[n] # NoName /\ Asked(todo[n])'
      /\ \A m, n \in DOMAIN todo' : todo'[m] = todo'[n] => m = n
  <2>1. ASSUME NEW n \in DOMAIN todo'
        PROVE  n \in Int /\ n + 1 \in DOMAIN todo /\ todo'[n] = todo[n + 1]
    BY <1>1, <1>3
  <2>2. \A n \in DOMAIN todo' : todo'[n] # NoName /\ Asked(todo[n])'
    BY ZenonT(30), <1>2, <2>1 DEF Asked
  <2>3. ASSUME NEW m \in DOMAIN todo', NEW n \in DOMAIN todo', todo'[m] = todo'[n] PROVE m = n
    <3>1. m + 1 = n + 1
      BY <1>2, <2>1, <2>3
    <3>2. m \in Int /\ n \in Int
      BY <2>1
    <3> QED
      BY ONLY <3>1, <3>2
  <2> QED
    BY <2>2, <2>3
<1>9. ASSUME todo' # <<>>
      PROVE  /\ counting' \in BOOLEAN /\ (counting' = FALSE <=> NameBefore(frame', index') = Head(todo'))
             /\ instance' = Rank(Begins(frame', Head(todo')), index' - 1)
             /\ start' = 0 <=> instance' < options'.instance
  <2>1. 1 \in DOMAIN todo' /\ Head(todo') = todo'[1]
    <3>1. todo' \in Seq(Kernels \cup {options.kernel})
      BY <1>1, <1>3
    <3>2. Len(todo') # 0 /\ Len(todo') \in Nat /\ DOMAIN todo' = 1..Len(todo') /\ Head(todo') = todo'[1]
      BY <1>9, <3>1, EmptySeq, LenProperties, HeadTailProperties
    <3> QED
      BY <3>2
  <2>2. Head(todo') # NoName
    BY <1>8, <2>1
  <2>3. NameBefore(frame, 1) = NoName
    BY DEF NameBefore
  <2>4. Begins(frame, Head(todo')) \in SUBSET (DOMAIN frame)
    BY DEF Begins
  <2>5. Rank(Begins(frame, Head(todo')), 0) = 0
    BY <1>2, <2>4, CountEnds
  <2>6. 1 - 1 = 0 /\ 0 < options.instance
    BY <1>2
  <2> QED
    BY <1>1, <2>2, <2>3, <2>5, <2>6
<1>10. /\ frame' = FrameOf(file', options'.device) /\ options'.device \in Devices(file')
       /\ ~HasEvents(options.device)' /\ options'.known
  BY DEF ChartedInv, HasEvents
<1>11. options'.instance >= 1 /\ closed' = FALSE /\ pc' = "find"
       /\ todo' \in Seq(Kernels \cup {options'.kernel})
  BY <1>1, <1>2, <1>3
<1> QED
  BY <1>7, <1>8, <1>9, <1>10, <1>11 DEF ChartedInv

\* The next row of the same kernel's turn.
LEMMA SameCharted ==
  ASSUME ChartedInv, pc = "find", todo # <<>>,
         UNCHANGED <<file, options, pc, frame, closed, todo, pages>>,
         counting' \in BOOLEAN, counting' = FALSE <=> NameBefore(frame, index') = Head(todo),
         instance' = Rank(Begins(frame, Head(todo)), index' - 1),
         start' = 0 <=> instance' < options.instance
  PROVE  ChartedInv'
<1>1. ChartedInFind'
  BY DEF ChartedInv, ChartedInFind, Asked, InTodo
<1>2. /\ frame' = FrameOf(file', options'.device) /\ options'.device \in Devices(file')
      /\ ~HasEvents(options.device)' /\ options'.known
  BY DEF ChartedInv, HasEvents
<1>3. /\ options'.instance >= 1 /\ closed' = FALSE /\ pc' = "find"
      /\ \A n \in DOMAIN todo' : todo'[n] # NoName /\ Asked(todo[n])'
      /\ \A m, n \in DOMAIN todo' : todo'[m] = todo'[n] => m = n
      /\ todo' \in Seq(Kernels \cup {options'.kernel})
  BY DEF ChartedInv, Asked
<1> QED
  BY <1>1, <1>2, <1>3 DEF ChartedInv

LEMMA FindCharted == ASSUME PagesInv, ChartedInv, FindRow \/ FindEnd PROVE ChartedInv'
<1> DEFINE K == Head(todo)
           i0 == options.instance
<1>1. /\ pc = "find" /\ todo # <<>>
      /\ UNCHANGED <<file, options, pc, frame, closed>>
  BY DEF FindRow, FindEnd, shared
<1>2. /\ IsFrame(frame) /\ Len(frame) \in Nat /\ index \in Nat /\ 1 <= index /\ index <= Len(frame) + 1
      /\ index <= Len(frame) => index \in 1..Len(frame) /\ index + 1 - 1 = index
      /\ pages \in Seq(Page) /\ options.sets \in Nat /\ i0 \in Int
  BY <1>1, LoopFacts
<1>3. /\ counting \in BOOLEAN /\ (counting = FALSE <=> NameBefore(frame, index) = K)
      /\ instance = Rank(Begins(frame, K), index - 1)
      /\ start = 0 <=> instance < i0
      /\ ChartedInFind
  BY <1>1 DEF ChartedInv
<1>4. K # NoName /\ InTodo(K)
  <2>1. todo \in Seq(Kernels \cup {options.kernel}) /\ \A n \in DOMAIN todo : todo[n] # NoName
    BY <1>1 DEF ChartedInv
  <2>2. 1 \in DOMAIN todo /\ K = todo[1]
    <3>1. Len(todo) # 0 /\ Len(todo) \in Nat /\ DOMAIN todo = 1..Len(todo) /\ K = todo[1]
      BY <1>1, <2>1, EmptySeq, LenProperties, HeadTailProperties
    <3> QED
      BY <3>1
  <2> QED
    BY <2>1, <2>2 DEF InTodo
<1>5. LoopAt(frame, start, counting, index, K)
  BY <1>1 DEF PagesInv, InLoop
<1>6. instance \in Nat /\ instance <= Cardinality(Begins(frame, K)) /\ Cardinality(Begins(frame, K)) \in Nat
      /\ (index > Len(frame) => instance = Cardinality(Begins(frame, K)))
  <2>1. Begins(frame, K) \in SUBSET (DOMAIN frame)
    BY DEF Begins
  <2>2. Cardinality(Begins(frame, K)) \in Nat /\ Rank(Begins(frame, K), Len(frame)) = Cardinality(Begins(frame, K))
    BY <1>2, <2>1, CountEnds
  <2>3. CASE index > Len(frame)
    <3>1. index - 1 = Len(frame)
      BY <1>2, <2>3
    <3> QED
      BY <1>3, <2>2, <3>1
  <2>4. CASE ~(index > Len(frame))
    <3>1. index \in 1..Len(frame)
      BY <1>2, <2>4
    <3>2. /\ Rank(Begins(frame, K), index - 1) \in Nat
          /\ Rank(Begins(frame, K), index) =
               Rank(Begins(frame, K), index - 1) +
               (IF ~IsNan(frame[index]) /\ frame[index].kernel = K /\ NameBefore(frame, index) # K THEN 1 ELSE 0)
          /\ Rank(Begins(frame, K), index) <= Cardinality(Begins(frame, K))
      BY <1>2, <3>1, BeginsStep
    <3> QED
      BY <1>3, <2>2, <2>4, <3>2
  <2> QED
    BY <2>3, <2>4
\* The chart of the instance.
<1>7. ASSUME pages' = pages \o Chart(start, index, K), start # 0, FindNext
      PROVE  ChartedInv'
  <2>1. start \in Nat /\ start < index /\ frame[start].kernel = K /\ start \in 1..Len(frame) /\ ~IsNan(frame[start])
    <3>1. start \in Nat /\ RunUpTo(frame, start, index) /\ frame[start].kernel = K
      BY <1>5, <1>7 DEF LoopAt
    <3>2. 1 <= start /\ start < index /\ start \in start..(index - 1)
      BY <1>2, <3>1 DEF RunUpTo
    <3>3. start \in 1..Len(frame)
      BY <1>2, <3>1, <3>2
    <3> QED
      BY <1>7, <3>1, <3>2, <3>3 DEF RunUpTo
  <2>2. K \in Kernels
    BY <1>2, <2>1, FrameRows
  <2>3. instance >= i0
    BY <1>2, <1>3, <1>6, <1>7
  <2>4. Cardinality(Begins(frame, K)) >= i0
    BY <1>2, <1>6, <2>3
  <2>5. TitledIn(pages, K) = 0
    BY <1>3, <1>4, <2>2 DEF ChartedInFind
  <2>6. ASSUME NEW k \in Kernels
        PROVE  TitledIn(pages', k) =
                 IF k = K
                 THEN IF Cardinality(Begins(frame, k)) >= i0 THEN options.sets ELSE 0
                 ELSE TitledIn(pages, k)
    <3>1. /\ TitledIn(pages, k) \in Nat
          /\ TitledIn(pages', k) =
               TitledIn(pages, k) + (IF start < index /\ K = k THEN options.sets ELSE 0)
      <4>1. K \in Titles
        BY <2>2 DEF Titles
      <4>2. pages' = More(pages, start, index, K)
        BY <1>7 DEF More
      <4>3. start \in Nat /\ index \in Nat /\ pages \in Seq(Page) /\ options.sets \in Nat
        BY <1>2, <2>1
      <4> HIDE DEF K
      <4> QED
        BY <4>1, <4>2, <4>3, TitledStep
    <3>2. CASE k = K
      BY <1>2, <2>1, <2>4, <2>5, <3>1, <3>2
    <3>3. CASE k # K
      BY <3>1, <3>3
    <3> QED
      BY <3>2, <3>3
  <2> QED
    BY <1>1, <1>7, <2>6, NextCharted
<1>8. CASE FindRow /\ IsNan(frame[index]) /\ start # 0
  BY <1>2, <1>7, <1>8 DEF FindRow
<1>9. CASE FindRow /\ IsNan(frame[index]) /\ start = 0
  <2>1. /\ counting' = TRUE /\ index' = index + 1 /\ index <= Len(frame)
        /\ UNCHANGED <<todo, start, instance, pages>>
    BY <1>9 DEF FindRow
  <2>2. index \in 1..Len(frame) /\ index + 1 - 1 = index
    BY <1>2, <2>1
  <2>3. NameBefore(frame, index + 1) = NoName
    BY <1>2, <1>9, <2>2, NameStep
  <2>4. Rank(Begins(frame, K), index) = Rank(Begins(frame, K), index - 1)
    BY <1>2, <1>9, <2>2, BeginsStep
  <2> QED
    BY <1>1, <1>3, <1>4, <2>1, <2>2, <2>3, <2>4, SameCharted
<1>10. CASE FindRow /\ ~IsNan(frame[index])
  <2> DEFINE new == counting /\ frame[index].kernel = K
  <2>1. /\ index' = index + 1 /\ index <= Len(frame)
        /\ instance' = (IF new THEN instance + 1 ELSE instance)
        /\ counting' = (counting /\ ~new)
        /\ start' = (IF new /\ instance' = i0 THEN index ELSE start)
        /\ todo' = todo /\ pages' = pages
    BY <1>10 DEF FindRow
  <2>2. index \in 1..Len(frame) /\ index + 1 - 1 = index /\ index # 0
    BY <1>2, <2>1
  <2>3. /\ NameBefore(frame, index + 1) = frame[index].kernel
        /\ NameBefore(frame, index) \in {NoName, frame[index].kernel}
    BY <1>2, <1>10, <2>2, NameStep
  <2>4. Rank(Begins(frame, K), index) =
          Rank(Begins(frame, K), index - 1) +
          (IF frame[index].kernel = K /\ NameBefore(frame, index) # K THEN 1 ELSE 0)
    BY <1>2, <1>10, <2>2, BeginsStep
  <2>5. new <=> frame[index].kernel = K /\ NameBefore(frame, index) # K
    BY <1>3
  <2>6. counting' \in BOOLEAN /\ (counting' = FALSE <=> NameBefore(frame, index + 1) = K)
    BY <1>3, <1>4, <2>1, <2>3
  <2>7. instance' = Rank(Begins(frame, K), index) /\ instance' \in Nat
    <3>1. CASE new
      BY <1>3, <1>6, <2>1, <2>4, <2>5, <3>1
    <3>2. CASE ~new
      BY <1>3, <1>6, <2>1, <2>4, <2>5, <3>2
    <3> QED
      BY <3>1, <3>2
  <2>8. start' = 0 <=> instance' < i0
    <3>1. CASE new
      <4>1. start = 0
        BY <1>5, <3>1 DEF LoopAt
      <4>2. instance < i0 /\ instance' = instance + 1 /\ start' = (IF instance' = i0 THEN index ELSE start)
        BY <1>3, <2>1, <3>1, <4>1
      <4> QED
        BY <1>2, <1>6, <2>2, <4>1, <4>2
    <3>2. CASE ~new
      BY <1>3, <2>1, <3>2
    <3> QED
      BY <3>1, <3>2
  <2>9. instance' = Rank(Begins(frame, K), index' - 1) /\ (counting' = FALSE <=> NameBefore(frame, index') = K)
    BY <2>1, <2>2, <2>6, <2>7
  <2> HIDE DEF new
  <2> QED
    BY <1>1, <2>1, <2>6, <2>8, <2>9, SameCharted
<1>11. CASE FindEnd
  <2>1. /\ pages' = (IF start = 0 THEN pages ELSE pages \o Chart(start, Len(frame) + 1, K))
        /\ FindNext /\ index > Len(frame)
    BY <1>11 DEF FindEnd
  <2>2. index = Len(frame) + 1
    BY <1>2, <2>1
  <2>3. CASE start # 0
    <3>1. pages' = pages \o Chart(start, index, K)
      BY <2>1, <2>2, <2>3
    <3> QED
      BY <1>7, <2>1, <2>3, <3>1
  <2>4. CASE start = 0
    <3>1. ~(Cardinality(Begins(frame, K)) >= i0)
      <4>1. instance < i0 /\ instance = Cardinality(Begins(frame, K))
        BY <1>3, <1>6, <2>1, <2>4
      <4> QED
        BY <1>2, <1>6, <4>1
    <3>2. K \in Kernels => TitledIn(pages, K) = 0
      BY <1>3, <1>4 DEF ChartedInFind
    <3>3. pages' = pages
      BY <2>1, <2>4
    <3> QED
      BY <1>1, <2>1, <3>1, <3>2, <3>3, NextCharted
  <2> QED
    BY <2>3, <2>4
<1> QED
  BY <1>8, <1>9, <1>10, <1>11

--------------------------------------------------------------------------------
(* The kernels it looks for.                                               *)

\* df['Kernel'].unique() has each kernel of the frame once.
LEMMA UniqueKernels ==
  ASSUME NEW rows, IsFrame(rows)
  PROVE  /\ Unique(rows) \in Seq(Kernels)
         /\ \A m, n \in DOMAIN Unique(rows) : Unique(rows)[m] = Unique(rows)[n] => m = n
         /\ \A k \in Kernels : Begins(rows, k) # {} => \E n \in DOMAIN Unique(rows) : Unique(rows)[n] = k
<1> DEFINE S == Firsts(rows)
           firsts == InOrder(S)
           U == Unique(rows)
<1>1. /\ Len(rows) \in Nat /\ DOMAIN rows = 1..Len(rows)
      /\ \A n \in 1..Len(rows) : ~IsNan(rows[n]) => rows[n].kernel \in Kernels
  BY FrameRows
<1>2. /\ S \in SUBSET (1..Len(rows))
      /\ \A n \in S : /\ ~IsNan(rows[n])
                      /\ \A m \in 1..(n - 1) : IsNan(rows[m]) \/ rows[m].kernel # rows[n].kernel
      /\ \A n \in 1..Len(rows) :
           /\ ~IsNan(rows[n])
           /\ \A m \in 1..(n - 1) : IsNan(rows[m]) \/ rows[m].kernel # rows[n].kernel
           => n \in S
  BY <1>1 DEF Firsts
<1> HIDE DEF S
<1>3. /\ Cardinality(S) \in Nat /\ DOMAIN firsts = 1..Cardinality(S)
      /\ \A i \in 1..Cardinality(S) : firsts[i] \in S
      /\ \A i, j \in 1..Cardinality(S) : i < j => firsts[i] < firsts[j]
      /\ \A n \in S : \E i \in 1..Cardinality(S) : firsts[i] = n
  BY <1>1, <1>2, InOrderCorrect, ZenonT(30)
<1> HIDE DEF firsts
<1>4. U = [i \in 1..Cardinality(S) |-> rows[firsts[i]].kernel]
  BY <1>3 DEF firsts, S, Unique
<1> HIDE DEF U
<1>5. \A i \in 1..Cardinality(S) : rows[firsts[i]].kernel \in Kernels
  BY <1>1, <1>2, <1>3
<1>6. U \in Seq(Kernels) /\ DOMAIN U = 1..Cardinality(S)
  BY <1>3, <1>4, <1>5
\* The first row of a kernel is before any other of it.
<1>7. ASSUME NEW m \in DOMAIN U, NEW n \in DOMAIN U, m < n PROVE U[m] # U[n]
  <2>1. /\ firsts[m] \in S /\ firsts[n] \in S /\ firsts[m] < firsts[n]
        /\ U[m] = rows[firsts[m]].kernel /\ U[n] = rows[firsts[n]].kernel
    BY <1>3, <1>4, <1>6, <1>7
  <2>2. firsts[m] \in 1..(firsts[n] - 1)
    <3>1. firsts[m] \in 1..Len(rows) /\ firsts[n] \in 1..Len(rows)
      BY <1>2, <2>1
    <3>2. firsts[m] < firsts[n]
      BY <2>1
    <3> QED
      BY ONLY <3>1, <3>2, <1>1
  <2>3. ~IsNan(rows[firsts[m]])
    BY <1>2, <2>1
  <2> QED
    BY <1>2, <2>1, <2>2, <2>3
<1>8. \A m, n \in DOMAIN U : U[m] = U[n] => m = n
  <2> SUFFICES ASSUME NEW m \in DOMAIN U, NEW n \in DOMAIN U, U[m] = U[n] PROVE m = n
    OBVIOUS
  <2>1. m \in 1..Cardinality(S) /\ n \in 1..Cardinality(S)
    BY <1>6
  <2>2. m < n \/ n < m \/ m = n
    BY ONLY <2>1, <1>3
  <2> QED
    BY <1>7, <2>2
\* Of the rows of k one is the first.
<1>9. ASSUME NEW k \in Kernels, Begins(rows, k) # {} PROVE \E n \in DOMAIN U : U[n] = k
  <2> DEFINE T == {n \in 1..Len(rows) : ~IsNan(rows[n]) /\ rows[n].kernel = k}
  <2>1. T # {} /\ T \in SUBSET Nat
    BY <1>1, <1>9 DEF Begins
  <2>2. PICK n \in T : \A m \in T : n <= m
    <3> HIDE DEF T
    <3> QED
      BY <2>1, LeastNat
  <2>3. n \in 1..Len(rows) /\ ~IsNan(rows[n]) /\ rows[n].kernel = k
    BY <2>2
  <2>4. ASSUME NEW m \in 1..(n - 1) PROVE IsNan(rows[m]) \/ rows[m].kernel # rows[n].kernel
    <3>1. m \in 1..Len(rows) /\ ~(n <= m)
      BY <1>1, <2>3
    <3>2. m \notin T
      BY <2>2, <3>1
    <3> QED
      BY <2>3, <3>1, <3>2
  <2>5. n \in S
    BY <1>2, <2>3, <2>4
  <2>6. PICK i \in 1..Cardinality(S) : firsts[i] = n
    BY <1>3, <2>5
  <2>7. i \in DOMAIN U /\ U[i] = k
    BY <1>4, <1>6, <2>3, <2>6
  <2> QED
    BY <2>7
<1>10. Unique(rows) \in Seq(Kernels)
  BY <1>6 DEF U
<1>11. \A m, n \in DOMAIN Unique(rows) : Unique(rows)[m] = Unique(rows)[n] => m = n
  BY <1>8 DEF U
<1> QED
  BY <1>9, <1>10, <1>11 DEF U

LEMMA SeqMore == ASSUME NEW S, NEW s \in Seq(S), NEW x PROVE s \in Seq(S \cup {x})
<1>1. Len(s) \in Nat /\ s = [i \in 1..Len(s) |-> s[i]] /\ \A i \in 1..Len(s) : s[i] \in S
  BY LenProperties, ElementOfSeq
<1>2. \A i \in 1..Len(s) : s[i] \in S \cup {x}
  BY <1>1
<1> QED
  BY <1>1, <1>2

\* What AnalyzePerfMetrics looks for.
LEMMA AskedKernels ==
  ASSUME NEW rows, IsFrame(rows), NEW ks,
         options.kernel = NoName => ks = Unique(rows), options.kernel # NoName => ks = <<options.kernel>>
  PROVE  /\ ks \in Seq(Kernels \cup {options.kernel})
         /\ \A n \in DOMAIN ks : ks[n] # NoName /\ Asked(ks[n])
         /\ \A m, n \in DOMAIN ks : ks[m] = ks[n] => m = n
         /\ \A k \in Kernels : Asked(k) /\ Begins(rows, k) # {} => \E n \in DOMAIN ks : ks[n] = k
<1>1. CASE options.kernel = NoName
  <2>1. /\ ks \in Seq(Kernels)
        /\ \A m, n \in DOMAIN ks : ks[m] = ks[n] => m = n
        /\ \A k \in Kernels : Begins(rows, k) # {} => \E n \in DOMAIN ks : ks[n] = k
    BY <1>1, UniqueKernels
  <2>2. \A n \in DOMAIN ks : ks[n] \in Kernels
    BY <2>1, LenProperties, ElementOfSeq
  <2>3. \A k \in Kernels : k # NoName /\ Asked(k)
    <3>1. \A k \in Kernels : k # NoName
      BY KernelAssumption DEF NoName
    <3>2. options.kernel = ""
      BY <1>1 DEF NoName
    <3>3. \A k \in Kernels : Asked(k)
      BY <3>2, Zenon DEF Asked
    <3> QED
      BY <3>1, <3>3
  <2>4. ks \in Seq(Kernels \cup {options.kernel})
    BY <2>1, SeqMore
  <2> QED
    BY <2>1, <2>2, <2>3, <2>4
<1>2. CASE options.kernel # NoName
  <2>1. ks = <<options.kernel>>
    BY <1>2
  <2>2. ks \in Seq(Kernels \cup {options.kernel}) /\ DOMAIN ks = {1} /\ ks[1] = options.kernel
    BY <2>1
  <2>3. Asked(options.kernel)
    BY Zenon DEF Asked
  <2>4. \A k \in Kernels : Asked(k) => k = options.kernel
    <3>1. options.kernel # ""
      BY <1>2 DEF NoName
    <3> QED
      BY <3>1, Zenon DEF Asked
  <2> QED
    BY <1>2, <2>2, <2>3, <2>4
<1> QED
  BY <1>1, <1>2

\* A kernel that is not looked for has no instance.
LEMMA FindBegins ==
  ASSUME IsFrame(frame'), options.instance \in Int, options.instance >= 1,
         UNCHANGED <<file, options>>, AnalyzePerfMetrics,
         \A k \in Kernels : TitledIn(pages', k) = 0
  PROVE  /\ todo' \in Seq(Kernels \cup {options.kernel})
         /\ \A n \in DOMAIN todo' : todo'[n] # NoName /\ Asked(todo'[n])
         /\ \A m, n \in DOMAIN todo' : todo'[m] = todo'[n] => m = n
         /\ ChartedInFind'
<1>1. /\ options.kernel = NoName => todo' = Unique(frame')
      /\ options.kernel # NoName => todo' = <<options.kernel>>
  BY DEF AnalyzePerfMetrics, NoName
<1>2. /\ todo' \in Seq(Kernels \cup {options.kernel})
      /\ \A n \in DOMAIN todo' : todo'[n] # NoName /\ Asked(todo'[n])
      /\ \A m, n \in DOMAIN todo' : todo'[m] = todo'[n] => m = n
      /\ \A k \in Kernels : Asked(k) /\ Begins(frame', k) # {} => \E n \in DOMAIN todo' : todo'[n] = k
  BY <1>1, AskedKernels
<1>3. ASSUME NEW k \in Kernels
      PROVE  TitledIn(pages', k) =
               IF Asked(k)' /\ ~InTodo(k)' /\ Cardinality(Begins(frame', k)) >= options'.instance
               THEN options'.sets ELSE 0
  <2> SUFFICES ASSUME Asked(k)', ~InTodo(k)' PROVE ~(Cardinality(Begins(frame', k)) >= options'.instance)
    OBVIOUS
  <2>1. Asked(k)
    BY DEF Asked
  <2>2. Begins(frame', k) = {}
    BY <1>2, <2>1 DEF InTodo
  <2>3. Cardinality({}) = 0
    BY FS_EmptySet
  <2>4. ~(0 >= options.instance)
    OBVIOUS
  <2> QED
    BY <2>2, <2>3, <2>4
<1>4. ChartedInFind'
  BY <1>3 DEF ChartedInFind
<1> QED
  BY <1>2, <1>4

LEMMA PlotCharted ==
  ASSUME PagesInv, ListInv, ChartedInv, Plot
  PROVE  ChartedInv' /\ ListInv' /\ ListedAreCharted'
<1>1. /\ UNCHANGED <<file, options, devices, counts, pages, closed>>
      /\ pc = "start" /\ pages = <<>> /\ closed = FALSE
      /\ options.device \in Devices(file)
      /\ options.sets \in Nat /\ options.instance \in Int
  BY InvFacts DEF Plot, AnalyzeStallMetrics, AnalyzePerfMetrics, PagesInv, ChartedInv, Refused
<1>2. CASE HasEvents(options.device)
  <2>1. pc' \in {"ended", "stalls", "stall"}
    BY <1>2 DEF Plot, AnalyzeStallMetrics
  <2>2. HasEvents(options.device)'
    BY <1>1, <1>2 DEF HasEvents
  <2>3. options'.device \notin DOMAIN counts'
    BY <1>1, <1>2 DEF ListInv
  <2> QED
    BY <1>1, <2>1, <2>2, <2>3, ListKept DEF ChartedInv, ListedAreCharted
<1>3. CASE ~HasEvents(options.device)
  <2>1. AnalyzePerfMetrics /\ frame' = FrameOf(file, options.device)
    BY <1>3 DEF Plot, AnalyzePerfMetrics
  <2>2. frame' \in Seq(FrameRow) /\ RunsOfOneKernel(frame')
    BY <1>1, <1>3, <2>1, DeviceFrame DEF IsFrame, ListInv
  <2>3. /\ pc' \in {"ended", "find", "all", "one"}
        /\ pc' = "ended" <=> ~options.known
        /\ pc' = "find" => options.instance >= 1
        /\ pc' = "one" => options.kernel # NoName /\ ~(options.instance >= 1)
        /\ pc' = "find" => start' = 0
    <3>1. /\ pc' \in {"ended", "find", "all", "one"}
          /\ pc' = "ended" <=> ~options.known
          /\ pc' = "find" => options.instance >= 1
      BY <2>1 DEF AnalyzePerfMetrics
    <3>2. pc' = "one" => options.kernel # NoName /\ ~(options.instance >= 1)
      BY <2>1 DEF AnalyzePerfMetrics, NoName
    <3>3. options.instance >= 1 => ~(options.instance < 1)
      BY <1>1
    <3>4. options.instance >= 1 => start' = 0
      BY <2>1, <3>3 DEF AnalyzePerfMetrics, Rewound
    <3> QED
      BY <3>1, <3>2, <3>4
  <2>4. ListInv'
    BY <1>1, <2>3, ListKept
  <2>5. CASE ~options.known
    BY <1>1, <2>3, <2>4, <2>5 DEF ChartedInv, ListedAreCharted
  <2>6. CASE options.known
    <3>1. /\ options'.device \in Devices(file') /\ ~HasEvents(options.device)' /\ options'.known
          /\ frame' = FrameOf(file', options'.device) /\ closed' = FALSE
      BY <1>1, <1>3, <2>1, <2>6 DEF HasEvents
    <3>2. /\ index' = 1 /\ kernel' = NoName /\ counting' = TRUE /\ instance' = 0 /\ IsFrame(frame')
          /\ NameBefore(frame', 1) = NoName
      <4>1. index' = 1 /\ kernel' = "" /\ counting' = TRUE /\ instance' = 0
        BY <2>1 DEF AnalyzePerfMetrics, Rewound
      <4>2. NameBefore(frame', 1) = NoName
        BY DEF NameBefore
      <4> QED
        BY <2>2, <4>1, <4>2 DEF NoName, IsFrame
    <3>3. \A k : /\ TitledIn(pages', k) = 0
                 /\ Rank(Ends(frame', k), 0) = 0 /\ Rank(Begins(frame', k), 0) = 0
      <4> TAKE k
      <4>1. TitledIn(pages', k) = 0
        BY <1>1, TitledNone
      <4>2. Ends(frame', k) \in SUBSET (DOMAIN frame') /\ Begins(frame', k) \in SUBSET (DOMAIN frame')
        BY DEF Ends, Begins
      <4>3. Rank(Ends(frame', k), 0) = 0 /\ Rank(Begins(frame', k), 0) = 0
        BY <3>2, <4>2, CountEnds
      <4> QED
        BY <4>1, <4>3
    <3>4. index' - 1 = 0 /\ options'.sets * 0 = 0
      BY <1>1, <3>2, Product
    <3>5. CASE pc' = "all"
      <4>1. ChartedInAll'
        BY <3>3, <3>4 DEF ChartedInAll
      <4>2. kernel' = NameBefore(frame', index')
        BY <3>2
      <4> QED
        BY <2>4, <3>1, <3>5, <4>1, <4>2 DEF ChartedInv, ListedAreCharted
    <3>6. CASE pc' = "one"
      <4>1. ChartedInOne'
        BY <3>3, <3>4 DEF ChartedInOne
      <4>2. options'.kernel # NoName /\ ~(options'.instance >= 1)
        BY <1>1, <2>3, <3>6
      <4>3. options'.instance < 1
        <5>1. options'.instance \in Int
          BY <1>1
        <5> QED
          BY <4>2, <5>1
      <4>4. counting' \in BOOLEAN /\ (counting' = FALSE <=> NameBefore(frame', index') = options'.kernel)
        BY <3>2, <4>2
      <4> QED
        BY <2>4, <3>1, <3>6, <4>1, <4>2, <4>3, <4>4 DEF ChartedInv, ListedAreCharted
    <3>7. CASE pc' = "find"
      <4>1. /\ todo' \in Seq(Kernels \cup {options.kernel})
            /\ \A n \in DOMAIN todo' : todo'[n] # NoName /\ Asked(todo'[n])
            /\ \A m, n \in DOMAIN todo' : todo'[m] = todo'[n] => m = n
            /\ ChartedInFind'
        BY <1>1, <2>1, <2>3, <3>2, <3>3, <3>7, FindBegins
      <4>2. \A n \in DOMAIN todo' : Asked(todo[n])'
        BY <1>1, <4>1 DEF Asked
      <4>3. options'.instance >= 1 /\ ~(0 >= options'.instance) /\ 0 < options'.instance
        <5>1. options'.instance \in Int /\ options'.instance >= 1
          BY <1>1, <2>3, <3>7
        <5> QED
          BY <5>1
      <4>4. ASSUME todo' # <<>>
            PROVE  /\ counting' \in BOOLEAN /\ (counting' = FALSE <=> NameBefore(frame', index') = Head(todo'))
                   /\ instance' = Rank(Begins(frame', Head(todo')), index' - 1)
                   /\ start' = 0 <=> instance' < options'.instance
        <5>1. 1 \in DOMAIN todo' /\ Head(todo') = todo'[1]
          <6>1. Len(todo') # 0 /\ Len(todo') \in Nat /\ DOMAIN todo' = 1..Len(todo') /\ Head(todo') = todo'[1]
            BY <4>1, <4>4, EmptySeq, LenProperties, HeadTailProperties
          <6> QED
            BY <6>1
        <5>2. Head(todo') # NoName
          BY <4>1, <5>1
        <5> QED
          BY <2>3, <3>2, <3>3, <3>4, <3>7, <4>3, <5>2
      <4>5. todo' \in Seq(Kernels \cup {options'.kernel})
        BY <1>1, <4>1
      <4> QED
        BY <2>4, <3>1, <3>7, <4>1, <4>2, <4>3, <4>4, <4>5 DEF ChartedInv, ListedAreCharted
    <3> QED
      BY <2>3, <2>6, <3>5, <3>6, <3>7
  <2> QED
    BY <2>5, <2>6
<1> QED
  BY <1>2, <1>3

--------------------------------------------------------------------------------
(* The end of the loops.                                                   *)

\* The last row.
LEMMA EndsInName ==
  ASSUME NEW rows, IsFrame(rows), rows = frame, NEW k, k # NoName
  PROVE  EndsIn(k) <=> NameBefore(rows, Len(rows) + 1) = k
<1>1. Len(rows) \in Nat /\ rows \in Seq(FrameRow)
  BY FrameRows DEF IsFrame
<1>2. CASE rows = <<>>
  <2>1. Len(rows) = 0
    BY <1>2
  <2>2. NameBefore(rows, Len(rows) + 1) = NoName
    BY <2>1 DEF NameBefore
  <2> QED
    BY <1>2, <2>2 DEF EndsIn
<1>3. CASE rows # <<>>
  <2>1. Len(rows) \in 1..Len(rows)
    <3>1. Len(rows) # 0
      BY <1>1, <1>3, EmptySeq
    <3> QED
      BY <1>1, <3>1
  <2>2. NameBefore(rows, Len(rows) + 1) = IF IsNan(rows[Len(rows)]) THEN NoName ELSE rows[Len(rows)].kernel
    BY <2>1, NameStep
  <2>3. Last(rows) = rows[Len(rows)]
    BY DEF Last
  <2> QED
    BY <1>3, <2>2, <2>3 DEF EndsIn
<1> QED
  BY <1>2, <1>3

\* Instances of k that are charted, when n are listed and one more may be at the end.
Due(k, n) ==
  IF ~Asked(k) THEN 0
  ELSE IF options.instance < 1 THEN n
  ELSE IF n + (IF EndsIn(k) THEN 1 ELSE 0) >= options.instance THEN 1 ELSE 0

LEMMA Finished ==
  ASSUME UNCHANGED <<options, counts, frame, pages>>,
         options.device \in DOMAIN counts /\ frame # <<>> =>
           /\ \A k \in Kernels : TitledIn(pages, k) = options.sets * Due(k, counts[options.device][k])
           /\ pc' = "failed" <=> options.instance < 1 /\ options.kernel # NoName /\ EndsIn(options.kernel)
           /\ closed' = (pc' = "ended" /\ pages # <<>>)
  PROVE  ListedAreCharted'
<1>1. \A k : Titled(k)' = TitledIn(pages, k) /\ (EndsIn(k)' <=> EndsIn(k))
  BY DEF Titled, TitledIn, EndsIn
<1>2. \A k, n : Due(k, n) = IF options.kernel \notin {k, ""} THEN 0
                         ELSE IF options.instance < 1 THEN n
                         ELSE IF n + (IF EndsIn(k) THEN 1 ELSE 0) >= options.instance THEN 1 ELSE 0
  BY DEF Due, Asked
<1>3. SUFFICES ASSUME options.device \in DOMAIN counts, frame # <<>>
               PROVE  /\ \A k \in Kernels :
                           Titled(k)' = options'.sets *
                             IF options'.kernel \notin {k, ""} THEN 0
                             ELSE IF options'.instance < 1 THEN counts'[options'.device][k]
                             ELSE IF counts'[options'.device][k] + (IF EndsIn(k)' THEN 1 ELSE 0) >= options'.instance
                             THEN 1 ELSE 0
                      /\ (pc' = "failed") = (options'.instance < 1 /\ options'.kernel # "" /\ EndsIn(options.kernel)')
                      /\ closed' = (pc' = "ended" /\ pages' # <<>>)
  BY DEF ListedAreCharted
<1>4. ASSUME NEW k \in Kernels
      PROVE  Titled(k)' = options'.sets *
               IF options'.kernel \notin {k, ""} THEN 0
               ELSE IF options'.instance < 1 THEN counts'[options'.device][k]
               ELSE IF counts'[options'.device][k] + (IF EndsIn(k)' THEN 1 ELSE 0) >= options'.instance
               THEN 1 ELSE 0
  BY <1>1, <1>2, <1>3
<1>5. (pc' = "failed") = (options'.instance < 1 /\ options'.kernel # "" /\ EndsIn(options.kernel)')
  BY <1>1, <1>3, Zenon DEF NoName
<1>6. closed' = (pc' = "ended" /\ pages' # <<>>)
  BY <1>3
<1> QED
  BY <1>4, <1>5, <1>6

\* At the end of a loop every instance of a kernel that is asked for is charted.
LEMMA AtEnd ==
  ASSUME PagesInv, ListInv, ChartedInv, pc \in {"all", "one"} => index > Len(frame), pc = "find" => todo = <<>>,
         pc \in {"all", "find", "one"}, options.device \in DOMAIN counts, NEW k \in Kernels
  PROVE  TitledIn(pages, k) = options.sets * Due(k, counts[options.device][k])
<1> DEFINE n == counts[options.device][k]
<1>1. /\ IsFrame(frame) /\ Len(frame) \in Nat /\ options.sets \in Nat /\ options.instance \in Int
      /\ pc \in {"all", "one"} => index - 1 = Len(frame)
  BY LoopFacts
<1>2. /\ frame = FrameOf(file, options.device)
      /\ options.instance >= 1 => ~(options.instance < 1)
  BY <1>1 DEF ChartedInv
<1>3. n = Cardinality(Ends(frame, k)) /\ n \in Nat
  <2>1. n = Cardinality(Ends(FrameOf(file, options.device), k)) /\ counts[options.device] \in [Kernels -> Nat]
    BY DEF ListInv
  <2> QED
    BY <1>2, <2>1
<1>4. Rank(Ends(frame, k), Len(frame)) = n
  <2>1. Ends(frame, k) \in SUBSET (DOMAIN frame)
    BY DEF Ends
  <2> QED
    BY <1>1, <1>3, <2>1, CountEnds
<1>5. k # NoName
  BY KernelAssumption DEF NoName
<1>6. options.sets * 0 = 0 /\ options.sets * 1 = options.sets
  BY <1>1
<1> HIDE DEF n
<1>7. CASE pc = "all"
  <2>1. options.kernel = "" /\ options.instance < 1 /\ ChartedInAll
    BY <1>7 DEF PagesInv, InAll, ChartedInv
  <2>2. Asked(k)
    BY <2>1, Zenon DEF Asked
  <2>3. Due(k, n) = n
    BY <2>1, <2>2 DEF Due
  <2>4. TitledIn(pages, k) = options.sets * n
    BY <1>1, <1>4, <1>7, <2>1 DEF ChartedInAll
  <2> QED
    BY <2>3, <2>4 DEF n
<1>8. CASE pc = "one"
  <2>1. options.kernel # NoName /\ options.instance < 1 /\ ChartedInOne
    BY <1>8 DEF ChartedInv
  <2>2. Asked(k) <=> k = options.kernel
    BY <2>1, Zenon DEF Asked, NoName
  <2>3. Due(k, n) = IF k = options.kernel THEN n ELSE 0
    BY <2>1, <2>2 DEF Due
  <2>4. TitledIn(pages, k) = IF k = options.kernel THEN options.sets * n ELSE 0
    BY <1>1, <1>4, <1>8, <2>1 DEF ChartedInOne
  <2> QED
    BY <1>6, <2>3, <2>4 DEF n
<1>9. CASE pc = "find"
  <2>1. options.instance >= 1 /\ ChartedInFind /\ todo = <<>>
    BY <1>9 DEF ChartedInv
  <2>2. ~InTodo(k)
    BY <2>1 DEF InTodo
  <2>3. Cardinality(Begins(frame, k)) = n + (IF EndsIn(k) THEN 1 ELSE 0)
    <3>1. EndsIn(k) <=> NameBefore(frame, Len(frame) + 1) = k
      BY <1>1, <1>5, EndsInName
    <3> QED
      BY <1>1, <1>3, <3>1, BeganOrEnded
  <2>4. TitledIn(pages, k) =
          IF Asked(k) /\ n + (IF EndsIn(k) THEN 1 ELSE 0) >= options.instance THEN options.sets ELSE 0
    BY <2>1, <2>2, <2>3 DEF ChartedInFind
  <2>5. Due(k, n) = IF Asked(k) /\ n + (IF EndsIn(k) THEN 1 ELSE 0) >= options.instance THEN 1 ELSE 0
    BY <1>2, <2>1 DEF Due
  <2> QED
    BY <1>6, <2>4, <2>5 DEF n
<1> QED
  BY <1>7, <1>8, <1>9

LEMMA EndCharted ==
  ASSUME PagesInv, ListInv, ChartedInv, Close \/ OneUnterminated
  PROVE  ChartedInv' /\ ListInv' /\ ListedAreCharted'
<1>1. /\ UNCHANGED <<file, options, devices, counts, frame, pages>>
      /\ pc \in {"all", "find", "one"} /\ pc' \in {"ended", "failed"}
      /\ pc \in {"all", "one"} => index > Len(frame)
      /\ pc = "find" => todo = <<>>
      /\ pc' = "ended" => (pc = "one" => start = 0) /\ closed' = (pages # <<>>)
      /\ pc' = "failed" => pc = "one" /\ start # 0 /\ closed' = closed
  <2>1. CASE Close
    BY <2>1 DEF Close, loop
  <2>2. CASE OneUnterminated
    BY <2>2 DEF OneUnterminated, charts
  <2> QED
    BY <2>1, <2>2
<1>2. ChartedInv' /\ ListInv'
  BY <1>1, ListKept DEF ChartedInv
<1>3. /\ IsFrame(frame) /\ Len(frame) \in Nat /\ options.instance \in Int
      /\ pc = "one" => index = Len(frame) + 1
  BY <1>1, LoopFacts
<1>4. closed' = (pc' = "ended" /\ pages # <<>>)
  <2>1. closed = FALSE
    BY <1>1 DEF ChartedInv
  <2>2. CASE pc' = "ended"
    <3>1. closed' = (pages # <<>>)
      BY <1>1, <2>2
    <3> QED
      BY <2>2, <3>1, Zenon
  <2>3. CASE pc' = "failed"
    <3>1. closed' = FALSE /\ pc' # "ended"
      BY <1>1, <2>1, <2>3
    <3> QED
      BY <3>1, Zenon
  <2> QED
    BY <1>1, <2>2, <2>3
<1>5. pc' = "failed" <=> options.instance < 1 /\ options.kernel # NoName /\ EndsIn(options.kernel)
  <2>1. CASE pc = "one"
    <3>1. /\ options.kernel # NoName /\ options.instance < 1 /\ counting \in BOOLEAN
          /\ (counting = FALSE <=> NameBefore(frame, Len(frame) + 1) = options.kernel)
      BY <1>3, <2>1 DEF ChartedInv
    <3>2. EndsIn(options.kernel) <=> NameBefore(frame, Len(frame) + 1) = options.kernel
      BY <1>3, <3>1, EndsInName
    <3>3. counting = FALSE <=> start # 0
      <4>1. counting = FALSE => start # 0
        BY <2>1 DEF PagesInv
      <4>2. start # 0 => counting = FALSE
        BY <2>1 DEF PagesInv, InLoop, LoopAt
      <4> QED
        BY <4>1, <4>2
    <3>4. pc' = "failed" <=> start # 0
      BY <1>1, <2>1
    <3> QED
      BY <3>1, <3>2, <3>3, <3>4
  <2>2. CASE pc = "all"
    <3>1. options.kernel = NoName /\ pc' # "failed"
      BY <1>1, <2>2 DEF PagesInv, InAll, NoName
    <3> QED
      BY <3>1
  <2>3. CASE pc = "find"
    <3>1. options.instance >= 1 /\ pc' # "failed"
      BY <1>1, <2>3 DEF ChartedInv
    <3> QED
      BY <1>3, <3>1
  <2> QED
    BY <1>1, <2>1, <2>2, <2>3
<1>6. options.device \in DOMAIN counts =>
        \A k \in Kernels : TitledIn(pages, k) = options.sets * Due(k, counts[options.device][k])
  BY <1>1, AtEnd
<1>7. ListedAreCharted'
  BY <1>1, <1>4, <1>5, <1>6, Finished
<1> QED
  BY <1>2, <1>7

\* Anything else: the charts of stall events, the server, and what ends the
\* script before a chart.
LEMMA OtherCharted ==
  ASSUME CountInv,
         \/ Refuse \/ Serve
         \/ StallsRow \/ StallsEnd \/ StallRow \/ StallEnd
         \/ /\ UNCHANGED charts
            /\ ScanRow \/ StartServer \/ TrySection \/ Interrupt \/ \E r \in Requests : DoGet(r)
  PROVE  ChartedInv' /\ ListInv' /\ ListedAreCharted'
<1> PagesInv /\ ListInv /\ ChartedInv /\ ListedAreCharted
  BY DEF CountInv
<1>1. CASE Refuse \/ Serve
  <2>1. /\ pc = "start" /\ pc' \in {"ended", "scan"}
        /\ UNCHANGED <<file, options, devices, counts, frame, closed>>
    BY <1>1 DEF Refuse, Serve, PerfMetricsHTTPServer, charts
  <2>2. frame = <<>>
    BY <2>1 DEF ChartedInv
  <2> QED
    BY <2>1, <2>2, ListKept DEF ChartedInv, ListedAreCharted
<1>2. CASE StallsRow \/ StallsEnd \/ StallRow \/ StallEnd
  <2>1. /\ UNCHANGED <<file, options, devices, counts, frame, pages>>
        /\ pc \in {"stalls", "stall"} /\ pc' \in {"stalls", "stall", "ended", "failed"}
    BY <1>2 DEF StallsRow, StallsEnd, StallRow, StallEnd, PlotStalls, shared
  <2>2. HasEvents(options.device) /\ HasEvents(options.device)'
    BY <2>1 DEF ChartedInv, HasEvents
  <2>3. options'.device \notin DOMAIN counts'
    BY <2>1, <2>2 DEF ListInv
  <2> QED
    BY <2>1, <2>2, <2>3, ListKept DEF ChartedInv, ListedAreCharted
<1>3. CASE /\ UNCHANGED charts
           /\ ScanRow \/ StartServer \/ TrySection \/ Interrupt \/ \E r \in Requests : DoGet(r)
  <2>1. UNCHANGED <<file, options, devices, counts, frame, pages, closed>>
    BY <1>3 DEF charts, ScanRow, StartServer, TrySection, Interrupt, DoGet, shared
  <2>2. pc' \in {"scan", "failed", "ended", "serve", "get"} /\ pc \in {"scan", "serve", "get"}
    BY <1>3 DEF ScanRow, StartServer, TrySection, Interrupt, DoGet, shared
  <2>3. frame = <<>>
    BY <2>2 DEF ChartedInv
  <2> QED
    BY <2>1, <2>2, <2>3, ListKept DEF ChartedInv, ListedAreCharted
<1> QED
  BY <1>1, <1>2, <1>3

\* In the loops, and in List.
LEMMA Unfinished ==
  ASSUME pc' \notin {"ended", "failed"} PROVE ListedAreCharted'
BY DEF ListedAreCharted

LEMMA ChartedInit == Init => CountInv
<1> SUFFICES ASSUME Init PROVE CountInv
  OBVIOUS
<1>1. /\ file \in Files /\ pc = "start" /\ devices = <<>> /\ counts = <<>> /\ frame = <<>> /\ closed = FALSE
  BY DEF Init, ChartsInit
<1>2. devices \in Seq(Devices(file)) /\ DOMAIN counts = {}
  BY <1>1, EmptySeq
<1>3. ListInv
  BY <1>1, <1>2 DEF ListInv
<1>4. ChartedInv /\ ListedAreCharted
  BY <1>1 DEF ChartedInv, ListedAreCharted
<1> QED
  BY <1>3, <1>4, PagesInit DEF CountInv

LEMMA ChartedStutter == ASSUME CountInv, UNCHANGED vars PROVE ChartedInv' /\ ListInv' /\ ListedAreCharted'
<1>1. /\ UNCHANGED <<file, options, pc, devices, counts, frame, todo, pages, closed>>
      /\ index' = index /\ start' = start /\ kernel' = kernel /\ counting' = counting /\ instance' = instance
  BY DEF vars, shared, charts, loop
<1>2. ListInv'
  BY <1>1 DEF CountInv, ListInv, Listed, HasEvents
<1>3. ChartedInAll' = ChartedInAll /\ ChartedInOne' = ChartedInOne /\ ChartedInFind' = ChartedInFind
  BY <1>1 DEF ChartedInAll, ChartedInOne, ChartedInFind, Asked, InTodo
<1>4. ChartedInv'
  BY <1>1, <1>3 DEF CountInv, ChartedInv, HasEvents, Asked
<1>5. ListedAreCharted'
  BY <1>1 DEF CountInv, ListedAreCharted, Titled, EndsIn
<1> QED
  BY <1>2, <1>4, <1>5

LEMMA ChartsStep == CountInv /\ [Next]_vars => CountInv'
<1> SUFFICES ASSUME CountInv, [Next]_vars PROVE CountInv'
  OBVIOUS
<1> PagesInv /\ ListInv /\ ChartedInv /\ ListedAreCharted
  BY DEF CountInv
<1>k. SUFFICES ChartedInv' /\ ListInv' /\ ListedAreCharted'
  BY PagesStep DEF CountInv
<1>1. CASE ListFile \/ ListRow \/ ListEnd
  <2>1. pc' \in {"start", "list"} /\ closed' = closed /\ pc \in {"start", "list"}
    BY <1>1 DEF ListFile, ListRow, ListEnd, List, shared
  <2>2. pc' = "start" => frame' = <<>>
    <3>1. CASE ListRow
      BY <3>1 DEF ListRow, shared
    <3>2. CASE ListFile \/ ListEnd
      BY <3>2 DEF ListFile, ListEnd, List
    <3> QED
      BY <1>1, <3>1, <3>2
  <2>3. ChartedInv'
    BY <2>1, <2>2 DEF ChartedInv
  <2> QED
    BY <1>1, <2>1, <2>3, Unfinished, ListRowCounts, ListEndCounts, ListFileCounts
<1>2. CASE Plot
  BY <1>2, PlotCharted
<1>3. CASE AllRow \/ FindRow \/ FindEnd \/ OneRow
  <2>1. UNCHANGED <<file, devices, counts, pc>> /\ pc \in {"all", "find", "one"}
    BY <1>3 DEF AllRow, FindRow, FindEnd, OneRow, shared
  <2>2. ListInv' /\ ListedAreCharted'
    BY <2>1, ListKept, Unfinished
  <2> QED
    BY <1>3, <2>2, AllCharted, OneCharted, FindCharted
<1>4. CASE Close \/ OneUnterminated
  BY <1>4, EndCharted
<1>5. CASE \/ Refuse \/ Serve
           \/ StallsRow \/ StallsEnd \/ StallRow \/ StallEnd
           \/ /\ UNCHANGED charts
              /\ ScanRow \/ StartServer \/ TrySection \/ Interrupt \/ \E r \in Requests : DoGet(r)
  BY <1>5, OtherCharted
<1>6. CASE UNCHANGED vars
  BY <1>6, ChartedStutter
<1> QED
  BY <1>1, <1>2, <1>3, <1>4, <1>5, <1>6 DEF Next

\* What -l lists of a device is what is plotted of it: as many charts for a set
\* of metrics as the list counts instances of the kernels asked for, and the
\* chart of instance i if the list, with an instance that no blank row ends, has
\* i of them; that instance is what ends the script in the loop of one kernel,
\* and the PDF is complete if nothing did.
THEOREM ListedCorrect == Spec => []ListedAreCharted
<1>1. CountInv => ListedAreCharted
  BY DEF CountInv
<1> QED
  BY <1>1, ChartedInit, ChartsStep, PTL DEF Spec

--------------------------------------------------------------------------------
(* What the server answers.                                                *)

Count == Cardinality(BannerLines)
Line(i) == Nth(BannerLines, i)
Limit(i) == IF i < Count THEN Line(i + 1) ELSE Len(file) + 1
DeviceAt(i) == Banners[i].device

\* The least member of a set of lines.
LEMMA LeastLine ==
  ASSUME NEW S \in SUBSET Nat, NEW n \in S
  PROVE  Min(S) \in S /\ (\A m \in S : Min(S) <= m)
<1>1. \E x \in S : \A y \in S : x <= y
  BY LeastNat
<1> QED
  BY <1>1 DEF Min

LEMMA FileShape ==
  ASSUME file \in Files, file # <<>>
  PROVE  /\ Len(file) \in Nat /\ DOMAIN file = 1..Len(file)
         /\ Count \in Nat /\ Count >= 1 /\ DOMAIN Banners = 1..Count
         /\ \A i \in 1..Count : /\ Line(i) \in 1..Len(file) /\ IsBanner(file[Line(i)])
                                /\ Banners[i] = file[Line(i)]
         /\ \A i, j \in 1..Count : i < j => Line(i) < Line(j)
         /\ \A n \in 1..Len(file) : IsBanner(file[n]) => \E i \in 1..Count : Line(i) = n
         /\ \A n \in 1..Len(file) : file[n] \in FileRow
         /\ Sectioned(file)
<1>1. file \in Seq(FileRow) /\ Sectioned(file)
  BY FileAssumption
<1>2. /\ Len(file) \in Nat /\ DOMAIN file = 1..Len(file)
      /\ \A n \in 1..Len(file) : file[n] \in FileRow
  BY <1>1, LenProperties, ElementOfSeq
<1>3. BannerLines \in SUBSET (1..Len(file))
  BY <1>2 DEF BannerLines
<1>4. /\ Count \in Nat
      /\ DOMAIN InOrder(BannerLines) = 1..Count
      /\ \A i \in 1..Count : InOrder(BannerLines)[i] \in BannerLines
      /\ \A i, j \in 1..Count : i < j => InOrder(BannerLines)[i] < InOrder(BannerLines)[j]
      /\ \A n \in BannerLines : \E i \in 1..Count : InOrder(BannerLines)[i] = n
  BY <1>2, <1>3, InOrderCorrect DEF Count
<1>5. \A i \in 1..Count : InOrder(BannerLines)[i] = Line(i)
  BY DEF InOrder, Line, Count
<1>6. /\ \A i \in 1..Count : Line(i) \in BannerLines
      /\ \A i, j \in 1..Count : i < j => Line(i) < Line(j)
      /\ \A n \in BannerLines : \E i \in 1..Count : Line(i) = n
  BY <1>4, <1>5
<1>7. DOMAIN Banners = 1..Count /\ \A i \in 1..Count : Banners[i] = file[Line(i)]
  BY DEF Banners, Count, Line
<1>8. Count >= 1
  <2>1. PICK n \in DOMAIN file : IsBanner(file[n])
    BY <1>1 DEF Sectioned
  <2>2. n \in BannerLines
    BY <2>1 DEF BannerLines
  <2>3. PICK i \in 1..Count : Line(i) = n
    BY <1>6, <2>2
  <2> QED
    BY <1>4, <2>3
<1>9. \A i \in 1..Count : Line(i) \in 1..Len(file) /\ IsBanner(file[Line(i)])
  BY <1>2, <1>6 DEF BannerLines
<1>10. \A n \in 1..Len(file) : IsBanner(file[n]) => \E i \in 1..Count : Line(i) = n
  BY <1>2, <1>6 DEF BannerLines
<1> QED
  BY <1>1, <1>2, <1>4, <1>6, <1>7, <1>8, <1>9, <1>10

LEMMA LimitType ==
  ASSUME file \in Files, file # <<>>, NEW i \in 1..Count
  PROVE  /\ Limit(i) \in Nat /\ Line(i) \in Nat /\ Line(i) < Limit(i) /\ Limit(i) <= Len(file) + 1
         /\ \A n \in 1..Len(file) : Line(i) < n /\ n < Limit(i) => ~IsBanner(file[n])
<1> USE FileShape
<1>1. Count \in Nat /\ Len(file) \in Nat /\ i \in Nat
  OBVIOUS
<1>2. \A j \in 1..Count : Line(j) \in Nat /\ Line(j) <= Len(file)
  <2>1. \A n \in 1..Len(file) : n \in Nat /\ n <= Len(file)
    OBVIOUS
  <2> QED
    BY <2>1
<1>3. i < Count => i + 1 \in 1..Count /\ i < i + 1
  BY <1>1
<1>4. Limit(i) \in Nat /\ Line(i) < Limit(i) /\ Limit(i) <= Len(file) + 1
  <2>1. CASE i < Count
    <3>1. Limit(i) = Line(i + 1) /\ Line(i) < Line(i + 1) /\ Line(i + 1) \in Nat /\ Line(i + 1) <= Len(file)
      BY <1>2, <1>3, <2>1 DEF Limit
    <3> QED
      BY <1>1, <3>1
  <2>2. CASE ~(i < Count)
    <3>1. Limit(i) = Len(file) + 1 /\ Line(i) \in Nat /\ Line(i) <= Len(file)
      BY <1>2, <2>2 DEF Limit
    <3> QED
      BY <1>1, <3>1
  <2> QED
    BY <2>1, <2>2
<1>5. ASSUME NEW n \in 1..Len(file), Line(i) < n, n < Limit(i), IsBanner(file[n]) PROVE FALSE
  <2>1. PICK k \in 1..Count : Line(k) = n
    BY <1>5
  <2>2. k > i
    <3>1. k < i => Line(k) < Line(i)
      OBVIOUS
    <3>2. Line(i) \in Nat /\ Line(k) \in Nat
      BY <1>2
    <3>3. ~(k < i) /\ k # i
      BY <1>5, <2>1, <3>1, <3>2
    <3> QED
      BY <1>1, <3>3
  <2>3. i < Count /\ i + 1 \in 1..Count /\ (i + 1 < k \/ i + 1 = k)
    BY <1>1, <2>2
  <2>4. Limit(i) = Line(i + 1)
    BY <2>3 DEF Limit
  <2>5. i + 1 < k => Line(i + 1) < Line(k)
    BY <2>3
  <2>6. Line(i + 1) \in Nat /\ Line(k) \in Nat
    BY <1>2, <2>3
  <2> QED
    BY <1>5, <2>1, <2>3, <2>4, <2>5, <2>6
<1> QED
  BY <1>2, <1>4, <1>5

\* The section of each device: from its one header line to the next banner.
LEMMA SectionShape ==
  ASSUME file \in Files, file # <<>>, NEW i \in 1..Count
  PROVE  /\ BannerOf(file, DeviceAt(i)) = Line(i)
         /\ LastOf(file, DeviceAt(i)) = Limit(i)
         /\ HeaderOf(file, DeviceAt(i)) \in 1..Len(file) /\ IsHeader(file[HeaderOf(file, DeviceAt(i))])
         /\ Line(i) < HeaderOf(file, DeviceAt(i)) /\ HeaderOf(file, DeviceAt(i)) < Limit(i)
         /\ \A n \in 1..Len(file) :
              IsHeader(file[n]) /\ Line(i) < n /\ n < Limit(i) => n = HeaderOf(file, DeviceAt(i))
<1> DEFINE d == DeviceAt(i)
           l == Line(i)
<1>1. /\ Len(file) \in Nat /\ DOMAIN file = 1..Len(file) /\ Sectioned(file)
      /\ l \in 1..Len(file) /\ IsBanner(file[l]) /\ file[l] \in FileRow /\ Banners[i] = file[l]
      /\ l \in Nat /\ Limit(i) \in Nat /\ l < Limit(i) /\ Limit(i) <= Len(file) + 1
      /\ \A n \in 1..Len(file) : l < n /\ n < Limit(i) => ~IsBanner(file[n])
  BY FileShape, LimitType
<1>2. file[l] = Banner(d)
  BY <1>1 DEF FileRow, FrameRow, SampleRow, BlankRow, IsBanner, Banner, DeviceAt
<1>3. \A m \in DOMAIN file : file[m] = file[l] => m = l
  BY <1>1 DEF Sectioned
<1>4. BannerOf(file, d) = l
  <2> HIDE DEF d, l
  <2> QED
    BY <1>1, <1>2, <1>3 DEF BannerOf
<1> HIDE DEF d, l
<1>5. LastOf(file, d) = Limit(i)
  <2> DEFINE S == {n \in DOMAIN file : n > l /\ IsBanner(file[n])} \cup {Len(file) + 1}
  <2>1. S \in SUBSET Nat /\ Len(file) + 1 \in S
    BY <1>1
  <2>2. Limit(i) \in S
    <3>1. CASE i < Count
      <4>1. i + 1 \in 1..Count
        BY FileShape, <3>1
      <4>2. Limit(i) = Line(i + 1) /\ Line(i + 1) \in 1..Len(file) /\ IsBanner(file[Line(i + 1)])
        BY FileShape, <3>1, <4>1 DEF Limit
      <4> QED
        BY <1>1, <4>2
    <3>2. CASE ~(i < Count)
      BY <3>2 DEF Limit
    <3> QED
      BY <3>1, <3>2
  <2>3. \A n \in S : Limit(i) <= n
    <3>1. ASSUME NEW n \in S, ~(Limit(i) <= n) PROVE FALSE
      <4>1. n \in Nat /\ n < Limit(i) /\ n # Len(file) + 1
        BY <1>1, <2>1, <3>1
      <4> QED
        BY <1>1, <3>1, <4>1
    <3> QED
      BY <3>1
  <2>4. LastOf(file, d) = Min(S)
    BY <1>4 DEF LastOf
  <2> HIDE DEF S
  <2>5. Min(S) \in S /\ \A m \in S : Min(S) <= m
    BY <2>1, LeastLine
  <2>6. Min(S) <= Limit(i) /\ Limit(i) <= Min(S) /\ Min(S) \in Nat
    BY <2>1, <2>2, <2>3, <2>5
  <2> QED
    BY <1>1, <2>4, <2>6
<1> DEFINE H == {n \in DOMAIN file : n > l /\ IsHeader(file[n])}
           h == HeaderOf(file, d)
<1>6. PICK g \in DOMAIN file : /\ g > l /\ IsHeader(file[g])
                               /\ \A m \in (l + 1)..g : ~IsBanner(file[m])
  BY <1>1 DEF Sectioned
<1>7. h \in 1..Len(file) /\ h > l /\ IsHeader(file[h]) /\ h <= g
  <2>1. H \in SUBSET Nat /\ g \in H /\ h = Min(H)
    BY <1>1, <1>4, <1>6 DEF HeaderOf
  <2>2. Min(H) \in H /\ \A m \in H : Min(H) <= m
    <3> HIDE DEF H
    <3> QED
      BY <2>1, LeastLine
  <2> QED
    BY <1>1, <2>1, <2>2
<1> HIDE DEF h, H
<1>8. h < Limit(i)
  <2>1. CASE i < Count
    <3>1. i + 1 \in 1..Count
      BY FileShape, <2>1
    <3>2. Limit(i) = Line(i + 1) /\ IsBanner(file[Line(i + 1)])
      BY FileShape, <2>1, <3>1 DEF Limit
    <3>3. Limit(i) \notin (l + 1)..g
      BY <1>6, <3>2
    <3> QED
      BY <1>1, <1>6, <1>7, <3>3
  <2>2. CASE ~(i < Count)
    BY <1>1, <1>7, <2>2 DEF Limit
  <2> QED
    BY <2>1, <2>2
<1>9. ASSUME NEW n \in 1..Len(file), IsHeader(file[n]), l < n, n < Limit(i) PROVE n = h
  <2>1. ASSUME NEW a \in 1..Len(file), NEW b \in 1..Len(file), a < b, l < a, b < Limit(i),
               IsHeader(file[a]), IsHeader(file[b])
        PROVE  FALSE
    <3>1. PICK m \in a..b : IsBanner(file[m])
      BY <1>1, <2>1 DEF Sectioned
    <3>2. m \in 1..Len(file) /\ l < m /\ m < Limit(i)
      BY <1>1, <2>1
    <3> QED
      BY <1>1, <3>1, <3>2
  <2>2. ~(n < h) /\ ~(h < n)
    BY <1>7, <1>8, <1>9, <2>1
  <2> QED
    BY <1>1, <1>7, <2>2
<1>10. l < h
  BY <1>1, <1>7
<1> QED
  BY <1>4, <1>5, <1>7, <1>8, <1>9, <1>10 DEF d, h, l

\* The banners met by the scan: two for each section, one more if it is in one.
Met == 2 * Len(sections) + (IF devicefound THEN 1 ELSE 0)
SectionSet == {SectionOf(DeviceAt(i)) : i \in 1..Count}
HeaderAt(i) == HeaderOf(file, DeviceAt(i))

ScanOk ==
  /\ linenum \in 1..(Len(file) + 1) /\ devicefound \in BOOLEAN /\ sections \in Seq(SectionSet)
  /\ Met <= Count
  /\ Met > 0 => Line(Met) < linenum /\ (HeaderAt(Met) < linenum => header = HeaderAt(Met))
  /\ Met < Count => linenum <= Line(Met + 1)
  /\ \A j \in 1..Len(sections) : sections[j] = SectionOf(DeviceAt(2 * j - 1))

\* Which device a section that is kept is of.
At(j) == IF j < Len(sections) THEN 2 * j - 1 ELSE Count
SectionsOk ==
  /\ sections \in Seq(SectionSet) /\ Len(sections) >= 1
  /\ Count = 2 * Len(sections) - 2 \/ Count = 2 * Len(sections) - 1
  /\ \A j \in 1..Len(sections) : sections[j] = SectionOf(DeviceAt(At(j)))

LEMMA MetType ==
  ASSUME sections \in Seq(SectionSet), devicefound \in BOOLEAN
  PROVE  /\ Len(sections) \in Nat /\ Met \in Nat
         /\ devicefound => Met = 2 * Len(sections) + 1
         /\ ~devicefound => Met = 2 * Len(sections)
<1>1. Len(sections) \in Nat
  BY LenProperties
<1>2. devicefound => Met = 2 * Len(sections) + 1
  BY Zenon DEF Met
<1>3. ~devicefound => Met = 2 * Len(sections) + 0
  BY Zenon DEF Met
<1>4. devicefound \/ ~devicefound
  OBVIOUS
<1>5. 2 * Len(sections) + 1 \in Nat /\ 2 * Len(sections) + 0 = 2 * Len(sections) /\ 2 * Len(sections) \in Nat
  BY ONLY <1>1
<1> QED
  BY ONLY <1>1, <1>2, <1>3, <1>4, <1>5, Zenon

LEMMA MetTypePrime ==
  ASSUME sections' \in Seq(SectionSet'), devicefound' \in BOOLEAN
  PROVE  /\ devicefound' => Met' = 2 * Len(sections') + 1
         /\ ~devicefound' => Met' = 2 * Len(sections')
<1>1. Len(sections') \in Nat
  BY LenProperties
<1>2. devicefound' => Met' = 2 * Len(sections') + 1
  BY Zenon DEF Met
<1>3. ~devicefound' => Met' = 2 * Len(sections') + 0
  BY Zenon DEF Met
<1>4. 2 * Len(sections') + 0 = 2 * Len(sections')
  BY ONLY <1>1
<1> QED
  BY ONLY <1>2, <1>3, <1>4, Zenon

LEMMA ScanBegins ==
  ASSUME file \in Files, file # <<>>, linenum = 1, devicefound = FALSE, sections = <<>>
  PROVE  ScanOk
<1>1. Len(sections) = 0 /\ sections \in Seq(SectionSet) /\ devicefound \in BOOLEAN /\ ~devicefound
  <2>1. Len(<<>>) = 0 /\ <<>> \in Seq(SectionSet)
    BY EmptySeq
  <2>2. devicefound \in BOOLEAN /\ ~devicefound
    BY Zenon
  <2> QED
    BY <2>1, <2>2
<1>2. Met = 0
  <2>1. Met = 2 * 0
    BY <1>1, MetType
  <2> QED
    BY <2>1
<1>3. /\ Count \in Nat /\ Count >= 1 /\ Len(file) \in Nat
      /\ \A i \in 1..Count : Line(i) \in 1..Len(file)
  BY FileShape
<1>4. linenum \in 1..(Len(file) + 1) /\ Met <= Count /\ ~(Met > 0)
  BY <1>2, <1>3
<1>5. linenum <= Line(Met + 1)
  <2>1. 1 \in 1..Count /\ 0 + 1 = 1
    BY <1>3
  <2> QED
    BY <1>2, <1>3, <2>1
<1>6. 1..0 = {}
  OBVIOUS
<1> QED
  BY <1>1, <1>4, <1>5, <1>6 DEF ScanOk

\* A line that is no banner.
LEMMA ScanLine ==
  ASSUME file \in Files, file # <<>>, ScanOk, linenum \in 1..Len(file), ~IsBanner(file[linenum]),
         UNCHANGED <<file, devicefound, sections>>, linenum' = linenum + 1,
         header' = IF IsHeader(file[linenum]) THEN linenum ELSE header
  PROVE  ScanOk'
<1>1. Met' = Met /\ Count' = Count /\ \A i : Line(i)' = Line(i) /\ HeaderAt(i)' = HeaderAt(i)
  BY DEF Met, Count, Line, HeaderAt, DeviceAt, Banners, BannerLines
<1>2. /\ SectionSet' = SectionSet
      /\ \A j : SectionOf(DeviceAt(2 * j - 1))' = SectionOf(DeviceAt(2 * j - 1))
  BY DEF SectionSet, SectionOf, DeviceAt, Count, Banners, BannerLines
<1>3. Met \in Nat /\ Met <= Count /\ Count \in Nat /\ Len(file) \in Nat
  BY MetType, FileShape DEF ScanOk
<1>4. linenum' \in 1..(Len(file) + 1)
  BY <1>3
<1>5. ASSUME Met < Count PROVE linenum' <= Line(Met + 1)
  <2>1. Met + 1 \in 1..Count
    BY <1>3, <1>5
  <2>2. linenum <= Line(Met + 1) /\ IsBanner(file[Line(Met + 1)]) /\ Line(Met + 1) \in 1..Len(file)
    BY <1>5, <2>1, FileShape DEF ScanOk
  <2>3. linenum # Line(Met + 1)
    BY <2>2
  <2> QED
    BY <1>3, <2>2, <2>3
<1>6. ASSUME Met > 0 PROVE Line(Met) < linenum' /\ (HeaderAt(Met) < linenum' => header' = HeaderAt(Met))
  <2>1. Met \in 1..Count
    BY <1>3, <1>6
  <2>2. Line(Met) < linenum /\ (HeaderAt(Met) < linenum => header = HeaderAt(Met))
    BY <1>6 DEF ScanOk
  <2>3. /\ Line(Met) \in Nat /\ HeaderAt(Met) \in 1..Len(file) /\ IsHeader(file[HeaderAt(Met)])
        /\ \A n \in 1..Len(file) :
             IsHeader(file[n]) /\ Line(Met) < n /\ n < Limit(Met) => n = HeaderAt(Met)
    BY <2>1, SectionShape, LimitType DEF HeaderAt
  <2>4. linenum < Limit(Met)
    <3>1. CASE Met < Count
      <4>1. Limit(Met) = Line(Met + 1)
        BY <3>1 DEF Limit
      <4>2. linenum' <= Line(Met + 1) /\ Met + 1 \in 1..Count
        BY <1>3, <1>5, <3>1
      <4>3. Line(Met + 1) \in 1..Len(file)
        BY <4>2, FileShape
      <4> QED
        BY <1>3, <4>1, <4>2, <4>3
    <3>2. CASE ~(Met < Count)
      BY <1>3, <3>2 DEF Limit
    <3> QED
      BY <3>1, <3>2
  <2>5. CASE IsHeader(file[linenum])
    <3>1. linenum = HeaderAt(Met) /\ header' = linenum
      BY <2>2, <2>3, <2>4, <2>5
    <3>2. Line(Met) < linenum'
      BY <1>3, <2>2, <2>3
    <3> QED
      BY <3>1, <3>2
  <2>6. CASE ~IsHeader(file[linenum])
    <3>1. header' = header /\ HeaderAt(Met) # linenum
      BY <2>3, <2>6
    <3>2. Line(Met) < linenum' /\ (HeaderAt(Met) < linenum' => HeaderAt(Met) < linenum)
      BY <1>3, <2>2, <2>3, <3>1
    <3> QED
      BY <2>2, <3>1, <3>2
  <2> QED
    BY <2>5, <2>6
<1>7. /\ devicefound' \in BOOLEAN /\ sections' \in Seq(SectionSet)
      /\ \A j \in 1..Len(sections') : sections'[j] = SectionOf(DeviceAt(2 * j - 1))
  BY DEF ScanOk
<1>8. Met' <= Count' /\ (Met' > 0 => Line(Met)' < linenum' /\ (HeaderAt(Met)' < linenum' => header' = HeaderAt(Met)'))
      /\ (Met' < Count' => linenum' <= Line(Met + 1)')
  <2>1. Line(Met)' = Line(Met) /\ HeaderAt(Met)' = HeaderAt(Met) /\ Line(Met + 1)' = Line(Met + 1)
    BY <1>1 DEF Line, HeaderAt, DeviceAt, Banners, BannerLines, Met
  <2> QED
    BY <1>1, <1>3, <1>5, <1>6, <2>1
<1> QED
  BY <1>2, <1>4, <1>7, <1>8 DEF ScanOk

LEMMA Appended ==
  ASSUME NEW S, NEW s \in Seq(S), NEW e \in S, NEW t, t = Append(s, e)
  PROVE  /\ t \in Seq(S) /\ Len(s) \in Nat /\ Len(t) = Len(s) + 1
         /\ \A n \in 1..Len(s) : t[n] = s[n]
         /\ t[Len(s) + 1] = e
<1>1. Len(s) \in Nat
  BY LenProperties
<1>2. /\ Append(s, e) \in Seq(S) /\ Len(Append(s, e)) = Len(s) + 1
      /\ \A n \in 1..Len(s) : Append(s, e)[n] = s[n]
      /\ Append(s, e)[Len(s) + 1] = e
  BY AppendProperties
<1> QED
  BY <1>1, <1>2, Zenon

\* The last index of a sequence that is one longer.
LEMMA LastIndex ==
  ASSUME NEW n \in Nat, NEW m, m = n + 1, NEW j \in 1..m, j \notin 1..n
  PROVE  j = n + 1 /\ 2 * j - 1 = 2 * n + 1
OBVIOUS

\* What a step leaves as it was.
LEMMA SameFile ==
  ASSUME UNCHANGED file
  PROVE  /\ Count' = Count /\ SectionSet' = SectionSet
         /\ \A i : /\ Line(i)' = Line(i) /\ HeaderAt(i)' = HeaderAt(i)
                   /\ SectionOf(DeviceAt(i))' = SectionOf(DeviceAt(i))
                   /\ DeviceAt(i)' = DeviceAt(i) /\ Limit(i)' = Limit(i)
BY DEF Count, Line, HeaderAt, DeviceAt, Banners, BannerLines, SectionSet, SectionOf, Limit

LEMMA BannerIsNext ==
  ASSUME file \in Files, file # <<>>, ScanOk, linenum \in 1..Len(file), IsBanner(file[linenum])
  PROVE  Met < Count /\ linenum = Line(Met + 1)
<1>1. Met \in Nat /\ Met <= Count /\ Count \in Nat /\ Len(file) \in Nat
  BY MetType, FileShape DEF ScanOk
<1>2. PICK i \in 1..Count : Line(i) = linenum
  BY FileShape
<1>3. i > Met
  <2>1. CASE Met = 0
    BY <1>1, <2>1
  <2>2. CASE Met > 0
    <3>1. Line(Met) < linenum /\ Met \in 1..Count
      BY <1>1, <2>2 DEF ScanOk
    <3>2. i < Met => Line(i) < Line(Met)
      BY <3>1, FileShape
    <3>3. Line(Met) \in 1..Len(file)
      BY <3>1, FileShape
    <3>4. ~(i < Met) /\ i # Met
      BY <1>1, <1>2, <3>1, <3>2, <3>3
    <3> QED
      BY <1>1, <3>4
  <2> QED
    BY <1>1, <2>1, <2>2
<1>4. Met < Count /\ Met + 1 \in 1..Count /\ (Met + 1 < i \/ Met + 1 = i)
  BY <1>1, <1>3
<1>5. linenum <= Line(Met + 1) /\ Line(Met + 1) \in 1..Len(file)
  BY <1>4, FileShape DEF ScanOk
<1>6. Met + 1 < i => Line(Met + 1) < Line(i)
  BY <1>4, FileShape
<1> QED
  BY <1>1, <1>2, <1>4, <1>5, <1>6

\* A section ends where the scan has its header.
LEMMA SectionEnds ==
  ASSUME file \in Files, file # <<>>, ScanOk, Met > 0, linenum = Limit(Met)
  PROVE  <<header, linenum>> = SectionOf(DeviceAt(Met)) /\ Met \in 1..Count
<1>1. Met \in 1..Count
  BY MetType, FileShape DEF ScanOk
<1>2. HeaderAt(Met) < Limit(Met) /\ LastOf(file, DeviceAt(Met)) = Limit(Met)
  BY <1>1, SectionShape DEF HeaderAt
<1>3. header = HeaderAt(Met)
  BY <1>2 DEF ScanOk
<1> QED
  BY <1>1, <1>2, <1>3 DEF SectionOf, HeaderAt

LEMMA ScanBanner ==
  ASSUME file \in Files, file # <<>>, ScanOk, linenum \in 1..Len(file), IsBanner(file[linenum]),
         UNCHANGED file, linenum' = linenum + 1,
         devicefound' = ~devicefound,
         sections' = IF devicefound THEN Append(sections, <<header, linenum>>) ELSE sections
  PROVE  ScanOk'
<1>1. Met < Count /\ linenum = Line(Met + 1)
  BY BannerIsNext
<1>2. /\ Met \in Nat /\ Met <= Count /\ Count \in Nat /\ Len(file) \in Nat /\ Len(sections) \in Nat
      /\ devicefound => Met = 2 * Len(sections) + 1
      /\ ~devicefound => Met = 2 * Len(sections)
      /\ sections \in Seq(SectionSet)
  BY MetType, FileShape DEF ScanOk
<1>3. devicefound' \in BOOLEAN
  BY Zenon
<1>4. /\ sections' \in Seq(SectionSet) /\ Met' = Met + 1
      /\ \A j \in 1..Len(sections') : sections'[j] = SectionOf(DeviceAt(2 * j - 1))
  <2>1. CASE devicefound
    <3>1. Met = 2 * Len(sections) + 1 /\ Met > 0 /\ Limit(Met) = Line(Met + 1)
      BY <1>1, <1>2, <2>1 DEF Limit
    <3>2. <<header, linenum>> = SectionOf(DeviceAt(Met)) /\ Met \in 1..Count
      BY <1>1, <3>1, SectionEnds
    <3> DEFINE e == SectionOf(DeviceAt(Met))
    <3>3. sections' = Append(sections, e) /\ e \in SectionSet
      BY <2>1, <3>2 DEF SectionSet
    <3>4. ~devicefound'
      BY <2>1, Zenon
    <3> HIDE DEF e
    <3>5. /\ sections' \in Seq(SectionSet) /\ Len(sections') = Len(sections) + 1
          /\ \A n \in 1..Len(sections) : sections'[n] = sections[n]
          /\ sections'[Len(sections) + 1] = e
      <4> HIDE DEF SectionSet
      <4> QED
        BY <1>2, <3>3, Appended, SMTT(30)
    <3>6. Met' = 2 * Len(sections')
      <4>1. sections' \in Seq(SectionSet')
        BY <3>5, SameFile
      <4> QED
        BY <1>3, <3>4, <4>1, MetTypePrime
    <3>7. Met' = Met + 1
      BY <1>2, <3>1, <3>5, <3>6
    <3>8. ASSUME NEW j \in 1..Len(sections') PROVE sections'[j] = SectionOf(DeviceAt(2 * j - 1))
      <4>1. CASE j \in 1..Len(sections)
        BY <3>5, <4>1 DEF ScanOk
      <4>2. CASE j \notin 1..Len(sections)
        <5>1. j = Len(sections) + 1 /\ 2 * j - 1 = 2 * Len(sections) + 1
          BY <1>2, <3>5, <4>2, LastIndex
        <5> QED
          BY <3>1, <3>5, <5>1 DEF e
      <4> QED
        BY <4>1, <4>2
    <3> QED
      BY <3>5, <3>7, <3>8
  <2>2. CASE ~devicefound
    <3>1. Met = 2 * Len(sections) /\ sections' = sections
      BY <1>2, <2>2
    <3>2. devicefound'
      BY <2>2, Zenon
    <3>3. Met' = 2 * Len(sections') + 1
      <4>1. sections' \in Seq(SectionSet')
        BY <1>2, <3>1, SameFile
      <4> QED
        BY <1>3, <3>2, <4>1, MetTypePrime
    <3>4. Met' = Met + 1
      BY <3>1, <3>3
    <3> QED
      BY <1>2, <3>1, <3>4 DEF ScanOk
  <2> QED
    BY <2>1, <2>2
<1> DEFINE m == Met + 1
<1>5. m \in 1..Count /\ m \in Nat /\ m > 0
  BY <1>1, <1>2
<1>6. Line(m) < HeaderAt(m) /\ Line(m) \in Nat /\ HeaderAt(m) \in 1..Len(file)
  BY <1>5, SectionShape, LimitType DEF HeaderAt
<1>7. Line(m) < linenum' /\ ~(HeaderAt(m) < linenum')
  BY <1>1, <1>2, <1>6
<1>8. m < Count => linenum' <= Line(m + 1)
  <2> SUFFICES ASSUME m < Count PROVE linenum' <= Line(m + 1)
    OBVIOUS
  <2>1. m + 1 \in 1..Count /\ m < m + 1
    BY <1>2, <1>5
  <2>2. Line(m) < Line(m + 1) /\ Line(m + 1) \in 1..Len(file)
    BY <1>5, <2>1, FileShape
  <2> QED
    BY <1>1, <1>2, <1>6, <2>2
<1>9. linenum' \in 1..(Len(file) + 1)
  BY <1>2
<1> HIDE DEF m
<1>10. Met' = m
  BY <1>4 DEF m
<1>11. /\ Count' = Count /\ SectionSet' = SectionSet /\ Line(Met)' = Line(m) /\ HeaderAt(Met)' = HeaderAt(m)
       /\ Line(Met + 1)' = Line(m + 1)
       /\ \A i : SectionOf(DeviceAt(i))' = SectionOf(DeviceAt(i))
  <2>1. Line(Met)' = Line(m) /\ HeaderAt(Met)' = HeaderAt(m) /\ Line(Met + 1)' = Line(m + 1)
    BY <1>10 DEF Line, HeaderAt, DeviceAt, Banners, BannerLines
  <2> QED
    BY <2>1, SameFile
<1>12. \A j \in 1..Len(sections') : sections'[j] = SectionOf(DeviceAt(2 * j - 1))'
  BY <1>4, <1>11
<1>13. m <= Count
  BY <1>2, <1>5
<1> QED
  BY <1>3, <1>4, <1>7, <1>8, <1>9, <1>10, <1>11, <1>12, <1>13 DEF ScanOk

\* The scan is over.
LEMMA ScanEnds ==
  ASSUME file \in Files, file # <<>>, ScanOk, linenum > Len(file),
         UNCHANGED file, sections' = Append(sections, <<header, linenum>>)
  PROVE  SectionsOk'
<1>1. /\ Met \in Nat /\ Met <= Count /\ Count \in Nat /\ Count >= 1 /\ Len(file) \in Nat /\ Len(sections) \in Nat
      /\ Met = 2 * Len(sections) + 1 \/ Met = 2 * Len(sections)
      /\ sections \in Seq(SectionSet) /\ linenum = Len(file) + 1
  <2>1. devicefound \/ ~devicefound
    OBVIOUS
  <2>2. Met = 2 * Len(sections) + 1 \/ Met = 2 * Len(sections)
    BY <2>1, MetType DEF ScanOk
  <2>3. linenum \in 1..(Len(file) + 1) /\ Len(file) \in Nat
    BY FileShape DEF ScanOk
  <2>4. linenum = Len(file) + 1
    BY <2>3
  <2> QED
    BY <2>2, <2>4, MetType, FileShape DEF ScanOk
<1>2. Met = Count
  <2> SUFFICES ASSUME Met < Count PROVE FALSE
    BY <1>1
  <2>1. linenum <= Line(Met + 1) /\ Met + 1 \in 1..Count
    BY <1>1 DEF ScanOk
  <2>2. Line(Met + 1) \in 1..Len(file)
    BY <2>1, FileShape
  <2> QED
    BY <1>1, <2>1, <2>2
<1>3. <<header, linenum>> = SectionOf(DeviceAt(Count))
  <2>1. Met > 0 /\ linenum = Limit(Met)
    BY <1>1, <1>2 DEF Limit
  <2> QED
    BY <1>2, <2>1, SectionEnds
<1> DEFINE e == SectionOf(DeviceAt(Count))
<1>4. e \in SectionSet
  <2>1. Count \in 1..Count
    BY <1>1
  <2> QED
    BY <2>1 DEF SectionSet
<1> HIDE DEF e
<1>5. /\ sections' \in Seq(SectionSet) /\ Len(sections') = Len(sections) + 1
      /\ \A n \in 1..Len(sections) : sections'[n] = sections[n]
      /\ sections'[Len(sections) + 1] = e
  <2>1. sections \in Seq(SectionSet) /\ sections' = Append(sections, e)
    BY <1>1, <1>3 DEF e
  <2> HIDE DEF SectionSet
  <2> QED
    BY <1>4, <2>1, Appended
<1>6. Len(sections') >= 1 /\ (Count = 2 * Len(sections') - 2 \/ Count = 2 * Len(sections') - 1)
  <2>1. /\ Len(sections) \in Nat /\ Len(sections') = Len(sections) + 1
        /\ Count = 2 * Len(sections) + 1 \/ Count = 2 * Len(sections)
    BY <1>1, <1>2, <1>5
  <2> QED
    BY ONLY <2>1
<1>7. ASSUME NEW j \in 1..Len(sections')
      PROVE  sections'[j] = SectionOf(DeviceAt(IF j < Len(sections') THEN 2 * j - 1 ELSE Count))
  <2>1. CASE j < Len(sections')
    <3>1. j \in 1..Len(sections)
      BY <1>1, <1>5, <2>1
    <3> QED
      BY <1>5, <2>1, <3>1 DEF ScanOk
  <2>2. CASE ~(j < Len(sections'))
    <3>1. j = Len(sections) + 1
      BY <1>1, <1>5, <2>2
    <3> QED
      BY <1>5, <2>2, <3>1 DEF e
  <2> QED
    BY <2>1, <2>2
<1>8. \A j \in 1..Len(sections') : sections'[j] = SectionOf(DeviceAt(At(j)))'
  <2> TAKE j \in 1..Len(sections')
  <2>1. At(j)' = IF j < Len(sections') THEN 2 * j - 1 ELSE Count
    BY SameFile DEF At
  <2>2. SectionOf(DeviceAt(At(j)))' = SectionOf(DeviceAt(At(j)'))
    BY DEF SectionOf, DeviceAt, Banners, BannerLines
  <2> QED
    BY <1>7, <2>1, <2>2
<1> QED
  BY <1>5, <1>6, <1>8, SameFile DEF SectionsOk

Quiet(j) == Answer(sections[j]).kind = "none"

\* What a request was answered with, once the sections were tried.
Answered ==
  \/ reply = Text("none") /\ \A j \in 1..Len(sections) : Quiet(j)
  \/ \E j \in 1..Len(sections) :
       /\ reply = Answer(sections[j]) /\ ~Quiet(j)
       /\ \A i \in 1..(j - 1) : Quiet(i)

AnswerInv ==
  /\ file \in Files
  /\ pc \in {"start", "list", "scan"} => reply = Nothing
  /\ pc \in {"start", "list"} => linenum = 1 /\ devicefound = FALSE /\ sections = <<>>
  /\ pc \in {"scan", "serve", "get"} => file # <<>>
  /\ pc = "scan" => ScanOk
  /\ pc \in {"serve", "get"} => SectionsOk
  /\ pc = "get" => sec \in 1..(Len(sections) + 1) /\ \A j \in 1..(sec - 1) : Quiet(j)
  /\ pc = "serve" /\ reply # Nothing /\ request.local /\ request.form = "full" => Answered

LEMMA SameSections ==
  ASSUME UNCHANGED <<file, sections>>
  PROVE  SectionsOk' = SectionsOk
BY DEF SectionsOk, At, SectionOf, DeviceAt, Count, SectionSet, Banners, BannerLines

LEMMA SameAnswers ==
  ASSUME UNCHANGED <<file, options, request, eustall, sections>>
  PROVE  /\ \A s : Answer(s)' = Answer(s)
         /\ \A j : Quiet(j)' = Quiet(j)
<1>1. \A s : Answer(s)' = Answer(s)
  BY DEF Answer, HttpAnalyzeStallMetrics, HttpAnalyzePerfMetrics, KernelBlock, Instances
<1> QED
  BY <1>1 DEF Quiet

LEMMA AnswerOther ==
  ASSUME AnswerInv, UNCHANGED file,
         \/ pc' \notin {"start", "list", "scan", "serve", "get"}
         \/ pc \in {"start", "list"} /\ pc' \in {"start", "list"} /\ UNCHANGED server
  PROVE  AnswerInv'
BY DEF AnswerInv, server, scan

LEMMA AnswerCharts ==
  ASSUME AnswerInv,
         \/ ListFile \/ Refuse \/ Plot
         \/ /\ UNCHANGED server
            /\ \/ ListRow \/ ListEnd \/ AllRow \/ FindRow \/ FindEnd \/ OneRow
               \/ OneUnterminated \/ Close \/ StallsRow \/ StallsEnd \/ StallRow \/ StallEnd
         \/ Interrupt
  PROVE  AnswerInv'
<1>1. CASE ListFile \/ (ListRow /\ UNCHANGED server) \/ (ListEnd /\ UNCHANGED server)
  <2>1. /\ pc \in {"start", "list"} /\ pc' \in {"start", "list"}
        /\ UNCHANGED file /\ UNCHANGED server
    BY <1>1 DEF ListFile, ListRow, ListEnd, List, shared
  <2> QED
    BY <2>1, AnswerOther
<1>2. CASE Refuse \/ Plot \/ Interrupt
  <2>1. UNCHANGED file /\ pc' \in {"ended", "all", "find", "one", "stalls", "stall"}
    BY <1>2 DEF Refuse, Plot, Interrupt, AnalyzePerfMetrics, AnalyzeStallMetrics
  <2> QED
    BY <2>1, AnswerOther
<1>3. CASE AllRow \/ FindRow \/ FindEnd \/ OneRow \/ OneUnterminated \/ Close
  <2>1. UNCHANGED file /\ pc' \in {"all", "find", "one", "ended", "failed"}
    BY <1>3 DEF AllRow, FindRow, FindEnd, OneRow, OneUnterminated, Close, shared
  <2> QED
    BY <2>1, AnswerOther
<1>4. CASE StallsRow \/ StallsEnd \/ StallRow \/ StallEnd
  <2>1. UNCHANGED file /\ pc' \in {"stalls", "stall", "ended", "failed"}
    BY <1>4 DEF StallsRow, StallsEnd, StallRow, StallEnd, PlotStalls, shared
  <2> QED
    BY <2>1, AnswerOther
<1> QED
  BY <1>1, <1>2, <1>3, <1>4

LEMMA AnswerServe == ASSUME AnswerInv, Serve PROVE AnswerInv'
<1>1. /\ pc = "start" /\ pc' = "scan" /\ file # <<>> /\ file' = file
      /\ UNCHANGED <<linenum, header, devicefound, eustall, sections, request, sec, reply>>
  BY DEF Serve, PerfMetricsHTTPServer, Refused, server, scan
<1>2. file \in Files /\ linenum = 1 /\ devicefound = FALSE /\ sections = <<>> /\ reply = Nothing
  BY <1>1, Zenon DEF AnswerInv
<1>3. ScanOk
  BY <1>1, <1>2, ScanBegins
<1>4. ScanOk'
  BY <1>1, <1>3, SMTT(30) DEF ScanOk, Met, Count, Line, HeaderAt, SectionSet, SectionOf, DeviceAt, Banners, BannerLines
<1> QED
  BY <1>1, <1>2, <1>4 DEF AnswerInv

LEMMA AnswerScan == ASSUME AnswerInv, ScanRow PROVE AnswerInv'
<1>1. /\ file \in Files /\ file # <<>> /\ ScanOk /\ reply = Nothing /\ pc = "scan"
      /\ pc' = pc /\ file' = file /\ reply' = reply
      /\ linenum' = linenum + 1 /\ linenum <= Len(file)
      /\ header' = IF IsHeader(file[linenum]) THEN linenum ELSE header
  BY DEF AnswerInv, ScanRow, shared
<1>2. linenum \in 1..Len(file)
  <2>1. linenum \in 1..(Len(file) + 1) /\ Len(file) \in Nat
    BY <1>1, FileShape DEF ScanOk
  <2> QED
    BY <1>1, <2>1
<1>3. ScanOk'
  <2>1. CASE IsBanner(file[linenum])
    <3>1. /\ devicefound' = ~devicefound
          /\ sections' = IF devicefound THEN Append(sections, <<header, linenum>>) ELSE sections
      BY <2>1, Zenon DEF ScanRow
    <3> QED
      BY <1>1, <1>2, <2>1, <3>1, ScanBanner
  <2>2. CASE ~IsBanner(file[linenum])
    <3>1. UNCHANGED <<devicefound, sections>>
      BY <2>2, Zenon DEF ScanRow
    <3> QED
      BY <1>1, <1>2, <2>2, <3>1, ScanLine
  <2> QED
    BY <2>1, <2>2
<1> QED
  BY <1>1, <1>3 DEF AnswerInv

LEMMA AnswerStart == ASSUME AnswerInv, StartServer PROVE AnswerInv'
<1>1. /\ file \in Files /\ file # <<>> /\ ScanOk /\ reply = Nothing
      /\ pc' \in {"failed", "ended", "serve"} /\ file' = file /\ reply' = reply
      /\ linenum > Len(file) /\ sections' = Append(sections, <<header, linenum>>)
  BY DEF AnswerInv, StartServer
<1>2. SectionsOk'
  BY <1>1, ScanEnds
<1> QED
  BY <1>1, <1>2 DEF AnswerInv

LEMMA AnswerGet == ASSUME AnswerInv, NEW r, DoGet(r) PROVE AnswerInv'
<1>1. /\ file \in Files /\ file # <<>> /\ SectionsOk
      /\ pc' \in {"serve", "get"} /\ UNCHANGED <<file, sections>> /\ sec' = 1
      /\ pc' = "serve" => ~(r.local /\ r.form = "full")
      /\ request' = r
  BY DEF AnswerInv, DoGet, scan
<1>2. SectionsOk'
  BY <1>1, SameSections
<1>3. Len(sections') \in Nat
  BY <1>2, LenProperties DEF SectionsOk
<1>4. sec' \in 1..(Len(sections') + 1) /\ 1..(sec' - 1) = {}
  BY <1>1, <1>3
<1> QED
  BY <1>1, <1>2, <1>4 DEF AnswerInv

LEMMA AnswerTry == ASSUME AnswerInv, TrySection PROVE AnswerInv'
<1>1. /\ file \in Files /\ file # <<>> /\ SectionsOk
      /\ sec \in 1..(Len(sections) + 1) /\ \A j \in 1..(sec - 1) : Quiet(j)
      /\ pc' \in {"serve", "get"} /\ UNCHANGED <<file, options, request, eustall, sections>>
  BY DEF AnswerInv, TrySection, scan
<1>2. SectionsOk' /\ Len(sections) \in Nat
  BY <1>1, SameSections, LenProperties DEF SectionsOk
<1>3. (\A s : Answer(s)' = Answer(s)) /\ (\A j : Quiet(j)' = Quiet(j))
  BY <1>1, SameAnswers
<1>4. CASE sec <= Len(sections) /\ Quiet(sec) /\ sec' = sec + 1 /\ pc' = "get"
  <2>1. sec' \in 1..(Len(sections) + 1)
    BY <1>1, <1>2, <1>4
  <2>2. \A j \in 1..(sec' - 1) : Quiet(j)
    <3>1. \A j \in 1..(sec' - 1) : j \in 1..(sec - 1) \/ j = sec
      BY <1>1, <1>2, <1>4
    <3> QED
      BY <1>1, <1>4, <3>1
  <2> QED
    BY <1>1, <1>2, <1>3, <1>4, <2>1, <2>2 DEF AnswerInv
<1>5. CASE sec <= Len(sections) /\ ~Quiet(sec) /\ reply' = Answer(sections[sec]) /\ pc' = "serve"
  <2>1. sec \in 1..Len(sections)
    BY <1>1, <1>2, <1>5
  <2>2. Answered'
    BY <1>1, <1>3, <1>5, <2>1 DEF Answered
  <2> QED
    BY <1>1, <1>2, <1>5, <2>2 DEF AnswerInv
<1>6. CASE sec > Len(sections) /\ reply' = Text("none") /\ pc' = "serve"
  <2>1. 1..Len(sections) = 1..(sec - 1)
    BY <1>1, <1>2, <1>6
  <2>2. Answered'
    BY <1>1, <1>3, <1>6, <2>1 DEF Answered, Text
  <2> QED
    BY <1>1, <1>2, <1>6, <2>2 DEF AnswerInv
<1> QED
  BY <1>4, <1>5, <1>6 DEF TrySection, Quiet, AnswerInv

LEMMA AnswerInit == Init => AnswerInv
BY DEF Init, ServerInit, AnswerInv

LEMMA AnswerStep == AnswerInv /\ [Next]_vars => AnswerInv'
<1> SUFFICES ASSUME AnswerInv, [Next]_vars PROVE AnswerInv'
  OBVIOUS
<1>1. CASE \/ ListFile \/ Refuse \/ Plot
           \/ /\ UNCHANGED server
              /\ \/ ListRow \/ ListEnd \/ AllRow \/ FindRow \/ FindEnd \/ OneRow
                 \/ OneUnterminated \/ Close \/ StallsRow \/ StallsEnd \/ StallRow \/ StallEnd
           \/ Interrupt
  BY <1>1, AnswerCharts
<1>2. CASE Serve
  BY <1>2, AnswerServe
<1>3. CASE ScanRow
  BY <1>3, AnswerScan
<1>4. CASE StartServer
  BY <1>4, AnswerStart
<1>5. CASE \E r \in Requests : DoGet(r)
  BY <1>5, AnswerGet
<1>6. CASE TrySection
  BY <1>6, AnswerTry
<1>7. CASE UNCHANGED vars
  <2>1. /\ UNCHANGED <<file, options, pc>>
        /\ UNCHANGED <<linenum, header, devicefound, eustall, sections, request, sec, reply>>
    BY <1>7 DEF vars, shared, server, scan
  <2>2. ScanOk' = ScanOk
    BY <2>1 DEF ScanOk, Met, Count, Line, HeaderAt, SectionSet, SectionOf, DeviceAt, Banners, BannerLines
  <2>3. SectionsOk' = SectionsOk /\ Answered' = Answered /\ \A j : Quiet(j)' = Quiet(j)
    <3>1. (\A s : Answer(s)' = Answer(s)) /\ (\A j : Quiet(j)' = Quiet(j))
      BY <2>1, SameAnswers
    <3> QED
      BY <2>1, <3>1, SameSections DEF Answered
  <2> QED
    BY <2>1, <2>2, <2>3 DEF AnswerInv
<1> QED
  BY <1>1, <1>2, <1>3, <1>4, <1>5, <1>6, <1>7 DEF Next

\* The devices of the sections, in their order.
LEMMA SameLength == ASSUME NEW m \in Nat, NEW n \in Nat, 1..m = 1..n PROVE m = n
<1>1. n <= m
  <2>1. n \in 1..n \/ n = 0
    OBVIOUS
  <2> QED
    BY <2>1
<1>2. m <= n
  <2>1. m \in 1..m \/ m = 0
    OBVIOUS
  <2> QED
    BY <2>1
<1> QED
  BY <1>1, <1>2

LEMMA KeptSections ==
  ASSUME file \in Files, file # <<>>, SectionsOk
  PROVE  /\ Len(sections) \in Nat /\ Len(sections) >= 1
         /\ \A j \in 1..Len(sections) : At(j) \in 1..Count
         /\ \A i, j \in 1..Len(sections) : i < j => At(i) < At(j)
         /\ Kept = {DeviceAt(At(j)) : j \in 1..Len(sections)}
<1> DEFINE L == Len(sections)
<1>1. /\ L \in Nat /\ L >= 1 /\ Count \in Nat /\ Count >= 1
      /\ Count = 2 * L - 2 \/ Count = 2 * L - 1
  BY FileShape, LenProperties DEF SectionsOk
<1>2. \A j : At(j) = IF j < L THEN 2 * j - 1 ELSE Count
  BY DEF At
<1>3. Len(Banners) = Count /\ DOMAIN Banners = 1..Count
  <2>1. Banners \in [1..Count -> FileRow]
    <3>1. \A i \in 1..Count : file[Nth(BannerLines, i)] \in FileRow
      BY FileShape DEF Line
    <3> QED
      BY <3>1 DEF Banners, Count
  <2>2. Banners \in Seq(FileRow)
    BY <1>1, <2>1, SeqDef
  <2>3. Len(Banners) \in Nat /\ DOMAIN Banners = 1..Len(Banners) /\ DOMAIN Banners = 1..Count
    BY <2>1, <2>2, LenProperties
  <2>4. 1..Len(Banners) = 1..Count
    BY <2>3
  <2> HIDE DEF Banners
  <2> QED
    BY <1>1, <2>3, <2>4, SameLength
<1> HIDE DEF L
<1>4. \A j \in 1..L : At(j) \in 1..Count /\ (At(j) % 2 = 1 \/ At(j) = Count)
  <2> TAKE j \in 1..L
  <2>1. CASE j < L
    <3>1. At(j) = 2 * j - 1
      BY <1>2, <2>1
    <3>2. 2 * j - 1 \in 1..Count /\ (2 * j - 1) % 2 = 1
      BY ONLY <1>1, <2>1, j \in 1..L
    <3> QED
      BY <3>1, <3>2
  <2>2. CASE ~(j < L)
    BY <1>1, <1>2, <2>2
  <2> QED
    BY <2>1, <2>2
<1>5. \A i, j \in 1..L : i < j => At(i) < At(j)
  <2> SUFFICES ASSUME NEW i \in 1..L, NEW j \in 1..L, i < j PROVE At(i) < At(j)
    OBVIOUS
  <2>1. At(i) = 2 * i - 1 /\ (At(j) = 2 * j - 1 \/ At(j) = Count)
    BY <1>1, <1>2
  <2> QED
    BY ONLY <1>1, <2>1, i \in 1..L, j \in 1..L, i < j
<1>6. ASSUME NEW n \in 1..Count, n % 2 = 1 \/ n = Count PROVE \E j \in 1..L : At(j) = n
  <2>1. CASE n = Count
    <3>1. L \in 1..L /\ ~(L < L)
      BY <1>1
    <3> QED
      BY <1>2, <2>1, <3>1
  <2>2. CASE n # Count
    <3> DEFINE j == (n + 1) \div 2
    <3>1. j \in 1..L /\ j < L /\ 2 * j - 1 = n
      BY ONLY <1>1, <1>6, <2>2, n \in 1..Count
    <3> HIDE DEF j
    <3> QED
      BY <1>2, <3>1
  <2> QED
    BY <2>1, <2>2
<1>7. Kept = {DeviceAt(At(j)) : j \in 1..L}
  <2>1. Kept = {DeviceAt(n) : n \in {m \in 1..Count : m % 2 = 1 \/ m = Count}}
    BY <1>3 DEF Kept, DeviceAt
  <2>2. {DeviceAt(n) : n \in {m \in 1..Count : m % 2 = 1 \/ m = Count}} \subseteq {DeviceAt(At(j)) : j \in 1..L}
    BY <1>6
  <2>3. {DeviceAt(At(j)) : j \in 1..L} \subseteq {DeviceAt(n) : n \in {m \in 1..Count : m % 2 = 1 \/ m = Count}}
    BY <1>4
  <2> QED
    BY <2>1, <2>2, <2>3
<1> QED
  BY <1>1, <1>4, <1>5, <1>7 DEF L

LEMMA NoneText == \A s : Answer(s).kind = "none" <=> Answer(s) = Text("none")
<1> TAKE s
<1>1. Answer(s) = Text("none") \/ Answer(s) = Text("message") \/ \E lines : Answer(s) = Pdf(lines)
  BY DEF Answer, HttpAnalyzeStallMetrics, HttpAnalyzePerfMetrics
<1>2. Text("none").kind = "none" /\ Text("message").kind = "message" /\ \A lines : Pdf(lines).kind = "chart"
  BY DEF Text, Pdf
<1> QED
  BY <1>1, <1>2

LEMMA AnsweredFirst == ASSUME AnswerInv PROVE AnswerComplete
<1> SUFFICES ASSUME pc = "serve", request.local, request.form = "full", reply # Nothing
             PROVE LET Silent(d) == Answer(SectionOf(d)) = Text("none")
                       answering == {d \in Kept : ~Silent(d)}
                   IN IF answering = {} THEN reply = Text("none")
                      ELSE \E d \in answering :
                             /\ \A c \in answering \ {d} : Earlier(d, c)
                             /\ reply = Answer(SectionOf(d))
  BY DEF AnswerComplete
<1>1. file \in Files /\ file # <<>> /\ SectionsOk /\ Answered
  BY DEF AnswerInv
<1> DEFINE answering == {d \in Kept : ~(Answer(SectionOf(d)) = Text("none"))}
<1>2. /\ Len(sections) \in Nat /\ \A j \in 1..Len(sections) : At(j) \in 1..Count
      /\ \A i, j \in 1..Len(sections) : i < j => At(i) < At(j)
      /\ Kept = {DeviceAt(At(j)) : j \in 1..Len(sections)}
  BY <1>1, KeptSections
<1>3. \A j \in 1..Len(sections) : sections[j] = SectionOf(DeviceAt(At(j)))
  BY <1>1 DEF SectionsOk
<1>4. \A j \in 1..Len(sections) : Quiet(j) <=> Answer(SectionOf(DeviceAt(At(j)))) = Text("none")
  BY <1>3, NoneText DEF Quiet
<1>5. CASE reply = Text("none") /\ \A j \in 1..Len(sections) : Quiet(j)
  <2>1. answering = {}
    BY <1>2, <1>4, <1>5
  <2> QED
    BY <1>5, <2>1
<1>6. ASSUME NEW j \in 1..Len(sections), reply = Answer(sections[j]), ~Quiet(j),
             \A i \in 1..(j - 1) : Quiet(i)
      PROVE  \E d \in answering :
               (\A c \in answering \ {d} : Earlier(d, c)) /\ reply = Answer(SectionOf(d))
  <2> DEFINE d == DeviceAt(At(j))
  <2>1. d \in answering /\ reply = Answer(SectionOf(d))
    BY <1>2, <1>3, <1>4, <1>6
  <2>2. ASSUME NEW c \in answering, c # d PROVE Earlier(d, c)
    <3>1. PICK i \in 1..Len(sections) : c = DeviceAt(At(i)) /\ ~Quiet(i)
      BY <1>2, <1>4
    <3>2. i # j /\ i \notin 1..(j - 1)
      BY <1>6, <2>2, <3>1
    <3>3. j < i
      BY <1>2, <3>2
    <3>4. At(j) < At(i) /\ At(j) \in 1..Count /\ At(i) \in 1..Count
      BY <1>2, <3>3
    <3>5. Line(At(j)) < Line(At(i))
      BY <1>1, <3>4, FileShape
    <3>6. BannerOf(file, d) = Line(At(j)) /\ BannerOf(file, c) = Line(At(i))
      BY <1>1, <3>1, <3>4, SectionShape
    <3> QED
      BY <3>5, <3>6 DEF Earlier
  <2> QED
    BY <2>1, <2>2
<1> QED
  BY <1>1, <1>5, <1>6 DEF Answered

\* A request for a chart is answered by the first device, of those the scan kept
\* a section of (every other one, and the last), that has samples of what is
\* asked for, with all of them, and is refused only if none has; the server
\* tries sections that it found in one pass over the file, as start, header and
\* end of a device, in the order of the file.
THEOREM AnswerCorrect == Spec => []AnswerComplete
<1> QED
  BY AnsweredFirst, AnswerInit, AnswerStep, PTL DEF Spec

--------------------------------------------------------------------------------
(* The sheets of stall events.                                             *)

\* The samples before page p.
Before(p) == ins_per_page * (p - 1)

LEMMA BeforePage ==
  ASSUME NEW p \in Nat \ {0}, NEW q \in Nat \ {0}
  PROVE  /\ Before(p) \in Nat /\ ins_per_page * p = Before(p) + ins_per_page
         /\ p < q => Before(p) + ins_per_page <= Before(q)
         /\ p <= q => Before(p) <= Before(q)
<1> DEFINE m == p - 1
           n == q - 1
<1>1. m \in Nat /\ n \in Nat /\ p \in Nat /\ p = m + 1 /\ ins_per_page \in Nat \ {0}
  BY PageAssumption
<1>2. Before(p) = ins_per_page * m /\ Before(q) = ins_per_page * n
  BY DEF Before
<1> HIDE DEF m, n
<1>3. ins_per_page * m \in Nat /\ ins_per_page * p = ins_per_page * m + ins_per_page
  BY <1>1, TimesMore
<1>4. p <= n => ins_per_page * p <= ins_per_page * n
  BY <1>1, TimesMore
<1>5. m <= n => ins_per_page * m <= ins_per_page * n
  BY <1>1, TimesMore
<1>6. (p < q => p <= n) /\ (p <= q => m <= n)
  BY DEF m, n
<1> QED
  BY <1>2, <1>3, <1>4, <1>5, <1>6

\* Every page has a sample, and every sample is on a page.
LEMMA PagesNeeded ==
  ASSUME NEW len \in Nat
  PROVE  /\ numpages(len) \in Nat
         /\ \A p \in 1..numpages(len) : Before(p) < len
         /\ \A i \in 1..len : \E p \in 1..numpages(len) : Before(p) < i /\ i <= Before(p) + ins_per_page
<1> DEFINE c == ins_per_page
           a == len + c - 1
           q == numpages(len)
<1>1. c \in Nat \ {0} /\ a \in Nat
  BY PageAssumption
<1>2. q = a \div c
  BY DEF numpages
<1>3. q \in Nat /\ c * q <= a /\ a < c * q + c
  BY <1>1, <1>2, Division
<1> DEFINE r == q + 1
<1>4. r \in Nat \ {0} /\ Before(r) = c * q
  BY <1>3 DEF Before
<1> HIDE DEF c, q, r
<1>5. ASSUME NEW p \in 1..q PROVE Before(p) < len
  <2>1. p \in Nat \ {0} /\ p < r
    BY <1>3, <1>5 DEF r
  <2>2. Before(p) \in Nat /\ Before(p) + c <= Before(r)
    BY <1>4, <2>1, BeforePage DEF c
  <2> QED
    BY <1>1, <1>3, <1>4, <2>2
<1>6. ASSUME NEW i \in 1..len
      PROVE  \E p \in 1..q : Before(p) < i /\ i <= Before(p) + c
  <2> DEFINE e == i - 1
             m == e \div c
             p == m + 1
  <2>1. e \in Nat
    OBVIOUS
  <2>2. m \in Nat /\ c * m <= e /\ e < c * m + c
    BY <1>1, <2>1, Division
  <2>3. p \in Nat \ {0} /\ Before(p) = c * m
    BY <2>2 DEF Before, c
  <2> HIDE DEF m, p
  <2>4. Before(p) < i /\ i <= Before(p) + c
    BY <1>1, <2>2, <2>3
  <2>5. p <= q
    <3> SUFFICES ASSUME ~(p <= q) PROVE FALSE
      OBVIOUS
    <3>1. r <= p
      BY <1>3, <2>3 DEF r
    <3>2. Before(r) <= Before(p)
      BY <1>4, <2>3, <3>1, BeforePage
    <3> QED
      BY <1>1, <1>3, <1>4, <2>2, <2>3, <3>2
  <2> QED
    BY <1>3, <2>3, <2>4, <2>5
<1> QED
  BY <1>3, <1>5, <1>6 DEF q, c

LEMMA SubSeqOf ==
  ASSUME NEW s, NEW m \in Int, NEW n \in Int, NEW part, part = SubSeq(s, m, n),
         \A i \in m..n : s[i] \in Nat
  PROVE  /\ part \in Seq(Nat) /\ Len(part) = (IF m <= n THEN n - m + 1 ELSE 0)
         /\ \A i \in 1..(n - m + 1) : part[i] = s[m + i - 1]
<1>1. /\ SubSeq(s, m, n) \in Seq(Nat) /\ Len(SubSeq(s, m, n)) = (IF m <= n THEN n - m + 1 ELSE 0)
      /\ \A i \in 1..(n - m + 1) : SubSeq(s, m, n)[i] = s[m + i - 1]
  BY SubSeqProperties
<1> QED
  BY <1>1, Zenon

\* A page: a part of the rows.
LEMMA PageShape ==
  ASSUME NEW rows \in Seq(Nat), NEW p \in 1..numpages(Len(rows)),
         NEW page, page = SubSeq(rows, ins_per_page * (p - 1) + 1, Min({ins_per_page * p, Len(rows)}))
  PROVE  /\ page \in Seq(Nat) /\ Len(page) \in 1..ins_per_page /\ DOMAIN page = 1..Len(page)
         /\ \A i \in 1..Len(page) : Before(p) + i \in 1..Len(rows) /\ page[i] = rows[Before(p) + i]
         /\ \A i \in 1..Len(rows) :
              Before(p) < i /\ i <= Before(p) + ins_per_page => i - Before(p) \in 1..Len(page)
<1> DEFINE c == ins_per_page
           L == Len(rows)
           b == Before(p)
           S == {c * p, L}
           last == Min(S)
<1>1. c \in Nat \ {0} /\ L \in Nat /\ \A i \in 1..L : rows[i] \in Nat
  BY PageAssumption, LenProperties, ElementOfSeq
<1>2. p \in Nat \ {0} /\ b < L
  BY <1>1, PagesNeeded
<1>3. b \in Nat /\ c * p = b + c
  BY <1>2, BeforePage
<1>4. page = SubSeq(rows, b + 1, last)
  BY DEF Before
<1>5. S = {b + c, L} /\ S \in SUBSET Nat /\ L \in S
  BY <1>1, <1>3
<1> HIDE DEF b, S
<1>6. last \in S /\ \A m \in S : last <= m
  BY <1>5, LeastLine
<1>7. last \in Nat /\ last <= b + c /\ last <= L /\ (last = b + c \/ last = L)
  BY <1>1, <1>3, <1>5, <1>6
<1> HIDE DEF last, L, c
<1> DEFINE f == b + 1
<1>8. f \in Int /\ last \in Int /\ \A i \in f..last : rows[i] \in Nat
  <2>1. \A i \in f..last : i \in 1..L
    BY ONLY <1>1, <1>3, <1>7 DEF f
  <2>2. f \in Int /\ last \in Int
    BY ONLY <1>3, <1>7 DEF f
  <2> QED
    BY <1>1, <2>1, <2>2
<1>9. page = SubSeq(rows, f, last)
  BY <1>4
<1> HIDE DEF f
<1>10. /\ page \in Seq(Nat) /\ Len(page) = (IF f <= last THEN last - f + 1 ELSE 0)
       /\ \A i \in 1..(last - f + 1) : page[i] = rows[f + i - 1]
  BY ONLY <1>8, <1>9, SubSeqOf
<1>11. Len(page) = last - b /\ Len(page) \in 1..c
  BY ONLY <1>1, <1>2, <1>3, <1>7, <1>10 DEF f
<1>12. ASSUME NEW i \in 1..Len(page) PROVE b + i \in 1..L /\ page[i] = rows[b + i]
  <2>1. i \in 1..(last - f + 1) /\ f + i - 1 = b + i /\ b + i \in 1..L
    BY ONLY <1>1, <1>3, <1>7, <1>11, i \in 1..Len(page) DEF f
  <2> QED
    BY <1>10, <2>1
<1>14. ASSUME NEW i \in 1..L, b < i, i <= b + c PROVE i - b \in 1..Len(page)
  BY ONLY <1>1, <1>3, <1>7, <1>11, <1>14, i \in 1..L
<1>13. DOMAIN page = 1..Len(page)
  BY <1>10, LenProperties
<1> QED
  BY <1>10, <1>11, <1>12, <1>13, <1>14 DEF b, c, L

\* What sheets show, and in which order.
RowsOf(sheet) == ToSet(sheet.rows)
OnSheets(sh) == UNION {RowsOf(sh[n]) : n \in DOMAIN sh}
WellMade(sheet) == sheet.rows \in Seq(Nat) /\ Len(sheet.rows) \in 1..ins_per_page
OrderedIn(sh) ==
  \A m, n \in DOMAIN sh : \A i \in DOMAIN sh[m].rows, j \in DOMAIN sh[n].rows :
    m < n \/ (m = n /\ i < j) => sh[m].rows[i] < sh[n].rows[j]
SheetOf(T) == [title : T, rows : Seq(Nat)]

LEMMA RowsFacts ==
  ASSUME NEW sheet, WellMade(sheet)
  PROVE  /\ Len(sheet.rows) \in Nat /\ DOMAIN sheet.rows = 1..Len(sheet.rows)
         /\ \A r : r \in RowsOf(sheet) <=> \E i \in 1..Len(sheet.rows) : sheet.rows[i] = r
<1>1. Len(sheet.rows) \in Nat /\ DOMAIN sheet.rows = 1..Len(sheet.rows)
  BY LenProperties DEF WellMade
<1>2. RowsOf(sheet) = {sheet.rows[i] : i \in 1..Len(sheet.rows)}
  BY <1>1 DEF RowsOf, ToSet
<1> QED
  BY <1>1, <1>2

\* The sheets of a kernel show its samples with events, in order.
LEMMA SheetsShape ==
  ASSUME frame \in Seq(SampleRow), NEW first \in Nat \ {0}, NEW stop \in 1..(Len(frame) + 1), NEW title,
         NEW T, title \in T
  PROVE  LET sh == Sheets(first, stop, title)
         IN /\ sh \in Seq(SheetOf(T)) /\ OrderedIn(sh)
            /\ \A n \in DOMAIN sh : WellMade(sh[n]) /\ sh[n].title = title
            /\ OnSheets(sh) = {n \in first..(stop - 1) : frame[n].events}
<1> DEFINE S == {n \in first..(stop - 1) : frame[n].events}
           rows == Stalled(first, stop)
           L == Len(rows)
           q == numpages(L)
           sh == Sheets(first, stop, title)
           page(p) == SubSeq(rows, ins_per_page * (p - 1) + 1, Min({ins_per_page * p, Len(rows)}))
<1>1. S \in SUBSET (1..Len(frame)) /\ Len(frame) \in Nat
  <2>1. Len(frame) \in Nat
    BY LenProperties
  <2> QED
    BY <2>1
<1>2. rows = InOrder(S)
  BY DEF Stalled
<1> HIDE DEF S
<1>3. /\ rows \in Seq(S) /\ L = Cardinality(S) /\ L \in Nat
      /\ \A i \in 1..L : rows[i] \in S
      /\ \A i, j \in 1..L : i < j => rows[i] < rows[j]
      /\ \A n \in S : \E i \in 1..L : rows[i] = n
  <2> HIDE DEF rows, L
  <2>1. /\ InOrder(S) \in Seq(S) /\ Len(InOrder(S)) = Cardinality(S) /\ Cardinality(S) \in Nat
        /\ \A i \in 1..Cardinality(S) : InOrder(S)[i] \in S
        /\ \A i, j \in 1..Cardinality(S) : i < j => InOrder(S)[i] < InOrder(S)[j]
        /\ \A n \in S : \E i \in 1..Cardinality(S) : InOrder(S)[i] = n
    BY <1>1, InOrderCorrect
  <2> QED
    BY <1>2, <2>1 DEF L
<1>4. sh = [p \in 1..q |-> [title |-> title, rows |-> page(p)]]
  BY DEF Sheets
<1> HIDE DEF rows, sh
<1>5. rows \in Seq(Nat)
  <2>1. S \in SUBSET Nat
    BY <1>1
  <2>2. rows \in [1..L -> S]
    BY <1>3, LenProperties
  <2>3. rows \in [1..L -> Nat]
    BY <2>1, <2>2
  <2> QED
    BY <1>3, <2>3, SeqDef
<1>6. q \in Nat /\ \A i \in 1..L : \E p \in 1..q : Before(p) < i /\ i <= Before(p) + ins_per_page
  BY <1>3, PagesNeeded
<1> DEFINE F(p) == /\ page(p) \in Seq(Nat) /\ Len(page(p)) \in 1..ins_per_page /\ DOMAIN page(p) = 1..Len(page(p))
                   /\ \A i \in 1..Len(page(p)) : Before(p) + i \in 1..L /\ page(p)[i] = rows[Before(p) + i]
                   /\ \A i \in 1..L : Before(p) < i /\ i <= Before(p) + ins_per_page => i - Before(p) \in 1..Len(page(p))
<1>7. \A p \in 1..q : F(p)
  BY <1>5, PageShape
<1> HIDE DEF q, L, page
<1>8. \A p \in 1..q : sh[p].title = title /\ sh[p].rows = page(p)
  BY <1>4
<1>9. sh \in Seq(SheetOf(T)) /\ DOMAIN sh = 1..q
  <2>1. \A p \in 1..q : [title |-> title, rows |-> page(p)] \in SheetOf(T)
    BY <1>7 DEF SheetOf
  <2>2. sh \in [1..q -> SheetOf(T)]
    BY <1>4, <2>1
  <2> QED
    BY <1>6, <2>2, SeqDef
<1>10. \A n \in DOMAIN sh : WellMade(sh[n]) /\ sh[n].title = title
  BY <1>7, <1>8, <1>9 DEF WellMade
<1>11. OrderedIn(sh)
  <2> SUFFICES ASSUME NEW m \in 1..q, NEW n \in 1..q, NEW i \in DOMAIN page(m), NEW j \in DOMAIN page(n),
                      m < n \/ (m = n /\ i < j)
               PROVE  page(m)[i] < page(n)[j]
    BY <1>8, <1>9 DEF OrderedIn
  <2>1. /\ i \in 1..Len(page(m)) /\ j \in 1..Len(page(n))
        /\ Before(m) + i \in 1..L /\ page(m)[i] = rows[Before(m) + i]
        /\ Before(n) + j \in 1..L /\ page(n)[j] = rows[Before(n) + j]
        /\ Len(page(m)) \in 1..ins_per_page /\ Len(page(n)) \in 1..ins_per_page
    BY <1>7
  <2>2. /\ Before(m) \in Nat /\ Before(n) \in Nat
        /\ m < n => Before(m) + ins_per_page <= Before(n)
    <3>1. m \in Nat \ {0} /\ n \in Nat \ {0}
      BY <1>6
    <3> QED
      BY <3>1, BeforePage
  <2>3. Before(m) + i < Before(n) + j
    <3>1. ins_per_page \in Nat
      BY PageAssumption
    <3>2. CASE m < n
      <4>1. Before(m) + ins_per_page <= Before(n)
        BY <2>2, <3>2
      <4> QED
        BY ONLY <2>1, <2>2, <3>1, <4>1, SMTT(30)
    <3>3. CASE m = n /\ i < j
      <4>1. Before(m) = Before(n)
        BY <3>3
      <4> QED
        BY ONLY <2>1, <2>2, <3>1, <3>3, <4>1
    <3> QED
      BY <3>2, <3>3
  <2> QED
    BY <1>3, <2>1, <2>3
<1>12. ASSUME NEW r \in OnSheets(sh) PROVE r \in S
  <2>1. PICK p \in 1..q : r \in RowsOf(sh[p])
    BY <1>9 DEF OnSheets
  <2>2. PICK i \in 1..Len(page(p)) : page(p)[i] = r
    BY <1>8, <1>9, <1>10, <2>1, RowsFacts
  <2>3. Before(p) + i \in 1..L /\ page(p)[i] = rows[Before(p) + i]
    BY <1>7
  <2> QED
    BY <1>3, <2>2, <2>3
<1>13. ASSUME NEW r \in S PROVE r \in OnSheets(sh)
  <2>1. PICK i \in 1..L : rows[i] = r
    BY <1>3
  <2>2. PICK p \in 1..q : Before(p) < i /\ i <= Before(p) + ins_per_page
    BY <1>6
  <2> DEFINE j == i - Before(p)
  <2>3. j \in 1..Len(page(p)) /\ Before(p) + j = i
    <3>1. i - Before(p) \in 1..Len(page(p))
      BY <1>7, <2>2
    <3>2. Before(p) \in Nat /\ i \in Nat
      <4>1. p \in Nat \ {0} /\ i \in Nat
        BY <1>3, <1>6
      <4> QED
        BY <4>1, BeforePage
    <3> QED
      BY <3>1, <3>2
  <2> HIDE DEF j
  <2>4. page(p)[j] = r
    BY <1>7, <2>1, <2>3
  <2>5. r \in RowsOf(sh[p])
    BY <1>8, <1>9, <1>10, <2>3, <2>4, RowsFacts
  <2> QED
    BY <1>9, <2>5 DEF OnSheets
<1>14. OnSheets(sh) = S
  BY <1>12, <1>13
<1> QED
  BY <1>9, <1>10, <1>11, <1>14 DEF sh, S

TitleSet(opts) == Kernels \cup {"", opts.kernel}

\* The sheets show the samples with events before row b of what is asked for.
Fits(sheet, rows, opts, b) ==
  /\ WellMade(sheet)
  /\ opts.kernel \in {sheet.title, ""}
  /\ \A r \in RowsOf(sheet) : r \in 1..(b - 1) /\ rows[r].events /\ rows[r].kernel = sheet.title
Sheeted(sh, rows, opts, b) ==
  /\ sh \in Seq(SheetOf(TitleSet(opts)))
  /\ OrderedIn(sh)
  /\ \A n \in DOMAIN sh : Fits(sh[n], rows, opts, b)
  /\ \A r \in 1..(b - 1) : rows[r].events /\ opts.kernel \in {rows[r].kernel, ""} => r \in OnSheets(sh)

LEMMA FitsRow ==
  ASSUME NEW sheet, NEW rows, NEW opts, NEW b, Fits(sheet, rows, opts, b), NEW r \in RowsOf(sheet)
  PROVE  r \in 1..(b - 1) /\ rows[r].events /\ rows[r].kernel = sheet.title
BY DEF Fits

LEMMA NoSheets ==
  ASSUME NEW rows, NEW opts, NEW b,
         \A r \in 1..(b - 1) : ~(opts.kernel \in {rows[r].kernel, ""})
  PROVE  Sheeted(<<>>, rows, opts, b)
<1> DEFINE T == SheetOf(TitleSet(opts))
<1>1. <<>> \in Seq(T) /\ DOMAIN <<>> = {}
  <2> HIDE DEF T
  <2> QED
    BY ONLY EmptySeq
<1>2. OrderedIn(<<>>)
  BY <1>1 DEF OrderedIn
<1> QED
  BY <1>1, <1>2 DEF Sheeted

\* The sheets of the rows from first to the one before stop follow those before.
LEMMA AddSheets ==
  ASSUME frame \in Seq(SampleRow), NEW first \in Nat \ {0}, NEW stop \in 1..(Len(frame) + 1), first <= stop,
         NEW title \in TitleSet(options), options.kernel \in {title, ""},
         \A n \in first..(stop - 1) : frame[n].kernel = title,
         Sheeted(sheets, frame, options, first),
         NEW all, all = sheets \o Sheets(first, stop, title)
  PROVE  Sheeted(all, frame, options, stop)
<1> DEFINE T == TitleSet(options)
           new == Sheets(first, stop, title)
           S == {n \in first..(stop - 1) : frame[n].events}
           L == Len(sheets)
<1>1. /\ sheets \in Seq(SheetOf(T)) /\ OrderedIn(sheets)
      /\ \A n \in DOMAIN sheets : Fits(sheets[n], frame, options, first)
      /\ \A r \in 1..(first - 1) :
           frame[r].events /\ options.kernel \in {frame[r].kernel, ""} => r \in OnSheets(sheets)
  BY DEF Sheeted
<1>2. /\ new \in Seq(SheetOf(T)) /\ OrderedIn(new)
      /\ \A n \in DOMAIN new : WellMade(new[n]) /\ new[n].title = title
      /\ OnSheets(new) = S
  BY SheetsShape
<1>0. Len(frame) \in Nat
  BY LenProperties
<1>3. /\ first \in Nat /\ stop \in Nat /\ first >= 1 /\ first <= stop
      /\ \A r \in S : r \in Nat /\ first <= r /\ r < stop /\ frame[r].events
  <2>1. first \in Nat /\ stop \in Nat /\ first >= 1 /\ first <= stop
    BY ONLY <1>0, first \in Nat \ {0}, stop \in 1..(Len(frame) + 1), first <= stop
  <2>2. \A r \in first..(stop - 1) : r \in Nat /\ first <= r /\ r < stop
    BY ONLY <2>1
  <2> QED
    BY ONLY <2>1, <2>2
<1>31. /\ \A r \in S : r \in 1..(stop - 1) /\ ~(r \in 1..(first - 1))
       /\ \A r \in 1..(first - 1) : r \in 1..(stop - 1) /\ r < first
       /\ \A r \in 1..(stop - 1) : r \in 1..(first - 1) \/ r \in first..(stop - 1)
       /\ \A a \in 1..(first - 1), b \in S : a < b
  <2> HIDE DEF S
  <2> QED
    BY ONLY <1>3
<1>32. \A r \in S : frame[r].kernel = title
  OBVIOUS
<1> HIDE DEF T, new
<1>4. /\ all \in Seq(SheetOf(T)) /\ Len(all) = L + Len(new)
      /\ \A n \in 1..(L + Len(new)) : all[n] = IF n <= L THEN sheets[n] ELSE new[n - L]
  <2>1. all = sheets \o new
    BY DEF new
  <2> DEFINE U == SheetOf(T)
  <2>2. sheets \in Seq(U) /\ new \in Seq(U)
    BY <1>1, <1>2
  <2> HIDE DEF U
  <2>3. /\ all \in Seq(U) /\ Len(all) = Len(sheets) + Len(new)
        /\ \A n \in 1..(Len(sheets) + Len(new)) :
             all[n] = IF n <= Len(sheets) THEN sheets[n] ELSE new[n - Len(sheets)]
    BY ONLY <2>1, <2>2, ConcatProperties
  <2> QED
    BY <2>3 DEF U
<1>5. /\ L \in Nat /\ Len(new) \in Nat
      /\ DOMAIN sheets = 1..L /\ DOMAIN new = 1..Len(new) /\ DOMAIN all = 1..(L + Len(new))
  BY <1>1, <1>2, <1>4, LenProperties
<1> HIDE DEF L, S
<1>6. /\ \A n \in 1..L : n \in DOMAIN all /\ all[n] = sheets[n]
      /\ \A n \in 1..Len(new) : L + n \in DOMAIN all /\ all[L + n] = new[n]
      /\ \A n \in DOMAIN all : (n \in 1..L \/ n - L \in 1..Len(new)) /\ (n \in 1..L <=> n <= L)
  <2>1. \A n \in 1..L : n \in 1..(L + Len(new)) /\ n <= L
    BY ONLY <1>5
  <2>2. \A n \in 1..Len(new) : L + n \in 1..(L + Len(new)) /\ ~(L + n <= L) /\ L + n - L = n
    BY ONLY <1>5
  <2>3. \A n \in 1..(L + Len(new)) :
          /\ n \in 1..L \/ n - L \in 1..Len(new)
          /\ n \in 1..L <=> n <= L
    BY ONLY <1>5
  <2> QED
    BY ONLY <1>4, <1>5, <2>1, <2>2, <2>3
<1> DEFINE Old(n) == n \in 1..L
           New(n) == n - L \in 1..Len(new)
<1>7. \A n \in DOMAIN all : \/ Old(n) /\ all[n] = sheets[n]
                            \/ New(n) /\ all[n] = new[n - L]
  BY ONLY <1>4, <1>5, <1>6
<1>8. \A n \in 1..Len(new) : \A r \in RowsOf(new[n]) : r \in S
  BY <1>2, <1>5 DEF OnSheets
<1>9. OnSheets(all) = OnSheets(sheets) \cup S
  <2>1. ASSUME NEW r \in OnSheets(all) PROVE r \in OnSheets(sheets) \cup S
    <3>1. PICK n \in DOMAIN all : r \in RowsOf(all[n])
      BY DEF OnSheets
    <3>2. CASE Old(n) /\ all[n] = sheets[n]
      BY <1>5, <3>1, <3>2 DEF OnSheets
    <3>3. CASE New(n) /\ all[n] = new[n - L]
      BY <1>8, <3>1, <3>3
    <3> QED
      BY <1>7, <3>2, <3>3
  <2>2. ASSUME NEW r \in OnSheets(sheets) PROVE r \in OnSheets(all)
    <3>1. PICK n \in 1..L : r \in RowsOf(sheets[n])
      BY <1>5 DEF OnSheets
    <3> QED
      BY <1>6, <3>1 DEF OnSheets
  <2>3. ASSUME NEW r \in S PROVE r \in OnSheets(all)
    <3>1. PICK n \in 1..Len(new) : r \in RowsOf(new[n])
      BY <1>2, <1>5 DEF OnSheets
    <3> QED
      BY <1>6, <3>1 DEF OnSheets
  <2> QED
    BY <2>1, <2>2, <2>3
<1>10. ASSUME NEW n \in DOMAIN all PROVE Fits(all[n], frame, options, stop)
  <2>1. CASE Old(n) /\ all[n] = sheets[n]
    <3>1. Fits(all[n], frame, options, first)
      BY <1>1, <1>5, <2>1
    <3> QED
      BY <1>31, <3>1 DEF Fits
  <2>2. CASE New(n) /\ all[n] = new[n - L]
    <3>1. WellMade(all[n]) /\ all[n].title = title /\ \A r \in RowsOf(all[n]) : r \in S
      BY <1>2, <1>5, <1>8, <2>2
    <3>2. \A r \in S : r \in 1..(stop - 1) /\ frame[r].events /\ frame[r].kernel = title
      BY <1>3, <1>31, <1>32
    <3> QED
      BY <3>1, <3>2 DEF Fits
  <2> QED
    BY <1>7, <2>1, <2>2
<1>11. ASSUME NEW r \in 1..(stop - 1), frame[r].events, options.kernel \in {frame[r].kernel, ""}
       PROVE  r \in OnSheets(all)
  <2>1. r \in 1..(first - 1) \/ r \in S
    BY <1>11, <1>31 DEF S
  <2> QED
    BY <1>1, <1>9, <1>11, <2>1
<1>12. OrderedIn(all)
  <2> SUFFICES ASSUME NEW m \in DOMAIN all, NEW n \in DOMAIN all,
                      NEW i \in DOMAIN all[m].rows, NEW j \in DOMAIN all[n].rows,
                      m < n \/ (m = n /\ i < j)
               PROVE  all[m].rows[i] < all[n].rows[j]
    BY DEF OrderedIn
  <2>1. CASE Old(m) /\ Old(n)
    BY <1>1, <1>5, <1>6, <2>1 DEF OrderedIn
  <2>2. CASE New(m) /\ all[m] = new[m - L] /\ New(n) /\ all[n] = new[n - L]
    <3> DEFINE a == m - L
               b == n - L
    <3>1. a \in DOMAIN new /\ b \in DOMAIN new /\ all[m] = new[a] /\ all[n] = new[b]
      BY <1>5, <2>2
    <3>2. a < b \/ (a = b /\ i < j)
      <4>1. m \in Int /\ n \in Int
        BY ONLY <1>5, m \in DOMAIN all, n \in DOMAIN all
      <4>2. (m < n => a < b) /\ (m = n => a = b)
        BY ONLY <1>5, <4>1
      <4> QED
        BY <4>2
    <3> HIDE DEF a, b
    <3> QED
      BY <1>2, <3>1, <3>2 DEF OrderedIn
  <2>3. CASE Old(m) /\ all[m] = sheets[m] /\ New(n) /\ all[n] = new[n - L]
    <3>1. all[m] = sheets[m] /\ all[n] = new[n - L]
      BY <2>3
    <3>2. all[m].rows[i] \in RowsOf(all[m]) /\ all[n].rows[j] \in RowsOf(all[n])
      BY DEF RowsOf, ToSet
    <3>3. all[m].rows[i] \in 1..(first - 1) /\ all[n].rows[j] \in S
      BY <1>1, <1>5, <1>8, <2>3, <3>1, <3>2 DEF Fits
    <3> QED
      BY <1>31, <3>3
  <2>4. CASE New(m) /\ Old(n)
    <3>1. ~(m < n) /\ m # n
      BY ONLY <1>5, <2>4, m \in DOMAIN all
    <3> QED
      BY <3>1
  <2> QED
    BY <1>7, <2>1, <2>2, <2>3, <2>4
<1> QED
  BY <1>4, <1>10, <1>11, <1>12 DEF Sheeted, T

ShownOn(sh, k) == UNION {RowsOf(sh[n]) : n \in {m \in DOMAIN sh : sh[m].title = k}}

\* All rows: what StallsOnSheets says of the sheets.
LEMMA SheetedAll ==
  ASSUME frame \in Seq(SampleRow), NEW sh, Sheeted(sh, frame, options, Len(frame) + 1)
  PROVE  \A k \in Kernels : ShownOn(sh, k) = IF options.kernel \in {k, ""} THEN Events(k) ELSE {}
<1> TAKE k \in Kernels
<1>1. Len(frame) \in Nat /\ DOMAIN frame = 1..Len(frame) /\ Len(frame) + 1 - 1 = Len(frame)
  BY LenProperties
<1>2. /\ \A n \in DOMAIN sh : Fits(sh[n], frame, options, Len(frame) + 1)
      /\ \A r \in 1..Len(frame) :
           frame[r].events /\ options.kernel \in {frame[r].kernel, ""} => r \in OnSheets(sh)
  <2> DEFINE b == Len(frame) + 1
  <2>1. b - 1 = Len(frame)
    BY <1>1
  <2> HIDE DEF b
  <2>2. Sheeted(sh, frame, options, b)
    BY DEF b
  <2> QED
    BY ONLY <2>1, <2>2 DEF Sheeted, b
<1>3. \A r : r \in ShownOn(sh, k) <=> \E n \in DOMAIN sh : sh[n].title = k /\ r \in RowsOf(sh[n])
  BY DEF ShownOn
<1>4. ASSUME NEW r \in ShownOn(sh, k) PROVE options.kernel \in {k, ""} /\ r \in Events(k)
  <2>1. PICK n \in DOMAIN sh : sh[n].title = k /\ r \in RowsOf(sh[n])
    BY <1>3, <1>4
  <2>2. Fits(sh[n], frame, options, Len(frame) + 1)
    BY <1>2
  <2> DEFINE b == Len(frame) + 1
  <2> HIDE DEF b
  <2>3. Fits(sh[n], frame, options, b)
    BY <2>2 DEF b
  <2>4. r \in 1..(b - 1) /\ frame[r].events /\ frame[r].kernel = k
    BY <2>1, <2>3, FitsRow
  <2>5. options.kernel \in {k, ""}
    BY <2>1, <2>3, Zenon DEF Fits
  <2>6. r \in DOMAIN frame
    BY <1>1, <2>4 DEF b
  <2> QED
    BY <2>4, <2>5, <2>6, Zenon DEF Events
<1>5. ASSUME NEW r \in Events(k), options.kernel \in {k, ""} PROVE r \in ShownOn(sh, k)
  <2>1. r \in 1..Len(frame) /\ frame[r].events /\ frame[r].kernel = k
    BY <1>1 DEF Events
  <2>2. PICK n \in DOMAIN sh : r \in RowsOf(sh[n])
    BY <1>2, <1>5, <2>1 DEF OnSheets
  <2>3. sh[n].title = k
    BY <1>2, <2>1, <2>2 DEF Fits
  <2> QED
    BY <1>3, <2>2, <2>3
<1> QED
  BY <1>4, <1>5

--------------------------------------------------------------------------------
(* The loops over stall events.                                            *)

General(sh, opts) ==
  /\ sh \in Seq(SheetOf(TitleSet(opts))) /\ OrderedIn(sh)
  /\ \A n \in DOMAIN sh : WellMade(sh[n])

StallFrame ==
  /\ frame \in Seq(SampleRow) /\ OneBlockEach(frame)
  /\ index \in 1..(Len(frame) + 1) /\ start \in 1..index
  /\ options.dump # "missing" /\ HasEvents(options.device)
InStalls ==
  /\ options.kernel = NoName /\ Sheeted(sheets, frame, options, start)
  /\ kernel \in Kernels \cup {NoName}
  /\ kernel = NoName => start = index
  /\ \A n \in start..(index - 1) : frame[n].kernel = kernel
InStall ==
  /\ options.kernel # NoName
  /\ \/ counting = TRUE /\ \A n \in 1..(index - 1) : frame[n].kernel # options.kernel
     \/ /\ counting = FALSE /\ start < index
        /\ \A n \in 1..(start - 1) : frame[n].kernel # options.kernel
        /\ \A n \in start..(index - 1) : frame[n].kernel = options.kernel

SheetsInv ==
  /\ file \in Files
  /\ General(sheets, options)
  /\ pc \in {"start", "list", "scan", "serve", "get", "all", "find", "one", "stalls", "stall"} => closed = FALSE
  /\ pc \in {"start", "list", "scan", "serve", "get", "all", "find", "one", "stall"} => sheets = <<>>
  /\ pc \in {"start", "scan", "serve", "get"} => frame = <<>>
  /\ pc \in {"all", "find", "one"} => ~HasEvents(options.device)
  /\ pc \in {"stalls", "stall"} => StallFrame
  /\ pc = "stalls" => InStalls
  /\ pc = "stall" => InStall
  /\ StallsOnSheets

LEMMA SheetedGeneral == ASSUME NEW sh, NEW rows, NEW opts, NEW b, Sheeted(sh, rows, opts, b) PROVE General(sh, opts)
BY DEF Sheeted, General, Fits

LEMMA GeneralSheets ==
  ASSUME General(sheets', options')
  PROVE  (\A n \in DOMAIN sheets' : Len(sheets'[n].rows) \in 1..ins_per_page) /\ InTurn'
BY DEF General, WellMade, OrderedIn, InTurn

\* The script goes on, or has nothing of stall events.
LEMMA NotYet ==
  ASSUME General(sheets', options'),
         pc' # "ended" \/ frame' = <<>> \/ ~HasEvents(options.device)',
         UNCHANGED <<file, options>>
  PROVE  StallsOnSheets'
BY GeneralSheets DEF StallsOnSheets, HasEvents

LEMMA AllSheets ==
  ASSUME UNCHANGED <<file, options, frame>>, frame \in Seq(SampleRow), options.dump # "missing",
         Sheeted(sheets', frame, options, Len(frame) + 1), closed' = (sheets' # <<>>)
  PROVE  StallsOnSheets'
<1>1. General(sheets', options')
  BY SheetedGeneral
<1>2. \A k \in Kernels : ShownOn(sheets', k) = IF options.kernel \in {k, ""} THEN Events(k) ELSE {}
  BY SheetedAll
<1>3. \A k : Shown(k)' = ShownOn(sheets', k) /\ Events(k)' = Events(k)
  BY DEF Shown, ShownOn, RowsOf, Events
<1>4. \A k \in Kernels :
        Shown(k)' = IF options'.kernel \in {k, ""} /\ options'.dump # "missing" THEN Events(k)' ELSE {}
  BY <1>2, <1>3
<1> QED
  BY <1>1, <1>4, GeneralSheets DEF StallsOnSheets

LEMMA SheetsInit == Init => SheetsInv
<1> SUFFICES ASSUME Init PROVE SheetsInv
  OBVIOUS
<1>1. file \in Files /\ pc = "start" /\ sheets = <<>> /\ frame = <<>> /\ closed = FALSE
  BY DEF Init, ChartsInit
<1>2. Sheeted(<<>>, frame, options, 1)
  <2>1. 1..(1 - 1) = {}
    OBVIOUS
  <2>2. \A r \in 1..(1 - 1) : ~(options.kernel \in {frame[r].kernel, ""})
    BY <2>1
  <2> QED
    BY <2>2, NoSheets
<1>3. General(sheets, options)
  BY <1>1, <1>2, SheetedGeneral
<1>4. StallsOnSheets
  BY <1>1, <1>3 DEF StallsOnSheets, General, WellMade, OrderedIn, InTurn
<1> QED
  BY <1>1, <1>3, <1>4 DEF SheetsInv

\* Outside of the two loops.
LEMMA OtherSheets ==
  ASSUME SheetsInv, UNCHANGED <<file, options, sheets>>,
         pc \in {"start", "list", "scan", "serve", "get", "all", "find", "one"},
         closed' = FALSE \/ pc' \in {"ended", "failed"},
         \/ pc' \in {"start", "list", "scan", "serve", "get", "ended"} /\ frame' = <<>>
         \/ pc' = "list"
         \/ pc' \in {"all", "find", "one", "ended", "failed"} /\ ~HasEvents(options.device)
         \/ pc' = "failed"
  PROVE  SheetsInv'
<1>1. General(sheets', options') /\ file' \in Files /\ sheets' = <<>>
  BY DEF SheetsInv
<1>2. HasEvents(options.device)' = HasEvents(options.device)
  BY DEF HasEvents
<1>3. pc' # "ended" \/ frame' = <<>> \/ ~HasEvents(options.device)'
  BY <1>2
<1>4. StallsOnSheets'
  BY <1>1, <1>3, NotYet
<1> QED
  BY <1>1, <1>2, <1>4 DEF SheetsInv

LEMMA PlotSheets == ASSUME SheetsInv, Plot PROVE SheetsInv'
<1>1. /\ pc = "start" /\ sheets = <<>> /\ closed = FALSE /\ UNCHANGED <<file, options, sheets, closed>>
      /\ file \in Files /\ General(sheets', options')
  BY DEF SheetsInv, Plot, AnalyzeStallMetrics, AnalyzePerfMetrics
<1>2. CASE ~HasEvents(options.device)
  <2>1. pc' \in {"ended", "find", "all", "one"}
    BY <1>2 DEF Plot, AnalyzePerfMetrics
  <2> QED
    BY <1>1, <1>2, <2>1, OtherSheets
<1>3. CASE HasEvents(options.device)
  <2>1. /\ frame' = FrameOf(file, options.device)
        /\ pc' = IF options.dump = "missing" THEN "ended" ELSE IF options.kernel = NoName THEN "stalls" ELSE "stall"
        /\ index' = 1 /\ start' = 1 /\ kernel' = NoName /\ counting' = TRUE
    BY <1>3, Zenon DEF Plot, AnalyzeStallMetrics, Rewound, NoName
  <2>2. frame' \in Seq(SampleRow) /\ OneBlockEach(frame')
    <3>1. options.device \in Devices(file) /\ file[HeaderOf(file, options.device)].stall
      BY <1>3 DEF Plot, Refused, HasEvents
    <3> QED
      BY <1>1, <2>1, <3>1, FileAssumption
  <2>3. Len(frame') \in Nat /\ 1 \in 1..(Len(frame') + 1) /\ 1 \in 1..1 /\ 1..(1 - 1) = {}
    <3>1. Len(frame') \in Nat
      BY <2>2, LenProperties
    <3> QED
      BY ONLY <3>1
  <2>4. HasEvents(options.device)'
    BY <1>1, <1>3 DEF HasEvents
  <2>5. CASE options.dump = "missing"
    <3>1. pc' = "ended" /\ sheets' = <<>> /\ closed' = FALSE
      BY <1>1, <2>1, <2>5
    <3>2. \A k \in Kernels : Shown(k)' = {}
      BY <3>1 DEF Shown
    <3>3. StallsOnSheets'
      BY <1>1, <2>5, <3>1, <3>2, GeneralSheets DEF StallsOnSheets
    <3> QED
      BY <1>1, <3>1, <3>3 DEF SheetsInv
  <2>6. CASE options.dump # "missing"
    <3>1. pc' \in {"stalls", "stall"} /\ StallFrame'
      BY <1>1, <2>1, <2>2, <2>3, <2>4, <2>6 DEF StallFrame
    <3>2. StallsOnSheets'
      BY <1>1, <3>1, NotYet
    <3>3. ASSUME pc' = "stalls" PROVE InStalls'
      <4>1. options.kernel = NoName
        BY <2>1, <2>6, <3>3
      <4>2. Sheeted(<<>>, frame', options', 1)
        BY <2>3, NoSheets
      <4> QED
        BY <1>1, <2>1, <2>3, <4>1, <4>2 DEF InStalls
    <3>4. ASSUME pc' = "stall" PROVE InStall'
      <4>1. options.kernel # NoName
        BY <2>1, <2>6, <3>4
      <4> QED
        BY <1>1, <2>1, <2>3, <4>1 DEF InStall
    <3> QED
      BY <1>1, <3>1, <3>2, <3>3, <3>4 DEF SheetsInv
  <2> QED
    BY <2>5, <2>6
<1> QED
  BY <1>2, <1>3

\* The index and the row it is at.
LEMMA StallFacts ==
  ASSUME StallFrame
  PROVE  /\ frame \in Seq(SampleRow) /\ Len(frame) \in Nat /\ index \in Nat /\ start \in Nat \ {0}
         /\ start <= index /\ index <= Len(frame) + 1 /\ index >= 1 /\ index + 1 - 1 = index
         /\ index <= Len(frame) => index \in 1..Len(frame) /\ frame[index].kernel \in Kernels
                                     /\ index + 1 \in 1..(Len(frame) + 1)
<1>1. frame \in Seq(SampleRow) /\ index \in 1..(Len(frame) + 1) /\ start \in 1..index
  BY DEF StallFrame
<1>2. Len(frame) \in Nat
  BY <1>1, LenProperties
<1>3. /\ index \in Nat /\ start \in Nat \ {0} /\ start <= index /\ index <= Len(frame) + 1
      /\ index >= 1 /\ index + 1 - 1 = index
      /\ index <= Len(frame) => index \in 1..Len(frame) /\ index + 1 \in 1..(Len(frame) + 1)
  BY ONLY <1>1, <1>2
<1>4. index <= Len(frame) => frame[index].kernel \in Kernels
  <2> SUFFICES ASSUME index <= Len(frame) PROVE frame[index].kernel \in Kernels
    OBVIOUS
  <2>1. frame[index] \in SampleRow
    BY <1>1, <1>3, ElementOfSeq
  <2> QED
    BY <2>1 DEF SampleRow
<1> QED
  BY <1>1, <1>2, <1>3, <1>4

\* A sheet is plotted and the script goes on or ends.
InBlock(rows, first, stop, k) == \A n \in first..(stop - 1) : rows[n].kernel = k
LEMMA PlottedSheets ==
  ASSUME StallFrame, UNCHANGED options, Sheeted(sheets, frame, options, start),
         NEW stop, stop \in 1..(Len(frame) + 1), start <= stop,
         NEW title, title \in TitleSet(options), options.kernel \in {title, ""},
         InBlock(frame, start, stop, title),
         NEW next, PlotStalls(stop, title, next)
  PROVE  /\ Sheeted(sheets', frame, options, stop) /\ General(sheets', options')
         /\ \/ pc' = next /\ (next # "ended" => closed' = FALSE)
                         /\ (next = "ended" => closed' = (sheets' # <<>>))
            \/ pc' = "failed"
<1>1. sheets' = sheets \o Sheets(start, stop, title)
  BY DEF PlotStalls
<1>2. Sheeted(sheets', frame, options, stop)
  BY <1>1, StallFacts, AddSheets DEF InBlock
<1>3. General(sheets', options')
  BY <1>2, SheetedGeneral
<1>4. \/ pc' = next /\ (next # "ended" => closed' = FALSE)
                   /\ (next = "ended" => closed' = (sheets' # <<>>))
      \/ pc' = "failed"
  <2>1. pc' = "failed" \/ (pc' = next /\ closed' = (next = "ended" /\ sheets' # <<>>))
    BY Zenon DEF PlotStalls
  <2> QED
    BY <2>1, Zenon
<1> QED
  BY <1>2, <1>3, <1>4

LEMMA StallsRowSheets == ASSUME SheetsInv, StallsRow PROVE SheetsInv'
<1>1. /\ pc = "stalls" /\ StallFrame /\ InStalls /\ closed = FALSE /\ file \in Files
      /\ UNCHANGED <<file, options, frame>> /\ index' = index + 1 /\ index <= Len(frame)
      /\ General(sheets, options) /\ kernel' = frame[index].kernel
  BY DEF SheetsInv, StallsRow
<1>2. /\ Len(frame) \in Nat /\ index \in Nat /\ start \in Nat \ {0} /\ start <= index
      /\ index + 1 - 1 = index /\ index \in 1..Len(frame) /\ frame[index].kernel \in Kernels
      /\ index + 1 \in 1..(Len(frame) + 1)
  BY <1>1, StallFacts
<1>3. ASSUME start' \in 1..(index + 1), pc' = "stalls" PROVE StallFrame'
  <2>1. HasEvents(options.device)' = HasEvents(options.device)
    BY <1>1 DEF HasEvents
  <2> QED
    BY <1>1, <1>2, <1>3, <2>1 DEF StallFrame
<1>4. frame[index].kernel # NoName /\ kernel' \in Kernels /\ kernel' # NoName
  BY <1>1, <1>2, KernelAssumption DEF NoName
<1>5. CASE kernel \in {NoName, frame[index].kernel} /\ UNCHANGED <<pc, sheets, closed, start>>
  <2>1. start' \in 1..(index + 1)
    BY ONLY <1>2, <1>5
  <2>2. \A n \in start'..(index' - 1) : frame'[n].kernel = kernel'
    <3>1. ASSUME NEW n \in start..index PROVE frame[n].kernel = frame[index].kernel
      <4>1. CASE n = index
        BY <4>1
      <4>2. CASE n # index
        <5>1. n \in start..(index - 1) /\ start # index
          BY ONLY <1>2, <4>2, n \in start..index
        <5> QED
          BY <1>1, <1>5, <5>1 DEF InStalls
      <4> QED
        BY <4>1, <4>2
    <3> QED
      BY <1>1, <1>2, <1>5, <3>1
  <2>3. InStalls'
    BY <1>1, <1>4, <1>5, <2>2 DEF InStalls
  <2>4. StallsOnSheets'
    BY <1>1, <1>5, NotYet
  <2> QED
    BY <1>1, <1>3, <1>5, <2>1, <2>3, <2>4 DEF SheetsInv
<1>6. CASE kernel \notin {NoName, frame[index].kernel} /\ PlotStalls(index, kernel, "stalls") /\ start' = index
  <2>1. kernel \in TitleSet(options) /\ options.kernel \in {kernel, ""}
    BY <1>1, Zenon DEF InStalls, TitleSet, NoName
  <2>2. /\ Sheeted(sheets', frame, options, index) /\ General(sheets', options')
        /\ (pc' = "stalls" /\ closed' = FALSE) \/ pc' = "failed"
    <3>1. InBlock(frame, start, index, kernel)
      BY <1>1 DEF InStalls, InBlock
    <3>2. index \in 1..(Len(frame) + 1) /\ Sheeted(sheets, frame, options, start)
      BY <1>1, <1>2 DEF InStalls
    <3>3. PlotStalls(index, kernel, "stalls") /\ start <= index
      BY <1>2, <1>6
    <3>4. StallFrame /\ UNCHANGED options
      BY <1>1
    <3>5. /\ Sheeted(sheets', frame, options, index) /\ General(sheets', options')
          /\ \/ pc' = "stalls" /\ ("stalls" # "ended" => closed' = FALSE)
                             /\ ("stalls" = "ended" => closed' = (sheets' # <<>>))
             \/ pc' = "failed"
      BY <2>1, <3>1, <3>2, <3>3, <3>4, PlottedSheets
    <3> QED
      BY <3>5
  <2>3. StallsOnSheets'
    BY <1>1, <2>2, NotYet
  <2>4. start' \in 1..(index + 1) /\ \A n \in start'..(index' - 1) : n = index
    BY ONLY <1>1, <1>2, <1>6
  <2>5. InStalls'
    <3>1. \A n \in start'..(index' - 1) : frame'[n].kernel = kernel'
      BY <1>1, <2>4
    <3> QED
      BY <1>1, <1>4, <1>6, <2>2, <3>1 DEF InStalls
  <2> QED
    BY <1>1, <1>3, <2>2, <2>3, <2>4, <2>5 DEF SheetsInv
<1> QED
  BY <1>5, <1>6 DEF StallsRow, NoName

LEMMA StallsEndSheets == ASSUME SheetsInv, StallsEnd PROVE SheetsInv'
<1>1. /\ pc = "stalls" /\ StallFrame /\ InStalls /\ closed = FALSE /\ file \in Files
      /\ UNCHANGED <<file, options, frame>> /\ index > Len(frame)
      /\ PlotStalls(Len(frame) + 1, kernel, "ended")
  BY DEF SheetsInv, StallsEnd
<1>2. /\ Len(frame) \in Nat /\ index = Len(frame) + 1 /\ start <= index /\ index \in 1..(Len(frame) + 1)
      /\ frame \in Seq(SampleRow) /\ options.dump # "missing"
  <2>1. /\ Len(frame) \in Nat /\ index \in Nat /\ start <= index /\ index <= Len(frame) + 1 /\ index >= 1
        /\ frame \in Seq(SampleRow)
    BY <1>1, StallFacts
  <2>2. index = Len(frame) + 1
    BY ONLY <1>1, <2>1
  <2> QED
    BY <1>1, <2>1, <2>2 DEF StallFrame
<1>3. kernel \in TitleSet(options) /\ options.kernel \in {kernel, ""}
  BY <1>1, Zenon DEF InStalls, TitleSet, NoName
<1>4. /\ Sheeted(sheets', frame, options, index) /\ General(sheets', options')
      /\ (pc' = "ended" /\ closed' = (sheets' # <<>>)) \/ pc' = "failed"
  <2>1. InBlock(frame, start, index, kernel)
    BY <1>1 DEF InStalls, InBlock
  <2>2. Sheeted(sheets, frame, options, start) /\ PlotStalls(index, kernel, "ended")
    BY <1>1, <1>2 DEF InStalls
  <2> QED
    BY <1>1, <1>2, <1>3, <2>1, <2>2, PlottedSheets
<1>5. StallsOnSheets'
  <2>1. CASE pc' = "ended" /\ closed' = (sheets' # <<>>)
    BY <1>1, <1>2, <1>4, <2>1, AllSheets
  <2>2. CASE pc' = "failed"
    BY <1>1, <1>4, <2>2, NotYet
  <2> QED
    BY <1>4, <2>1, <2>2
<1> QED
  BY <1>1, <1>4, <1>5 DEF SheetsInv

LEMMA StallRowSheets == ASSUME SheetsInv, StallRow PROVE SheetsInv'
<1> DEFINE K == options.kernel
           new == counting /\ frame[index].kernel = K
<1>1. /\ pc = "stall" /\ StallFrame /\ InStall /\ closed = FALSE /\ file \in Files
      /\ UNCHANGED <<file, options, pc, frame, sheets, closed>> /\ index' = index + 1 /\ index <= Len(frame)
      /\ General(sheets, options) /\ sheets = <<>>
  BY DEF SheetsInv, StallRow, shared
<1>2. /\ Len(frame) \in Nat /\ index \in Nat /\ start \in Nat \ {0} /\ start <= index
      /\ index + 1 - 1 = index /\ index \in 1..Len(frame) /\ index + 1 \in 1..(Len(frame) + 1)
  BY <1>1, StallFacts
<1>3. /\ K # NoName
      /\ \/ counting = TRUE /\ \A n \in 1..(index - 1) : frame[n].kernel # K
         \/ /\ counting = FALSE /\ start < index
            /\ \A n \in 1..(start - 1) : frame[n].kernel # K
            /\ \A n \in start..(index - 1) : frame[n].kernel = K
  BY <1>1, Zenon DEF InStall
<1>4. /\ counting = TRUE /\ frame[index].kernel = K => start' = index /\ counting' = FALSE
      /\ counting = TRUE /\ frame[index].kernel # K => start' = start /\ counting' = TRUE
      /\ counting = FALSE => start' = start /\ counting' = FALSE /\ frame[index].kernel = K
  <2>1. /\ frame[index].kernel = K \/ counting
        /\ start' = (IF new THEN index ELSE start) /\ counting' = (counting /\ ~new)
    BY DEF StallRow
  <2> QED
    BY <2>1, Zenon
<1>5. /\ start' \in 1..(index + 1)
      /\ \A n \in 1..index : n \in 1..(index - 1) \/ n = index
      /\ \A n \in start..index : n \in start..(index - 1) \/ n = index
      /\ \A n \in index..index : n = index
  <2>1. start' = start \/ start' = index
    BY <1>3, <1>4
  <2> QED
    BY ONLY <1>2, <2>1
<1>6. InStall'
  <2>1. CASE counting = TRUE /\ frame[index].kernel = K
    <3>1. start' = index /\ counting' = FALSE /\ \A n \in 1..(index - 1) : frame[n].kernel # K
      BY <1>3, <1>4, <2>1
    <3>2. start' < index'
      BY ONLY <1>1, <1>2, <3>1
    <3>3. (\A n \in 1..(start' - 1) : frame[n].kernel # K) /\ (\A n \in start'..(index' - 1) : frame[n].kernel = K)
      BY <1>1, <1>2, <1>5, <2>1, <3>1
    <3> QED
      BY <1>1, <1>3, <3>1, <3>2, <3>3 DEF InStall
  <2>2. CASE counting = TRUE /\ frame[index].kernel # K
    <3>1. counting' = TRUE /\ \A n \in 1..index : frame[n].kernel # K
      BY <1>3, <1>4, <1>5, <2>2
    <3> QED
      BY <1>1, <1>2, <1>3, <3>1 DEF InStall
  <2>3. CASE counting = FALSE
    <3>1. /\ start' = start /\ counting' = FALSE /\ frame[index].kernel = K
          /\ start < index /\ \A n \in 1..(start - 1) : frame[n].kernel # K
          /\ \A n \in start..(index - 1) : frame[n].kernel = K
      BY <1>3, <1>4, <2>3
    <3>2. \A n \in start..index : frame[n].kernel = K
      BY <1>5, <3>1
    <3>3. start' < index'
      BY ONLY <1>1, <1>2, <3>1
    <3> QED
      BY <1>1, <1>2, <1>3, <3>1, <3>2, <3>3 DEF InStall
  <2> QED
    BY <1>3, <2>1, <2>2, <2>3
<1>7. StallFrame'
  <2>1. HasEvents(options.device)' = HasEvents(options.device)
    BY <1>1 DEF HasEvents
  <2> QED
    BY <1>1, <1>2, <1>5, <2>1 DEF StallFrame
<1>8. StallsOnSheets'
  BY <1>1, NotYet
<1> QED
  BY <1>1, <1>6, <1>7, <1>8 DEF SheetsInv

LEMMA StallEndSheets == ASSUME SheetsInv, StallEnd PROVE SheetsInv'
<1> DEFINE K == options.kernel
<1>1. /\ pc = "stall" /\ StallFrame /\ InStall /\ closed = FALSE /\ file \in Files
      /\ UNCHANGED <<file, options, frame>> /\ sheets = <<>> /\ General(sheets, options)
  BY DEF SheetsInv, StallEnd
<1>2. /\ Len(frame) \in Nat /\ index \in Nat /\ start \in Nat \ {0} /\ start <= index
      /\ index >= 1 /\ index <= Len(frame) + 1 /\ index \in 1..(Len(frame) + 1)
      /\ frame \in Seq(SampleRow) /\ options.dump # "missing" /\ OneBlockEach(frame)
      /\ DOMAIN frame = 1..Len(frame)
  <2>1. /\ Len(frame) \in Nat /\ index \in Nat /\ start \in Nat \ {0} /\ start <= index
        /\ index >= 1 /\ index <= Len(frame) + 1 /\ frame \in Seq(SampleRow)
    BY <1>1, StallFacts
  <2>2. index \in 1..(Len(frame) + 1)
    BY ONLY <2>1
  <2> QED
    BY <1>1, <2>1, <2>2, LenProperties DEF StallFrame
<1>3. /\ K # NoName
      /\ \/ counting = TRUE /\ \A n \in 1..(index - 1) : frame[n].kernel # K
         \/ /\ counting = FALSE /\ start < index
            /\ \A n \in 1..(start - 1) : frame[n].kernel # K
            /\ \A n \in start..(index - 1) : frame[n].kernel = K
  BY <1>1, Zenon DEF InStall
<1> DEFINE b == Len(frame) + 1
<1>4. CASE /\ ~counting /\ (IF index > Len(frame) THEN TRUE ELSE frame[index].kernel # K)
           /\ PlotStalls(index, K, "ended")
  <2>1. /\ start < index /\ \A n \in 1..(start - 1) : frame[n].kernel # K
        /\ \A n \in start..(index - 1) : frame[n].kernel = K
        /\ index <= Len(frame) => frame[index].kernel # K
    <3>1. ~(counting = TRUE)
      BY <1>4, Zenon
    <3> QED
      BY <1>2, <1>3, <1>4, <3>1
  <2>2. K \in TitleSet(options) /\ K \in {K, ""}
    BY DEF TitleSet
  <2>3. Sheeted(sheets, frame, options, start)
    <3>1. \A r \in 1..(start - 1) : ~(options.kernel \in {frame[r].kernel, ""})
      BY <1>3, <2>1 DEF NoName
    <3> QED
      BY <1>1, <3>1, NoSheets
  <2>4. /\ Sheeted(sheets', frame, options, index) /\ General(sheets', options')
        /\ (pc' = "ended" /\ closed' = (sheets' # <<>>)) \/ pc' = "failed"
    <3>1. InBlock(frame, start, index, K)
      BY <2>1 DEF InBlock
    <3> QED
      BY <1>1, <1>2, <1>4, <2>2, <2>3, <3>1, PlottedSheets
  <2>5. \A r \in index..Len(frame) : frame[r].kernel # K
    <3> SUFFICES ASSUME NEW r \in index..Len(frame), frame[r].kernel = K PROVE FALSE
      OBVIOUS
    <3>1. index <= Len(frame) /\ index # r
      <4>1. index <= Len(frame)
        BY ONLY <1>2, r \in index..Len(frame)
      <4> QED
        BY <2>1, <4>1
    <3>2. start \in 1..Len(frame) /\ index \in 1..Len(frame) /\ r \in 1..Len(frame) /\ start < index /\ index < r
      BY ONLY <1>2, <2>1, <3>1, r \in index..Len(frame)
    <3>3. frame[start].kernel = K
      <4>1. start \in start..(index - 1)
        BY ONLY <1>2, <2>1
      <4> QED
        BY <2>1, <4>1
    <3>4. frame[index].kernel = K
      BY <1>2, <3>2, <3>3 DEF OneBlockEach
    <3> QED
      BY <2>1, <3>1, <3>4
  <2>6. Sheeted(sheets', frame, options, b)
    <3>1. \A r \in 1..(b - 1) : r \in 1..(index - 1) \/ r \in index..Len(frame)
      BY ONLY <1>2
    <3>2. \A r \in 1..(index - 1) : r \in 1..(b - 1)
      BY ONLY <1>2
    <3>3. \A n \in DOMAIN sheets' : Fits(sheets'[n], frame, options, index)
      BY <2>4 DEF Sheeted
    <3> HIDE DEF b
    <3>4. \A n \in DOMAIN sheets' : Fits(sheets'[n], frame, options, b)
      BY <3>2, <3>3 DEF Fits
    <3>5. ASSUME NEW r \in 1..(b - 1), frame[r].events, options.kernel \in {frame[r].kernel, ""}
          PROVE  r \in OnSheets(sheets')
      <4>1. frame[r].kernel = K
        BY <1>3, <3>5 DEF NoName
      <4>2. r \in 1..(index - 1)
        BY <2>5, <3>1, <4>1
      <4> QED
        BY <2>4, <3>5, <4>2 DEF Sheeted
    <3> QED
      BY <2>4, <3>4, <3>5 DEF Sheeted
  <2>7. StallsOnSheets'
    <3>1. CASE pc' = "ended" /\ closed' = (sheets' # <<>>)
      BY <1>1, <1>2, <2>6, <3>1, AllSheets
    <3>2. CASE pc' = "failed"
      BY <1>1, <2>4, <3>2, NotYet
    <3> QED
      BY <2>4, <3>1, <3>2
  <2> QED
    BY <1>1, <2>4, <2>7 DEF SheetsInv
<1>5. CASE counting /\ index > Len(frame) /\ pc' = "ended" /\ UNCHANGED <<sheets, closed>>
  <2>1. \A n \in 1..(index - 1) : frame[n].kernel # K
    <3>1. ~(counting = FALSE)
      BY <1>5, Zenon
    <3> QED
      BY <1>3, <3>1
  <2>2. index = b
    BY ONLY <1>2, <1>5
  <2>3. Sheeted(<<>>, frame, options, b)
    <3>1. \A r \in 1..(b - 1) : ~(options.kernel \in {frame[r].kernel, ""})
      BY <1>3, <2>1, <2>2 DEF NoName
    <3> QED
      BY <3>1, NoSheets
  <2>4. closed' = (sheets' # <<>>)
    BY <1>1, <1>5
  <2>5. StallsOnSheets'
    BY <1>1, <1>2, <1>5, <2>3, <2>4, AllSheets
  <2> QED
    BY <1>1, <1>5, <2>5 DEF SheetsInv
<1> QED
  BY <1>4, <1>5 DEF StallEnd

LEMMA SheetsStep == SheetsInv /\ [Next]_vars => SheetsInv'
<1> SUFFICES ASSUME SheetsInv, [Next]_vars PROVE SheetsInv'
  OBVIOUS
<1>1. CASE ListFile \/ ListRow \/ ListEnd
  <2>1. /\ pc \in {"start", "list"} /\ pc' \in {"start", "list"}
        /\ UNCHANGED <<file, options, sheets, closed>>
        /\ pc' = "start" => frame' = <<>>
    <3>1. CASE ListFile \/ ListEnd
      BY <3>1 DEF ListFile, ListEnd, List
    <3>2. CASE ListRow
      BY <3>2 DEF ListRow, shared
    <3> QED
      BY <1>1, <3>1, <3>2
  <2>2. closed' = FALSE
    BY <2>1, Zenon DEF SheetsInv
  <2> QED
    BY <2>1, <2>2, OtherSheets
<1>2. CASE Refuse \/ Serve
  <2>1. /\ pc = "start" /\ pc' \in {"ended", "scan"} /\ UNCHANGED <<file, options, sheets, closed, frame>>
    BY <1>2 DEF Refuse, Serve, PerfMetricsHTTPServer, charts
  <2>2. closed' = FALSE /\ frame' = <<>>
    BY <2>1, Zenon DEF SheetsInv
  <2> QED
    BY <2>1, <2>2, OtherSheets
<1>3. CASE Plot
  BY <1>3, PlotSheets
<1>4. CASE AllRow \/ FindRow \/ FindEnd \/ OneRow
  <2>1. /\ pc \in {"all", "find", "one"} /\ pc' = pc /\ UNCHANGED <<file, options, sheets, closed>>
    BY <1>4 DEF AllRow, FindRow, FindEnd, OneRow, shared
  <2>2. closed' = FALSE /\ ~HasEvents(options.device)
    BY <2>1, Zenon DEF SheetsInv
  <2> QED
    BY <2>1, <2>2, OtherSheets
<1>5. CASE OneUnterminated \/ Close
  <2>1. /\ pc \in {"all", "find", "one"} /\ pc' \in {"ended", "failed"} /\ UNCHANGED <<file, options, sheets>>
    BY <1>5 DEF OneUnterminated, Close, charts
  <2>2. ~HasEvents(options.device)
    BY <2>1 DEF SheetsInv
  <2> QED
    BY <2>1, <2>2, OtherSheets
<1>6. CASE UNCHANGED charts /\ (ScanRow \/ StartServer \/ TrySection \/ Interrupt \/ \E r \in Requests : DoGet(r))
  <2>1. /\ pc \in {"scan", "serve", "get"} /\ pc' \in {"scan", "serve", "get", "ended", "failed"}
        /\ UNCHANGED <<file, options>> /\ UNCHANGED <<sheets, closed, frame>>
    BY <1>6 DEF charts, ScanRow, StartServer, TrySection, Interrupt, DoGet, shared
  <2>2. closed' = FALSE /\ frame' = <<>>
    BY <2>1, Zenon DEF SheetsInv
  <2> QED
    BY <2>1, <2>2, OtherSheets
<1>7. CASE StallsRow \/ StallsEnd \/ StallRow \/ StallEnd
  BY <1>7, StallsRowSheets, StallsEndSheets, StallRowSheets, StallEndSheets
<1>8. CASE UNCHANGED vars
  <2>1. /\ UNCHANGED <<file, options, pc, frame, sheets, closed>>
        /\ index' = index /\ start' = start /\ kernel' = kernel /\ counting' = counting
    BY <1>8 DEF vars, shared, charts, loop
  <2>2. StallsOnSheets' = StallsOnSheets
    BY <2>1 DEF StallsOnSheets, InTurn, Shown, Events
  <2>3. StallFrame' = StallFrame /\ InStalls' = InStalls /\ InStall' = InStall
        /\ HasEvents(options.device)' = HasEvents(options.device)
    BY <2>1 DEF StallFrame, InStalls, InStall, HasEvents
  <2> QED
    BY <2>1, <2>2, <2>3 DEF SheetsInv
<1> QED
  BY <1>1, <1>2, <1>3, <1>4, <1>5, <1>6, <1>7, <1>8 DEF Next

\* The sheets show every sample with stall events of the kernels asked for, once,
\* in order and under its kernel's name, in both loops, which end the block of a
\* kernel in different ways, and for any length of a page.
THEOREM SheetsCorrect == Spec => []StallsOnSheets
<1>1. SheetsInv => StallsOnSheets
  BY DEF SheetsInv
<1> QED
  BY <1>1, SheetsInit, SheetsStep, PTL DEF Spec
================================================================================
