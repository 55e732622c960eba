---------------------------------- MODULE Stalls -------------------------------
(***************************************************************************)
(* scripts/metrics/analyzeperfmetrics.py, AnalyzeStalls: what are the      *)
(* instructions of a kernel waiting for, and which source lines are they?  *)
(* For a stall of type Sbid the scoreboard tokens of the instruction are   *)
(* looked for backwards, in its basic block and then in the predecessors, a*)
(* list of blocks that grows while the loop goes through it; the source of *)
(* what is found is the next comment met.  The report is cut into pages.   *)
(*                                                                         *)
(* A kernel is a sequence of blocks, in the order of the file, of comments *)
(* ("Line", "File") and instructions ("ins").  An instruction is the tokens*)
(* in its braces: <<id, part>>, where part is "dst" or "src" for the token *)
(* of an instruction that waits and "" for that of one that is waited for; *)
(* a "sync" is never waited for.  A position is a block and a place in it. *)
(* The choice of the .asm file and the demangler are left out.             *)
(***************************************************************************)
EXTENDS Integers, SequencesExt

CONSTANTS
  Programs,       \* the kernels: records of
                  \*   blocks, preds
                  \*   stalls: per type, the positions of its stalls, worst first
                  \*   numtopstalls: how many are reported, or -1
  CheckBound,     \* bound: blocks that are checked for one stall
  LineLength,     \* of lines of the report: "text", "code" and code that is "stalled"
  page_size, line_width

Nowhere == <<0, 0>>
Positions(p) == UNION {{b} \X DOMAIN p.blocks[b] : b \in DOMAIN p.blocks}
Instructions(p) == {q \in Positions(p) : p.blocks[q[1]][q[2]].kind = "ins"}

Kinds == {"Line", "File"}
Token == Nat \X {"", "dst", "src"}
Instruction ==
  [kind : {"ins"}, memory : BOOLEAN, sync : BOOLEAN, braces : Seq(Token), parens : Seq(Token)]

\* The members of a sequence that are in S.
Those(s, S) ==
  LET those[n \in 0..Len(s)] ==
        IF n = 0 THEN <<>> ELSE IF s[n] \in S THEN Append(those[n - 1], s[n]) ELSE those[n - 1]
  IN those[Len(s)]

\* The tokens an instruction waits for.  A memory instruction has one of its own,
\* without a part, which is not taken; parentheses count if braces have none.
Tokens(ins) ==
  LET Waits(sbids) == Those(sbids, {t \in Token : ~ins.memory \/ t[2] # ""})
  IN IF Waits(ins.braces) # <<>> THEN Waits(ins.braces) ELSE Waits(ins.parens)

ASSUME CheckAssumption == CheckBound \in Nat
ASSUME ProgramAssumption ==
  \A p \in Programs :
    /\ p.blocks \in Seq(Seq(Instruction \cup [kind : Kinds]))
    /\ p.preds \in [DOMAIN p.blocks -> Seq(DOMAIN p.blocks)]
    /\ p.stalls \in Seq(Seq(Instructions(p) \cup {Nowhere})) /\ p.stalls # <<>>
    /\ p.numtopstalls \in Int
\* What the instruction set has room for: an instruction sets one token, and waits
\* for each once.
ASSUME TokenAssumption ==
  \A p \in Programs : \A q \in Instructions(p) :
    LET ins == p.blocks[q[1]][q[2]] IN
    /\ \A s, t \in ToSet(ins.braces) : s[2] = "" /\ t[2] = "" => s = t
    /\ \A m, n \in DOMAIN Tokens(ins) : Tokens(ins)[m][1] = Tokens(ins)[n][1] => m = n
ASSUME LayoutAssumption ==
  /\ LineLength \in [{"text", "code", "stalled"} -> Nat \ {0}]
  /\ page_size \in Nat \ {0} /\ line_width \in Nat \ {0}

VARIABLES
  program,
  pc,             \* "next" stall, "search", "found", "pages", "ended", "failed"
  type, row,      \* the stall: 1 is Sbid, the others follow
  sbids_stalled,  \* the tokens that are not found yet
  bbs_to_check,   \* block, first and last instruction to check
  j, place,       \* how many of them were checked, and where in the next
  stall,          \* the instructions found
  unresolved,     \* per kind of comment: what has none yet; the stalled one is Nowhere
  source,         \* per kind of comment: what has which
  bound,          \* source_line_stalled has been assigned to
  report,         \* its lines
  pages, page,    \* the full pages and the one that is filled
  put, cut        \* how many lines are on pages, and where the next one is cut

search == <<sbids_stalled, bbs_to_check, j, place, stall, unresolved, source>>
written == <<report, pages, page, put, cut>>
vars == <<program, pc, type, row, search, bound, written>>

Item(p) == program.blocks[p[1]][p[2]]
Position == program.stalls[type][row]

\* ConstructCFG keeps both ends of an edge.
Preds(b) == program.preds[b]
Succs(b) == SetToSeq({c \in DOMAIN program.blocks : b \in ToSet(Preds(c))})
WholeBlock(b) == <<b, 1, Len(program.blocks[b])>>

Precedes(q, p) == q[1] < p[1] \/ (q[1] = p[1] /\ q[2] < p[2])
CommentsBefore(kind, p) ==
  {q \in Positions(program) : Item(q).kind = kind /\ Precedes(q, p)}
\* The comment of a kind that is above p and closest to it, or Nowhere.
Above(kind, p) ==
  LET before == CommentsBefore(kind, p)
  IN IF before = {} THEN Nowhere
     ELSE CHOOSE q \in before : \A r \in before : ~Precedes(q, r)

SourceAvailable == \E q \in Positions(program) : Item(q).kind = "Line"

\* A line of the report: what is on it, and which instruction.
Text == <<"text", Nowhere>>
Blank == <<"blank", Nowhere>>

NoSearch ==
  /\ sbids_stalled = <<>> /\ bbs_to_check = <<>> /\ j = 0 /\ place = 0 /\ stall = <<>>
  /\ unresolved = [k \in Kinds |-> {}] /\ source = [k \in Kinds |-> << >>]

Init ==
  /\ program \in Programs
  /\ pc = "next" /\ type = 1 /\ row = 0
  /\ NoSearch
  /\ bound = FALSE
  /\ report = <<Text, Text, Blank, Text, Text, Text>>
  /\ pages = <<>> /\ page = <<>> /\ put = 0 /\ cut = 0

--------------------------------------------------------------------------------
\* What the report says of a stall.  An instruction that sets two tokens is named
\* once here.
Code(p) == <<"code", p>>

\* A line has no file unless one is known; that of a cause may be unknown.
Cause(sources, p) ==
  <<Text, Code(p), Code(sources["Line"][p]),
    IF p \in DOMAIN sources["File"] THEN Code(sources["File"][p]) ELSE Text>>
Causes(sources, rest) ==
  FlattenSeq(SetToSeq({Cause(sources, p) : p \in DOMAIN sources["Line"] \ {Nowhere}}))
  \o FlattenSeq(SetToSeq({<<Text, Code(p)>> : p \in rest \ {Nowhere}}))

Report(p, sources, rest) ==
  report' = report \o <<Blank, Text, <<"stalled", p>>>>
            \o (IF Nowhere \in DOMAIN sources["Line"]
                THEN <<Code(sources["Line"][Nowhere])>>
                     \o (IF Nowhere \in DOMAIN sources["File"] THEN <<Code(sources["File"][Nowhere])>> ELSE <<>>)
                ELSE <<>>)
            \o <<Text>> \o Causes(sources, rest)

--------------------------------------------------------------------------------
\* The next row, or the first one of the next type; the limit counts rows, whether
\* or not their addresses are in the assembly.
Limited == program.numtopstalls >= 0 /\ row >= program.numtopstalls

NextType ==
  /\ pc = "next"
  /\ Limited \/ row = Len(program.stalls[type])
  /\ IF type < Len(program.stalls)
     THEN /\ type' = type + 1 /\ row' = 0
          /\ report' = report \o (IF program.stalls[type + 1] = <<>> THEN <<>> ELSE <<Text, Text>>)
          /\ UNCHANGED pc
     ELSE /\ pc' = "pages"
          /\ report' = report \o <<Text, Blank>>
          /\ UNCHANGED <<type, row>>
  /\ UNCHANGED <<program, search, bound, pages, page, put, cut>>

Here == program.stalls[type][row + 1]

NextStall ==
  /\ pc = "next" /\ ~Limited /\ row < Len(program.stalls[type])
  /\ row' = row + 1

NotInAssembly ==
  /\ NextStall /\ Here = Nowhere
  /\ UNCHANGED <<program, pc, type, search, bound, written>>

FindSbids ==
  /\ NextStall /\ Here # Nowhere /\ type = 1
  /\ pc' = "search"
  /\ sbids_stalled' = Tokens(Item(Here))
  /\ bbs_to_check' = <<<<Here[1], 1, Here[2] - 1>>>>
  /\ j' = 0 /\ place' = Here[2] - 1
  /\ stall' = <<>>
  /\ unresolved' = [k \in Kinds |-> {Nowhere}]
  /\ source' = [k \in Kinds |-> << >>]
  /\ bound' = TRUE
  /\ UNCHANGED <<program, type, written>>

\* A stall of another type has the comments above it; without source, a variable
\* is read that only the Sbid stalls have assigned to.
OtherStall ==
  /\ NextStall /\ Here # Nowhere /\ type > 1
  /\ LET above == [k \in Kinds |-> IF Above(k, Here) = Nowhere THEN << >>
                                   ELSE [p \in {Nowhere} |-> Above(k, Here)]]
         sources == IF SourceAvailable THEN above ELSE [k \in Kinds |-> << >>]
     IN IF SourceAvailable \/ bound
        THEN Report(Here, sources, {}) /\ UNCHANGED pc
        ELSE pc' = "failed" /\ UNCHANGED report
  /\ bound' = (bound \/ SourceAvailable)
  /\ UNCHANGED <<program, type, search, pages, page, put, cut>>

--------------------------------------------------------------------------------
\* Does the instruction set what the token waits for?
Sets(ins, sbid) ==
  /\ ins.kind = "ins"
  /\ <<sbid[1], "">> \in ToSet(ins.braces)
  /\ sbid[2] = "" => ~ins.sync

\* "for sbid in sbids_stalled: ... sbids_stalled.remove(sbid)": what follows a
\* token that is removed takes its place and is passed over.
RemoveWhileIterating(ins, sbids) ==
  LET Step(found, k) ==
        IF k <= Len(found) /\ Sets(ins, found[k]) THEN RemoveFirst(found, found[k]) ELSE found
      left[k \in 0..Len(sbids)] == IF k = 0 THEN sbids ELSE Step(left[k - 1], k)
  IN left[Len(sbids)]

\* The item that is looked at, and whether the block is left after it: once every
\* token is found, though not before one item has been looked at.
Current == <<bbs_to_check[j + 1][1], place>>
Looking(kinds) ==
  /\ pc = "search" /\ place > 0 /\ j < CheckBound
  /\ Item(Current).kind \in kinds
Leave(left) ==
  /\ pc' = IF left = <<>> THEN "found" ELSE pc
  /\ place' = IF left = <<>> THEN place ELSE place - 1

LookAtInstruction ==
  /\ Looking({"ins"})
  /\ LET left == RemoveWhileIterating(Item(Current), sbids_stalled)
         found == [k \in 1..(Len(sbids_stalled) - Len(left)) |-> Current]
     IN /\ sbids_stalled' = left
        /\ stall' = stall \o found
        /\ unresolved' = [k \in Kinds |-> unresolved[k] \cup ToSet(found)]
        /\ Leave(left)
  /\ UNCHANGED <<program, type, row, bbs_to_check, j, source, bound, written>>

\* A comment becomes the source of all that has none.
With(sources, none, comment) ==
  [p \in (DOMAIN sources) \cup none |-> IF p \in none THEN comment ELSE sources[p]]

LookAtComment ==
  /\ Looking(Kinds)
  /\ LET kind == Item(Current).kind
     IN /\ source' = [source EXCEPT ![kind] = With(@, unresolved[kind], Current)]
        /\ unresolved' = [unresolved EXCEPT ![kind] = {}]
  /\ Leave(sbids_stalled)
  /\ UNCHANGED <<program, type, row, sbids_stalled, bbs_to_check, j, stall, bound, written>>

\* Variants for the mutation runs: the blocks that follow; only the first block
\* that leads here.
NextSuccs(b) == [k \in DOMAIN Succs(b) |-> WholeBlock(Succs(b)[k])]
NextFirst(b) ==
  IF Preds(b) = <<>> THEN <<>> ELSE <<WholeBlock(Preds(b)[1])>>

NextBlocks(b) == [k \in DOMAIN Preds(b) |-> WholeBlock(Preds(b)[k])]

\* The block's start is reached.
NextBlock ==
  /\ pc = "search" /\ j < Len(bbs_to_check) /\ place = 0 /\ j < CheckBound
  /\ IF sbids_stalled = <<>>
     THEN pc' = "found" /\ UNCHANGED <<bbs_to_check, j, place>>
     ELSE /\ bbs_to_check' = bbs_to_check \o NextBlocks(bbs_to_check[j + 1][1])
          /\ j' = j + 1
          /\ place' = IF j + 2 <= Len(bbs_to_check') THEN bbs_to_check'[j + 2][3] ELSE 0
          /\ UNCHANGED pc
  /\ UNCHANGED <<program, type, row, sbids_stalled, stall, unresolved, source, bound, written>>

\* Variant: the source is looked for above the stalled instruction.
StoppedAtStalled == Position

StoppedAt == Current

\* Every token is found: from where the block was left, the source is looked for
\* upwards in the file.
ScanUpwards ==
  /\ pc = "found"
  /\ LET Found(k) == SourceAvailable /\ Above(k, StoppedAt) # Nowhere
     IN /\ source' = [k \in Kinds |->
                       IF Found(k) THEN With(source[k], unresolved[k], Above(k, StoppedAt)) ELSE source[k]]
        /\ unresolved' = [k \in Kinds |-> IF Found(k) THEN {} ELSE unresolved[k]]
  /\ Report(Position, source', unresolved'["Line"])
  /\ pc' = "next"
  /\ UNCHANGED <<program, type, row, sbids_stalled, bbs_to_check, j, place, stall, bound, pages, page, put, cut>>

\* There is no block left: what was not found is not reported.
GiveUp ==
  /\ pc = "search" /\ j = Len(bbs_to_check)
  /\ pc' = "next"
  /\ Report(Position, source, unresolved["Line"])
  /\ UNCHANGED <<program, type, row, search, bound, pages, page, put, cut>>

--------------------------------------------------------------------------------
(* WriteOutStallReport.                                                    *)

\* Variant for the mutation runs: a full page is written, and its last line again
\* on the next.
PutTwice(piece) ==
  IF Len(page) + 1 = page_size
  THEN pages' = Append(pages, Append(page, piece)) /\ page' = <<piece>>
  ELSE page' = Append(page, piece) /\ UNCHANGED pages

Put(piece) ==
  IF Len(page) + 1 = page_size
  THEN pages' = Append(pages, Append(page, piece)) /\ page' = <<>>
  ELSE page' = Append(page, piece) /\ UNCHANGED pages

\* An empty line takes one line, as a line of one character.
Length(k) == IF report[k][1] = "blank" THEN 1 ELSE LineLength[report[k][1]]

\* A line is cut as long as what is left of it is wider than a page.
PutPiece ==
  /\ pc = "pages" /\ put < Len(report)
  /\ Put(<<put + 1, cut>>)
  /\ IF Length(put + 1) - cut > line_width
     THEN cut' = cut + line_width /\ UNCHANGED put
     ELSE cut' = 0 /\ put' = put + 1
  /\ UNCHANGED <<program, pc, type, row, search, bound, report>>

LastPage ==
  /\ pc = "pages" /\ put = Len(report)
  /\ pages' = IF page = <<>> THEN pages ELSE Append(pages, page)
  /\ pc' = "ended"
  /\ UNCHANGED <<program, type, row, search, bound, report, page, put, cut>>

Next ==
  \/ NextType \/ NotInAssembly \/ FindSbids \/ OtherStall
  \/ LookAtInstruction \/ LookAtComment \/ NextBlock \/ ScanUpwards \/ GiveUp
  \/ PutPiece \/ LastPage

Spec == Init /\ [][Next]_vars /\ WF_vars(Next)

--------------------------------------------------------------------------------
\* Blocks from which execution can get to block b, in at least one step.
Ahead(b) ==
  {c \in DOMAIN program.blocks :
     \A S \in SUBSET DOMAIN program.blocks :
       (\A d \in S \cup {b} : ToSet(Preds(d)) \subseteq S) => c \in S}

\* Positions that can be executed before position p.
Before(p) ==
  {<<p[1], n>> : n \in 1..(p[2] - 1)} \cup
  UNION {{<<b, n>> : n \in DOMAIN program.blocks[b]} : b \in Ahead(p[1])}
SetsAt(p, t) == Sets(Item(p), t)

Findable(p) == \A t \in ToSet(Tokens(Item(p))) : \E q \in Before(p) : SetsAt(q, t)
Acyclic(p) == \A b \in {p[1]} \cup Ahead(p[1]) : b \notin Ahead(b)

\* The report ends unless a token that nothing sets is looked for in a loop.
SearchEnds ==
  <>(\/ pc \in {"ended", "failed"}
     \/ \E p \in ToSet(program.stalls[1]) \ {Nowhere} : ~(Findable(p) \/ Acyclic(p)))

Searching == pc \in {"search", "found"}
Searched == Searching \/ (type = 1 /\ row > 0 /\ Position # Nowhere)

\* What is reported can be executed before the stalled instruction and sets a
\* token that it waits for; when the search ends, every token that some
\* instruction sets has been found once, and the report names every instruction
\* found.
StallsExplained ==
  Searched =>
    LET waits == Tokens(Item(Position)) IN
    /\ \A k \in DOMAIN stall :
         stall[k] \in Before(Position) /\ \E t \in ToSet(waits) : SetsAt(stall[k], t)
    /\ ~Searching => \A t \in ToSet(waits) :
         (t \in ToSet(sbids_stalled)) = ~(\E q \in Before(Position) : SetsAt(q, t))
    /\ Len(stall) + Len(sbids_stalled) = Len(waits)
    /\ ~Searching => \A k \in DOMAIN stall : Code(stall[k]) \in ToSet(report)

\* The source comment that an instruction gets is the closest one above it, unless
\* that is in another block and the search went through others before it met one;
\* if all tokens are set in the block of the stalled instruction, nothing that has
\* a comment above it is left without.
SourceIsClosest ==
  Searched =>
    \A kind \in Kinds :
      LET Where(p) == IF p = Nowhere THEN Position ELSE p IN
      /\ \A p \in DOMAIN source[kind] :
           \/ source[kind][p] = Above(kind, Where(p))
           \/ j > 0 /\ Above(kind, Where(p))[1] # Where(p)[1]
      /\ ~Searching /\ j = 0 /\ sbids_stalled = <<>> /\ SourceAvailable =>
           \A p \in unresolved[kind] : Above(kind, Where(p)) = Nowhere

Pieces(k) ==
  [n \in 1..((Length(k) - 1) \div line_width + 1) |-> <<k, line_width * (n - 1)>>]

\* What the loops have come to of the stalls of a type, and what of it is in the
\* assembly.
Reached(t) ==
  LET n == IF t < type THEN Len(program.stalls[t]) ELSE row
  IN SubSeq(program.stalls[t], 1,
            IF program.numtopstalls < 0 \/ n < program.numtopstalls THEN n ELSE program.numtopstalls)
Located(t) == Those(Reached(t), Positions(program))
Reported == Those(report, {"stalled"} \X Positions(program))

\* The script fails at a stall only if there is no source, none of the Sbid
\* stalls that it came to is in the assembly and nothing is reported yet; a stall
\* that it came to without failing is in the report once, if it is in the
\* assembly.  The pages have every piece of every line once and in order; all are
\* full but the last, and none is empty.
ReportComplete ==
  LET all == FlattenSeq([t \in 1..type |-> Located(t)])
  IN /\ pc = "failed" => ~SourceAvailable /\ Located(1) = <<>> /\ Reported = <<>>
     /\ pc \in {"next", "pages", "ended"} => Reported = [k \in DOMAIN all |-> <<"stalled", all[k]>>]
     /\ pc = "ended" =>
          /\ FlattenSeq(pages) = FlattenSeq([k \in DOMAIN report |-> Pieces(k)])
          /\ \A k \in DOMAIN pages : Len(pages[k]) \in 1..page_size
          /\ \A k \in 1..(Len(pages) - 1) : Len(pages[k]) = page_size
================================================================================
