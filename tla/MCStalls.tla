-------------------------------- MODULE MCStalls -------------------------------
(* Stalls for TLC: kernels of three blocks, with loops, branches and blocks*)
(* that cannot be reached; two tokens; comments in some blocks.  The       *)
(* instruction with the Sbid stall is in the last block, which may follow  *)
(* itself.                                                                 *)
EXTENDS Stalls

Ins(memory, sync, braces, parens) ==
  [kind |-> "ins", memory |-> memory, sync |-> sync, braces |-> braces, parens |-> parens]
Setting(tokens, sync) == Ins(FALSE, sync, tokens, <<>>)
Comment(kind) == <<[kind |-> kind]>>
Line == Comment("Line")
FileLine == Comment("File") \o Line

First == {Setting(<<>>, FALSE), Setting(<<<<1, "">>>>, FALSE), Setting(<<<<2, "">>>>, TRUE)}
Second == {Setting(<<<<1, "dst">>>>, FALSE), Setting(<<<<2, "">>>>, FALSE)}
Stuck ==
  {Ins(TRUE, FALSE, <<<<1, "dst">>, <<2, "">>>>, <<>>),
   Ins(TRUE, FALSE, <<<<1, "">>>>, <<<<1, "src">>, <<2, "dst">>>>),
   Ins(FALSE, FALSE, <<<<1, "dst">>, <<2, "">>>>, <<>>)}
Edges ==
  {<<p1, p2, p3>> : p1 \in {<<>>, <<2>>, <<1, 3>>}, p2 \in {<<>>, <<1>>, <<1, 2>>, <<3>>},
                    p3 \in {<<>>, <<1>>, <<2>>, <<1, 2>>, <<1, 2, 3>>}}
SomeEdges == {e \in Edges : Len(e[1]) + Len(e[3]) \in 2..3 /\ Len(e[2]) < 2}

Kernel(comments, a, b, c, s) ==
  <<comments[1] \o <<a>> \o comments[2], <<b>> \o comments[3], comments[4] \o <<c>> \o comments[5] \o <<s>>>>
Plain == <<<<>>, <<>>, <<>>, <<>>, <<>>>>

Stalling(comments, edges, Ps, top) ==
  {[blocks |-> Kernel(comments, a, b, c, s), preds |-> e, numtopstalls |-> top,
    stalls |-> <<<<<<3, Len(Kernel(comments, a, b, c, s)[3])>>>>, <<<<2, 1>>>>>>] :
     a \in First, b \in Second, c \in First, s \in Ps, e \in edges}

\* All edges without source, and with comments in some places.
Searches ==
  Stalling(Plain, Edges, Stuck, -1) \cup
  UNION {Stalling(comments, SomeEdges, Stuck, -1) :
           comments \in {<<FileLine, <<>>, <<>>, Line, <<>>>>, <<FileLine, Line, Line, <<>>, <<>>>>,
                         <<FileLine, <<>>, Line, <<>>, FileLine>>}}

\* Stalls of three types, some of them not in the assembly, with limits.
Reports ==
  {[blocks |-> Kernel(comments, Setting(<<<<1, "">>>>, FALSE), Setting(<<<<2, "">>>>, FALSE),
                      Setting(<<>>, FALSE), Ins(TRUE, FALSE, <<<<1, "dst">>>>, <<>>)),
    preds |-> <<<<>>, <<1>>, <<2>>>>, numtopstalls |-> top, stalls |-> <<x, y, z>>] :
     comments \in {Plain, <<FileLine, <<>>, <<>>, <<>>, <<>>>>}, top \in -1..2,
     x \in {<<>>, <<Nowhere>>, <<<<3, 2>>, Nowhere>>, <<Nowhere, <<2, 1>>, <<3, 2>>>>},
     y \in {<<>>, <<<<2, 1>>>>, <<Nowhere, <<2, 1>>>>}, z \in {<<>>, <<Nowhere>>, <<<<2, 1>>, <<3, 1>>>>}}

MCPrograms == Searches \cup Reports
MCLineLength == [kind \in {"text", "code", "stalled"} |-> IF kind = "text" THEN 2 ELSE 5]
================================================================================
