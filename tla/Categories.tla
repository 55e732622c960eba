------------------------------- MODULE Categories ------------------------------
(***************************************************************************)
(* scripts/summary: the schema of kernel names.  categorize.py turns the   *)
(* "equals to", "starts with" and "ends with" sections into two search     *)
(* trees; summary.py walks them with the name of a kernel.                 *)
(*                                                                         *)
(* A name is a sequence of letters.  A tag stands for a category of its    *)
(* own, its position in the schema; which positions share a category does  *)
(* not matter to the trees.  Blanks, which both scripts remove, and the    *)
(* JSON file between them are left out.                                    *)
(***************************************************************************)
EXTENDS Integers, SequencesExt

CONSTANTS
  DirectTags,   \* tags of "equals to" and "starts with" sections
  ReverseTags,  \* tags of "ends with" sections
  KernelNames,  \* names of kernels
  DirectBound,  \* bound: direct tags of a schema
  ReverseBound  \* bound: reverse tags

ASSUME TagAssumption == <<>> \notin DirectTags \cup ReverseTags

VARIABLES
  phase,        \* "read", "search", "done"
  direct_search, reverse_search,    \* the tags read: [tag, category, exact]
  schema,       \* the two trees
  name,
  side,         \* the tree that is searched
  tree, tag, category,              \* of search_tree
  answer        \* the category of the name, or the exception

categoriesVars == <<phase, direct_search, reverse_search, schema, name, side, tree, tag, category, answer>>

NoCategory == 0
Default == -1
KeyError == -2
ValueError == -3

\* A node of a tree has any of three fields; absent is NoCategory, -1 and no nodes.
NoNodes == << >>
EmptyNode == [category |-> NoCategory, length |-> -1, next |-> NoNodes]

CategoriesInit ==
  /\ phase = "read"
  /\ direct_search = <<>>
  /\ reverse_search = <<>>
  /\ schema = [direct |-> EmptyNode, reverse |-> EmptyNode]
  /\ name = <<>>
  /\ side = "direct"
  /\ tree = EmptyNode
  /\ tag = <<>>
  /\ category = NoCategory
  /\ answer = NoCategory

Known == Len(direct_search) + Len(reverse_search)

ReadDirect(t, exact) ==
  /\ phase = "read"
  /\ Len(direct_search) < DirectBound
  /\ reverse_search = <<>>
  /\ direct_search' = Append(direct_search, [tag |-> t, category |-> Known + 1, exact |-> exact])
  /\ UNCHANGED <<phase, reverse_search, schema, name, side, tree, tag, category, answer>>

ReadReverse(t) ==
  /\ phase = "read"
  /\ Len(reverse_search) < ReverseBound
  /\ reverse_search' = Append(reverse_search, [tag |-> Reverse(t), category |-> Known + 1, exact |-> FALSE])
  /\ UNCHANGED <<phase, direct_search, schema, name, side, tree, tag, category, answer>>

--------------------------------------------------------------------------------
(* build_search_tree.                                                      *)

CategoryNode(c) == [EmptyNode EXCEPT !.category = c]

\* The node of a tag that ends here.
Leaf(t) ==
  IF t.exact THEN [EmptyNode EXCEPT !.next = (<<>> :> CategoryNode(t.category))]
  ELSE CategoryNode(t.category)

\* A node where one tag ends and others go on.
Merged(node, sub) == [sub EXCEPT !.category = node.category, !.next = node.next @@ @]

RECURSIVE BuildSearchTree(_)
BuildSearchTree(tags) ==
  LET key_length == Min({Len(tags[i].tag) : i \in DOMAIN tags})
      Key(t) == SubSeq(t.tag, 1, key_length)
      EndsAt(key) == SelectSeq(tags, LAMBDA t : t.tag = key)
      GoesOn(key) == SelectSeq(tags, LAMBDA t : Key(t) = key /\ t.tag # key)
      Rest(t) == [t EXCEPT !.tag = SubSeq(@, key_length + 1, Len(@))]
      SubTree(key) == BuildSearchTree([i \in DOMAIN GoesOn(key) |-> Rest(GoesOn(key)[i])])
      Node(key) ==
        IF EndsAt(key) = <<>> THEN SubTree(key)
        ELSE IF GoesOn(key) = <<>> THEN Leaf(Last(EndsAt(key)))
        ELSE Merged(Leaf(Last(EndsAt(key))), SubTree(key))
  IN [category |-> NoCategory, length |-> key_length,
      next |-> [key \in {Key(tags[i]) : i \in DOMAIN tags} |-> Node(key)]]

\* The least length of no tags is an error: both kinds of sections are needed.
Build ==
  /\ phase = "read"
  /\ IF direct_search = <<>> \/ reverse_search = <<>>
       THEN /\ phase' = "done"
            /\ answer' = ValueError
            /\ UNCHANGED schema
       ELSE /\ phase' = "ready"
            /\ schema' = [direct |-> BuildSearchTree(direct_search),
                          reverse |-> BuildSearchTree(reverse_search)]
            /\ UNCHANGED answer
  /\ UNCHANGED <<direct_search, reverse_search, name, side, tree, tag, category>>

--------------------------------------------------------------------------------
(* categorize, with an action for each iteration of search_tree.           *)

Categorize(n) ==
  /\ phase = "ready"
  /\ phase' = "search"
  /\ name' = n
  /\ side' = "direct"
  /\ tree' = schema.direct
  /\ tag' = n
  /\ category' = NoCategory
  /\ UNCHANGED <<direct_search, reverse_search, schema, answer>>

\* Variant: a node that has no category forgets the last one.
SeenLast == tree.category

\* tree.get('category', category)
Seen == IF tree.category # NoCategory THEN tree.category ELSE category

Key == SubSeq(tag, 1, tree.length)
CanDescend == tag # <<>> /\ tree.length # -1 /\ Len(tag) >= tree.length /\ Key \in DOMAIN tree.next

Descend ==
  /\ phase = "search"
  /\ CanDescend
  /\ category' = Seen
  /\ tree' = tree.next[Key]
  /\ tag' = SubSeq(tag, tree.length + 1, Len(tag))
  /\ UNCHANGED <<phase, direct_search, reverse_search, schema, name, side, answer>>

\* What search_tree returns where it cannot go on.  A name that is used up at a
\* node with further nodes is looked up there under the empty string.
Result ==
  IF tag # <<>> \/ tree.next = NoNodes THEN Seen
  ELSE IF <<>> \in DOMAIN tree.next THEN tree.next[<<>>].category
  ELSE KeyError

Return ==
  /\ phase = "search"
  /\ ~CanDescend
  /\ Result # NoCategory \/ side = "reverse"
  /\ phase' = "done"
  /\ answer' = IF Result # NoCategory THEN Result ELSE Default
  /\ UNCHANGED <<direct_search, reverse_search, schema, name, side, tree, tag, category>>

SearchReverse ==
  /\ phase = "search"
  /\ ~CanDescend
  /\ Result = NoCategory /\ side = "direct"
  /\ side' = "reverse"
  /\ tree' = schema.reverse
  /\ tag' = Reverse(name)
  /\ category' = NoCategory
  /\ UNCHANGED <<phase, direct_search, reverse_search, schema, name, answer>>

CategoriesNext ==
  \/ \E t \in DirectTags, exact \in BOOLEAN : ReadDirect(t, exact)
  \/ \E t \in ReverseTags : ReadReverse(t)
  \/ Build
  \/ \E n \in KernelNames : Categorize(n)
  \/ Descend \/ Return \/ SearchReverse

CategoriesSpec == CategoriesInit /\ [][CategoriesNext]_categoriesVars

--------------------------------------------------------------------------------
Schema == direct_search \o reverse_search
Tags(tags) == {tags[i].tag : i \in DOMAIN tags}
Unambiguous(tags) == IsInjective([i \in DOMAIN tags |-> tags[i].tag])

\* The categories of the tags that apply to a name, the longest tag's.
Longest(tags, n) ==
  LET fits == {i \in DOMAIN tags : ~tags[i].exact /\ IsPrefix(tags[i].tag, n)}
  IN {tags[i].category : i \in {j \in fits : \A k \in fits : Len(tags[k].tag) <= Len(tags[j].tag)}}

Equal(n) == {direct_search[i].category : i \in {j \in DOMAIN direct_search :
               direct_search[j].exact /\ direct_search[j].tag = n}}

\* What a schema without repeated tags says of a name: an "equals to" section
\* decides, then the longest tag the name starts with, then the longest it ends
\* with, then the default.
Expected(n) ==
  IF Equal(n) # {} THEN Equal(n)
  ELSE IF Longest(direct_search, n) # {} THEN Longest(direct_search, n)
  ELSE IF Longest(reverse_search, Reverse(n)) # {} THEN Longest(reverse_search, Reverse(n))
  ELSE {Default}

\* Cutting all tags into keys of shared lengths changes nothing: the search
\* returns what the sections say, unless it raises an exception; it always ends
\* with one or the other.  It raises KeyError only for a name that is shorter than
\* some tag it begins, or ends; a name that has an "equals to" tag is always found.
CategoryAsExpected ==
  phase = "done" =>
    /\ answer # NoCategory
    /\ answer \notin {KeyError, ValueError} /\ Unambiguous(direct_search) /\ Unambiguous(reverse_search)
         => answer \in Expected(name)
    /\ answer = KeyError =>
         /\ \/ \E t \in Tags(direct_search) : IsStrictPrefix(name, t)
            \/ \E t \in Tags(reverse_search) : IsStrictPrefix(Reverse(name), t)
         /\ Unambiguous(direct_search) => Equal(name) = {}
================================================================================
