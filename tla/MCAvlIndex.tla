----------------------------- MODULE MCAvlIndex -----------------------------
(* AvlIndex on every balanced tree of up to MaxNodes nodes, as an index that *)
(* another process made by adding the keys level by level.  From the trees   *)
(* of SmallNodes nodes or less all orders of calls with one key more than    *)
(* that follow; from the others one call with any key.                       *)
EXTENDS AvlIndex

CONSTANTS MaxNodes, SmallNodes
MCKey == 1..MaxNodes
SmallKey == 1..SmallNodes + 1
MCBatches == {<<2, 4, 3>>, <<3, 1, 3>>}

\* A tree is the sequence of its levels.  Trees[n + 1] are those of the keys 1..n.
Level(levels, i) == IF i > Len(levels) THEN <<>> ELSE levels[i]
Shift(levels, d) == [i \in 1..Len(levels) |-> [j \in 1..Len(levels[i]) |-> levels[i][j] + d]]
Join(key, l, r) ==
  <<<<key>>>> \o [i \in 1..Max({Len(l), Len(r)}) |-> Level(l, i) \o Level(Shift(r, key), i)]
Trees ==
  FoldLeft(LAMBDA smaller, n :
             Append(smaller, UNION {
               {Join(key, p[1], p[2]) : p \in {q \in smaller[key] \X smaller[n - key + 1] :
                                                 Len(q[1]) - Len(q[2]) \in -1..1}} : key \in 1..n}),
           <<{<<>>}>>, [n \in 1..MaxNodes |-> n])

TreesInit ==
  LET empty == [rootPointer |-> 0, lastDelete |-> 0]
      start == [hdr |-> empty, saved |-> empty, nodes |-> <<>>, dups |-> <<>>]
  IN  /\ PK \in BOOLEAN
      /\ \E n \in 0..MaxNodes : \E levels \in Trees[n + 1] :
           tree = FoldLeft(LAMBDA f, key : Insert(f, key, <<key, 1>>).tree, start, FlattenSeq(levels))
      /\ open = FALSE
      /\ reply = "none" /\ call = <<"none">>

Small == Len(tree.nodes) <= SmallNodes
TreesNext == CarefulNext(IF Small THEN SmallKey ELSE IF reply = "none" THEN Key ELSE {})
TreesSpec == TreesInit /\ [][TreesNext]_vars

\* What a freed node holds but for nextDelete is never used.
View ==
  LET slots == ToSet(Slots(tree))
      Seen(c) == IF c \in slots THEN tree.nodes[c] ELSE tree.nodes[c].nextDelete
  IN  <<PK, [tree EXCEPT !.nodes = [c \in DOMAIN tree.nodes |-> Seen(c)]], open, reply = "none">>
=============================================================================
