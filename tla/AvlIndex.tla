------------------------------ MODULE AvlIndex ------------------------------
(***************************************************************************)
(* The AVL index (libs/Indexes/AVL): a file with a header and the nodes of *)
(* a search tree, the slots of erased nodes in a free list, and a file of  *)
(* duplicates.  One action per public operation.                           *)
(*                                                                         *)
(* Byte offsets are slot numbers from 1; 0 is the pointer -1.  The stack   *)
(* of a recursive call is the path of slots it went down, and the work on  *)
(* the way back (Retrace) goes up that path.                               *)
(***************************************************************************)
EXTENDS Integers, FiniteSetsExt, SequencesExt

CONSTANTS
  Key,        \* keys, integers
  MaxPerKey,  \* bound: records with the same key at a time
  MaxSlots,   \* bound: nodes of the file that an insertion may not exceed
  MaxDups,    \* bound: records of the duplicates file
  Batches     \* sequences of keys that bulk_insert is called with

ASSUME AvlIndexAssumption ==
  /\ Key \subseteq Int /\ Batches \subseteq Seq(Key)
  /\ MaxPerKey \in Nat \ {0} /\ MaxSlots \in Nat /\ MaxDups \in Nat

\* Raw positions in the heap file, named after the key of the record.
Position == Key \X (1..MaxPerKey)

VARIABLES
  PK,      \* set by the constructor: the index is on a primary key
  tree,    \* [hdr, saved, nodes, dups]: the header in memory, and the files
  open,    \* the static stream `file' was left open by a call that threw
  reply,   \* outcome of the last call that changes the index
  call     \* history: the last call, <<operation, arguments>>

vars == <<PK, tree, open, reply, call>>

Sides == {"left", "right"}
Other(side) == CHOOSE s \in Sides : s # side

AVLIndexHeader == [rootPointer : Nat, lastDelete : Nat]

AVLIndexNode == [data : Key, raw : Position, dup : Nat, left : Nat, right : Nat,
                 nextDelete : Nat, height : Nat]

TypeOK ==
  /\ PK \in BOOLEAN /\ open \in BOOLEAN
  /\ tree.hdr \in AVLIndexHeader /\ tree.saved \in AVLIndexHeader
  /\ tree.nodes \in Seq(AVLIndexNode)
  /\ tree.dups \in Seq([raw : Position, dup : Nat])
  /\ reply \in {"none", "ok", "duplicate", "absent", "loaded", "stopped"}
  /\ call[1] \in {"none", "add", "bulk_insert", "remove", "search", "range_search", "reopen"}

\* initIndex on a file without a header.
Init ==
  LET empty == [rootPointer |-> 0, lastDelete |-> 0]
  IN  /\ PK \in BOOLEAN
      /\ tree = [hdr |-> empty, saved |-> empty, nodes |-> <<>>, dups |-> <<>>]
      /\ open = FALSE
      /\ reply = "none" /\ call = <<"none">>

Result(f, outcome) == [tree |-> f, outcome |-> outcome]

\* Every change of the header in memory is written to the file at once.
WriteHeader(f, hdr) == [f EXCEPT !.hdr = hdr, !.saved = hdr]

-----------------------------------------------------------------------------
(* Paths from a slot towards a key.                                         *)

Towards(node, key) == IF key > node.data THEN "right" ELSE "left"

Path(f, from, key) ==
  LET walk[c \in 0..Len(f.nodes)] ==
        IF c = 0 THEN <<>>
        ELSE IF f.nodes[c].data = key THEN <<c>>
        ELSE <<c>> \o walk[f.nodes[c][Towards(f.nodes[c], key)]]
  IN  walk[from]

\* search below `from': the path ends at a node that has the key.
Found(f, from, key) ==
  LET path == Path(f, from, key) IN path # <<>> /\ f.nodes[Last(path)].data = key

MaxNode(f, from) ==
  LET walk[c \in 1..Len(f.nodes)] ==
        IF f.nodes[c].right = 0 THEN c ELSE walk[f.nodes[c].right]
  IN  walk[from]

\* The slots of the tree, in order.
Slots(f) ==
  LET walk[c \in 0..Len(f.nodes)] ==
        IF c = 0 THEN <<>>
        ELSE walk[f.nodes[c].left] \o <<c>> \o walk[f.nodes[c].right]
  IN  walk[f.hdr.rootPointer]

-----------------------------------------------------------------------------
(* Heights and rotations.                                                   *)

Height(f, c) == IF c = 0 THEN -1 ELSE f.nodes[c].height

BalancingFactor(f, c) ==
  IF c = 0 THEN 0 ELSE Height(f, f.nodes[c].left) - Height(f, f.nodes[c].right)

\* Mutant: the height of a node is that of its higher child.
UpdateHeightFlat(f, c) ==
  [f EXCEPT !.nodes[c].height = Max({Height(f, f.nodes[c][s]) : s \in Sides})]

UpdateHeight(f, c) ==
  [f EXCEPT !.nodes[c].height = 1 + Max({Height(f, f.nodes[c][s]) : s \in Sides})]

\* The child on `side' comes up: leftRotation is Rotate(f, c, "right").  The
\* two nodes change places in the file, so that slot c is still the top.
Rotate(f, c, side) ==
  LET child == f.nodes[c][side]
      a == [f.nodes[c] EXCEPT ![side] = f.nodes[child][Other(side)]]
      b == [f.nodes[child] EXCEPT ![Other(side)] = child]
      swapped == [f EXCEPT !.nodes[c] = b, !.nodes[child] = a]
  IN  UpdateHeight(UpdateHeight(swapped, child), c)

\* Mutant: a child that leans the other way by one is not rotated first.
BalanceOnce(f, c) ==
  LET factor == BalancingFactor(f, c)
      heavy == IF factor > 1 THEN "left" ELSE "right"
  IN  IF factor \in -1..1 THEN f ELSE Rotate(f, c, heavy)

Balance(f, c) ==
  LET factor == BalancingFactor(f, c)
      heavy == IF factor > 1 THEN "left" ELSE "right"
      child == f.nodes[c][heavy]
      bent == IF heavy = "left" THEN BalancingFactor(f, child) <= -1
                                ELSE BalancingFactor(f, child) >= 1
  IN  IF factor \in -1..1 THEN f
      ELSE Rotate(IF bent THEN Rotate(f, child, Other(heavy)) ELSE f, c, heavy)

\* What the calls on the path do before they return, the deepest first.
Retrace(f, path) ==
  FoldLeft(LAMBDA g, c : Balance(UpdateHeight(g, c), c), f, Reverse(path))

-----------------------------------------------------------------------------
(* A stream that was left open.  The next open fails, and so does every read *)
(* and write of the call; the close at its end mends it.  A node that was    *)
(* not read has no children, and any data.  A header in memory whose root is *)
(* not in the file makes the first read fail, with the same consequences.    *)

Fails(f) == open \/ f.hdr.rootPointer > Len(f.nodes)

\* insert with such a stream: only the header in memory and the duplicates file,
\* which has a stream of its own, can change.
MissedInserts(f, raw) ==
  IF f.hdr.rootPointer = 0 THEN {Result([f EXCEPT !.hdr.rootPointer = 1], "ok")}
  ELSE {Result([f EXCEPT !.hdr.lastDelete = 0], "ok"),
        IF PK THEN Result(f, "duplicate")
        ELSE Result([f EXCEPT !.dups = Append(@, [raw |-> raw, dup |-> 1])], "ok")}

\* erase with such a stream.
MissedErases(f) ==
  IF f.hdr.rootPointer = 0 THEN {Result(f, "absent")}
  ELSE {Result(f, "absent"),
        Result([f EXCEPT !.hdr.lastDelete = f.hdr.rootPointer], "ok")}

-----------------------------------------------------------------------------
(* add and bulk_insert.                                                     *)

\* The dup_pos of a node is never set to -1: it has the initial value of a
\* std::streampos, 0, the position of the first record of the duplicates.
NewNode(key, raw) ==
  [data |-> key, raw |-> raw, dup |-> 1, left |-> 0, right |-> 0,
   nextDelete |-> 0, height |-> 0]

\* Mutant: the free list still begins with the slot that is taken.
TakeSlotTwice(f) == [slot |-> IF f.hdr.lastDelete = 0 THEN Len(f.nodes) + 1
                              ELSE f.hdr.lastDelete,
                     tree |-> f]

\* A new node goes to the first slot of the free list, or to the end.
TakeSlot(f) ==
  LET free == f.hdr.lastDelete
  IN  IF free = 0 THEN [slot |-> Len(f.nodes) + 1, tree |-> f]
      ELSE [slot |-> free,
            tree |-> WriteHeader(f, [f.hdr EXCEPT !.lastDelete = f.nodes[free].nextDelete])]

InsertDuplicate(f, c, raw) ==
  [f EXCEPT !.dups = Append(@, [raw |-> raw, dup |-> f.nodes[c].dup]),
            !.nodes[c].dup = Len(f.dups) + 1]

\* The new node is written first, then its parent as it was read.
InsertChild(f, c, key, raw) ==
  LET taken == TakeSlot(f)
      nodes == taken.tree.nodes
      parent == [f.nodes[c] EXCEPT ![Towards(f.nodes[c], key)] = taken.slot]
      written == IF taken.slot > Len(nodes) THEN Append(nodes, NewNode(key, raw))
                 ELSE [nodes EXCEPT ![taken.slot] = NewNode(key, raw)]
  IN  [taken.tree EXCEPT !.nodes = [written EXCEPT ![c] = parent]]

Insert(f, key, raw) ==
  LET path == Path(f, f.hdr.rootPointer, key)
      c == Last(path)
  IN  IF path = <<>>
      THEN Result(WriteHeader([f EXCEPT !.nodes = <<NewNode(key, raw)>>],
                              [f.hdr EXCEPT !.rootPointer = 1]), "ok")
      ELSE IF f.nodes[c].data # key
      THEN Result(Retrace(InsertChild(f, c, key, raw), path), "ok")
      ELSE IF PK THEN Result(f, "duplicate")
      ELSE Result(Retrace(InsertDuplicate(f, c, raw), Front(path)), "ok")

Inserts(f, key, raw) == IF Fails(f) THEN MissedInserts(f, raw) ELSE {Insert(f, key, raw)}

\* The caller passes the position of a new heap record.
RawInUse(f) == {f.nodes[c].raw : c \in ToSet(Slots(f))} \union {d.raw : d \in ToSet(f.dups)}
FreshRaws(f, key) == LET free == {j \in 1..MaxPerKey : <<key, j>> \notin RawInUse(f)}
                     IN  {<<key, j>> : j \in {i \in free : i = Min(free)}}
HasRoom(f) == Len(f.nodes) < MaxSlots \/ f.hdr.lastDelete # 0

\* An exception leaves the stream open.
Add(key, raw) ==
  /\ HasRoom(tree) /\ Len(tree.dups) <= MaxDups
  /\ \E r \in Inserts(tree, key, raw) :
       tree' = r.tree /\ reply' = r.outcome /\ open' = (r.outcome = "duplicate")
  /\ call' = <<"add", key, raw>>
  /\ UNCHANGED PK

\* A record of a batch is its position, which has its key.  Those of a batch with
\* the keys `batch' are positions of new heap records.
BulkOf(batch) ==
  [i \in DOMAIN batch |->
     LET used == {raw[2] : raw \in {q \in RawInUse(tree) : q[1] = batch[i]}}
     IN  <<batch[i], Max({0} \union used) + Cardinality({j \in 1..i : batch[j] = batch[i]})>>]

\* An exception ends the loop; here the stream is closed in either case.
BulkInsert(bulk) ==
  LET insertAll ==
        FoldLeft(LAMBDA rs, raw :
                   UNION {IF r.outcome # "ok" THEN {r} ELSE Inserts(r.tree, raw[1], raw) : r \in rs},
                 {Result(tree, "ok")}, bulk)
  IN  /\ Len(tree.nodes) + Len(bulk) <= MaxSlots /\ Len(tree.dups) <= MaxDups
      /\ ToSet(bulk) \subseteq Position
      /\ \E r \in insertAll :
           tree' = r.tree /\ reply' = IF r.outcome = "ok" THEN "loaded" ELSE "stopped"
      /\ open' = FALSE /\ call' = <<"bulk_insert", bulk>>
      /\ UNCHANGED PK

-----------------------------------------------------------------------------
(* remove.                                                                  *)

\* A node with one child at most: the parent takes over the child, if there is
\* a parent.  The root pointer is left as it is.  The freed node keeps its
\* children, and its height is computed again like any other on the path.
Detach(f, path) ==
  LET c == Last(path)
      node == f.nodes[c]
      child == IF node.left = 0 THEN node.right ELSE node.left
      p == path[Len(path) - 1]
      sides == {s \in Sides : f.nodes[p][s] = c}
      side == IF "left" \in sides THEN "left" ELSE "right"
      linked == IF Len(path) = 1 \/ sides = {} THEN f
                ELSE [f EXCEPT !.nodes[p][side] = child]
      freed == [linked EXCEPT !.nodes[c] = [node EXCEPT !.nextDelete = f.hdr.lastDelete]]
  IN  Retrace(WriteHeader(freed, [f.hdr EXCEPT !.lastDelete = c]), path)

\* Mutant: the node is taken to be where it was before the rotations.
FixValueInPlace(f, c, key, node) ==
  [f EXCEPT !.nodes[c].data = node.data, !.nodes[c].raw = node.raw, !.nodes[c].dup = node.dup]

\* The node with the key, which a rotation may have moved below c, gets the
\* contents of the one that was detached in its place.
FixValue(f, c, key, node) ==
  IF ~ Found(f, c, key) THEN f
  ELSE LET at == Last(Path(f, c, key))
       IN  [f EXCEPT !.nodes[at].data = node.data, !.nodes[at].raw = node.raw,
                     !.nodes[at].dup = node.dup]

\* A node with two children: the greatest node below it on the left is erased
\* by a call that starts at the root, whose node has no right child.
Erase(f, key) ==
  LET path == Path(f, f.hdr.rootPointer, key)
      c == Last(path)
      before == f.nodes[MaxNode(f, f.nodes[c].left)]
      detached == Detach(f, Path(f, f.hdr.rootPointer, before.data))
  IN  IF ~ Found(f, f.hdr.rootPointer, key) THEN Result(f, "absent")
      ELSE IF 0 \in {f.nodes[c][s] : s \in Sides} THEN Result(Detach(f, path), "ok")
      ELSE Result(Retrace(FixValue(detached, c, key, before), path), "ok")

\* The outcome is what erase returns; remove does not pass it on.  The position that
\* remove adds to the response, also for a key that is not there, is left out: the
\* model has no response, and no property is about what a removal answers with.
RemoveKey(key) ==
  /\ \E r \in IF Fails(tree) THEN MissedErases(tree) ELSE {Erase(tree, key)} :
       tree' = r.tree /\ reply' = r.outcome
  /\ open' = FALSE /\ call' = <<"remove", key>>
  /\ UNCHANGED PK

-----------------------------------------------------------------------------
(* search and range_search.                                                 *)

\* getAllRawCurrentRecords comes to an end: the chain of duplicates does, and
\* goes neither beyond the file, where reads leave dup_pos as it is, nor back.
DuplicatesEnd(f, c) ==
  LET walk[i \in Nat] == IF i = 0 THEN TRUE
                         ELSE i <= Len(f.dups) /\ f.dups[i].dup < i /\ walk[f.dups[i].dup]
  IN  walk[f.nodes[c].dup]

\* A search throws when the key is not there, and leaves the stream open; so it
\* is during a search that does not come to an end.
Search(key) ==
  /\ open' = \/ Fails(tree) \/ ~ Found(tree, tree.hdr.rootPointer, key)
             \/ ~ DuplicatesEnd(tree, Last(Path(tree, tree.hdr.rootPointer, key)))
  /\ call' = <<"search", key>>
  /\ UNCHANGED <<PK, tree, reply>>


\* The slots rangeSearch takes records from.
SlotsBetween(f, begin, end) ==
  LET walk[c \in 0..Len(f.nodes)] ==
        IF c = 0 THEN <<>>
        ELSE LET node == f.nodes[c]
             IN  (IF node.data > begin THEN walk[node.left] ELSE <<>>)
                 \o (IF node.data \in begin..end THEN <<c>> ELSE <<>>)
                 \o (IF node.data < end THEN walk[node.right] ELSE <<>>)
  IN  walk[f.hdr.rootPointer]

RangeSearch(begin, end) ==
  /\ IF Fails(tree)
     THEN open' \in {FALSE, tree.hdr.rootPointer # 0 /\ begin <= end}
     ELSE open' = \E c \in ToSet(SlotsBetween(tree, begin, end)) : ~ DuplicatesEnd(tree, c)
  /\ call' = <<"range_search", begin, end>>
  /\ UNCHANGED <<PK, tree, reply>>

\* A new process constructs the index on the same files.
Reopen ==
  /\ tree' = [tree EXCEPT !.hdr = tree.saved]
  /\ open' = FALSE /\ call' = <<"reopen">>
  /\ UNCHANGED <<PK, reply>>

-----------------------------------------------------------------------------
Next == \/ \E key \in Key : \E raw \in FreshRaws(tree, key) : Add(key, raw)
        \/ \E batch \in Batches : BulkInsert(BulkOf(batch))
        \/ \E key \in Key : RemoveKey(key)
        \/ \E key \in Key : Search(key)
        \/ \E begin, end \in Key : RangeSearch(begin, end)
        \/ Reopen

Spec == Init /\ [][Next]_vars

\* The calls with `keys' that keep away from the defects: none on a stream that
\* was left open, no key added twice but for a primary key, which is refused,
\* and no removal of a root that has one child at most.
IsNew(key) == ~ Found(tree, tree.hdr.rootPointer, key)
AllNew(bulk) ==
  /\ \A i, j \in DOMAIN bulk : bulk[i][1] = bulk[j][1] => i = j
  /\ \A i \in DOMAIN bulk : IsNew(bulk[i][1])
RootStays(key) ==
  tree.hdr.rootPointer # 0 =>
    LET root == tree.nodes[tree.hdr.rootPointer]
    IN  root.data = key => 0 \notin {root[s] : s \in Sides}

CarefulNext(keys) ==
  \/ \E key \in keys : \E raw \in FreshRaws(tree, key) :
       ~ open /\ (PK \/ IsNew(key)) /\ Add(key, raw)
  \/ \E batch \in Batches :
       ~ open /\ (PK \/ AllNew(BulkOf(batch))) /\ BulkInsert(BulkOf(batch))
  \/ \E key \in keys : ~ open /\ RootStays(key) /\ RemoveKey(key)
  \/ \E key \in keys : ~ open /\ Search(key)
  \/ \E begin, end \in keys : ~ open /\ RangeSearch(begin, end)
  \/ Reopen

-----------------------------------------------------------------------------
(* What makes the index correct.                                            *)

\* The entries of the index, when no key is there twice.
Entries == LET slots == ToSet(Slots(tree))
           IN  [key \in Key |-> {tree.nodes[c].raw : c \in {s \in slots : tree.nodes[s].data = key}}]

\* Rotations and removals leave a search tree, in which the heights are right
\* and those of two siblings differ by one at most: what balance relies on, and
\* what keeps fixValue from missing the node it looks for.
BalancedSearchTree ==
  LET slots == Slots(tree)
  IN  /\ \A i, j \in 1..Len(slots) :
           i < j => tree.nodes[slots[i]].data < tree.nodes[slots[j]].data
      /\ \A c \in ToSet(slots) :
           /\ tree.nodes[c].height = 1 + Max({Height(tree, tree.nodes[c][s]) : s \in Sides})
           /\ BalancingFactor(tree, c) \in -1..1

\* Each slot of the file is in the tree or in the free list, and only once: no
\* erased node is reached, and none is lost.
FreeSlots ==
  LET walk[c \in 0..Len(tree.nodes)] ==
        IF c = 0 THEN <<>> ELSE <<c>> \o walk[tree.nodes[c].nextDelete]
  IN  walk[tree.hdr.lastDelete]
EverySlotOnce ==
  LET slots == Slots(tree) \o FreeSlots
  IN  IsInjective(slots) /\ ToSet(slots) = DOMAIN tree.nodes


\* A key that was removed is not there any more.
RemovedKeyIsGone == [][\A key \in Key : RemoveKey(key) => Entries'[key] = {}]_vars

\* Every careful call has the effect on the map from keys to positions, and the
\* outcome, that its own operation has with its own arguments.  Searches and a new
\* process change nothing.
Promise == INSTANCE KeyIndex WITH entries <- Entries
Batch(bulk) == [i \in DOMAIN bulk |-> <<bulk[i][1], bulk[i]>>]
KeepsPromise ==
  [][open \/
     CASE call'[1] = "add" -> PK \/ IsNew(call'[2]) => Promise!Add(call'[2], call'[3])
       [] call'[1] = "bulk_insert" ->
            PK \/ AllNew(call'[2]) => Promise!BulkInsert(Batch(call'[2]))
       [] call'[1] = "remove" -> RootStays(call'[2]) => Promise!Remove(call'[2])
       [] OTHER -> UNCHANGED <<PK, Entries, reply>>]_vars
=============================================================================
