----------------------------- MODULE IsamIndex -----------------------------
(***************************************************************************)
(* The ISAM index (libs/Indexes/ISAM): a tree of index pages that build    *)
(* makes once and nothing changes, a data page below each of its leaves,   *)
(* and chains of data pages behind them for what is added later.  One      *)
(* action per public operation.                                            *)
(*                                                                         *)
(* Offsets in the file of data pages are page numbers from 1; 0 is the     *)
(* pointer -1.  The first Leaves pages are those build makes.  The chain   *)
(* of duplicates of a record only ever grows at its head and is read as a  *)
(* whole, so a record has the set of its raw positions.                    *)
(***************************************************************************)
EXTENDS Integers, FiniteSetsExt, SequencesExt

CONSTANTS
  Key,        \* keys, integers
  Unset,      \* key of a slot of a page in memory that nothing was written to
  N,          \* records of a data page
  M,          \* keys of an index page
  Levels,     \* levels of index pages
  MaxPerKey,  \* bound: records with the same key at a time
  MaxPages,   \* bound: data pages
  Batches     \* sorted sequences of keys that bulk_insert is called with

\* Leaves below one page, so many levels above them.
Width[levels \in 0..Levels] == IF levels = 0 THEN 1 ELSE (M + 1) * Width[levels - 1]
Leaves == Width[Levels]

ASSUME IsamIndexAssumption ==
  /\ Key \subseteq Int /\ Unset \notin Int
  /\ N \in Nat \ {0, 1} /\ M \in Nat \ {0} /\ Levels \in Nat \ {0}
  /\ MaxPerKey \in Nat \ {0} /\ MaxPages \in Nat
  /\ Batches \subseteq Seq(Key)
  /\ \A batch \in Batches, key \in Key :
       Cardinality({i \in DOMAIN batch : batch[i] = key}) <= MaxPerKey
  /\ \A batch \in Batches : \A i, j \in DOMAIN batch : i <= j => batch[i] <= batch[j]

\* Raw positions in the heap file, named after the key of the record.
Position == Key \X (1..MaxPerKey)

VARIABLES
  built,   \* memory: root # -1, build has run since the index was constructed
  isam,    \* disk: [pages, sep], the data pages and the keys of the index pages
  reply,   \* outcome of the last call that changes the index
  call     \* history: that call, <<operation, key or batch>>

vars == <<built, isam, reply, call>>

Record == [key : Key, raws : (SUBSET Position) \ {{}}]

\* A page is its first `count' slots, the keys of what the others last held, and
\* the next page of the chain.
Stale == {-1, 0, Unset} \union Key
DataPage == {p \in [recs : Seq(Record), spare : Seq(Stale), next : Nat] :
               Len(p.recs) + Len(p.spare) = N}

TypeOK == /\ built \in BOOLEAN
          /\ isam \in [pages : Seq(DataPage), sep : Seq(Key)]
          /\ Len(isam.pages) <= MaxPages /\ (built => Len(isam.pages) >= Leaves)
          /\ \A i \in 1..Len(isam.pages) :
               /\ isam.pages[i].next \in 0..Len(isam.pages)
               /\ i > Leaves => isam.pages[i].recs # <<>>
          /\ reply \in {"none", "ok", "absent", "loaded", "throws"}
          /\ call \in ({"add", "remove"} \X Key) \union ({"build"} \X Batches)
                        \union {<<"none">>, <<"reopen">>}

\* The constructor.  What files there are does not matter: root is -1.
Init == /\ built = FALSE
        /\ isam = [pages |-> <<>>, sep |-> <<>>]
        /\ reply = "none" /\ call = <<"none">>

-----------------------------------------------------------------------------
(* Reading.                                                                 *)

\* Down from the root, past the keys of each index page that are in `passed'.
\* Key c of the page above the leaves first, first + 1, ... is the first key of
\* the leaf where its next child begins.
Leaf(f, passed) ==
  LET down[level \in 0..Levels] == [first \in Nat |->
        LET width == Width[level - 1]
            index == Min({c \in 0..M : c = M \/ f.sep[first + (c + 1) * width - 1] \notin passed})
        IN  IF level = 0 THEN first ELSE down[level - 1][first + index * width]]
  IN  down[Levels][1]

LeafOf(f, key) == Leaf(f, {k \in Key : k <= key})

\* The pages from `page' on.
Chain(f, page) ==
  LET walk[n \in 0..Len(f.pages)] == [p \in 0..Len(f.pages) |->
        IF p = 0 \/ n = 0 THEN <<>> ELSE <<p>> \o walk[n - 1][f.pages[p].next]]
  IN  walk[Len(f.pages)][page]

Recs(f, chain) == FlattenSeq([i \in DOMAIN chain |-> f.pages[chain[i]].recs])

RawsOf(recs) == UNION {r.raws : r \in recs}

Within(recs, keys) == {r \in ToSet(recs) : r.key \in keys}

\* search reads the whole chain, whatever the order of the keys in it.
Search(f, key) ==
  LET first[recs \in Seq(Record)] ==
        LET same == {i \in DOMAIN recs : recs[i].key = key}
        IN  IF same = {} THEN {} ELSE recs[Min(same)].raws
  IN  first[Recs(f, Chain(f, LeafOf(f, key)))]

\* Mutant: range_search reads the first page of each chain only.
ReadPage(f, page) == f.pages[page].recs

\* range_search leaves a chain at an empty page.
ReadChain(f, page) ==
  LET chain == Chain(f, page)
      empty == {i \in DOMAIN chain : f.pages[chain[i]].recs = <<>>}
  IN  Recs(f, IF empty = {} THEN chain ELSE SubSeq(chain, 1, Min(empty) - 1))

\* Leaf after leaf, until the last key that was read is above the range.
RangeSearch(f, begin, end) ==
  LET from[leaf \in 1..Leaves] == [last \in Key |->
        LET recs == ReadChain(f, leaf)
            key == IF recs = <<>> THEN last ELSE Last(recs).key
        IN  RawsOf(Within(recs, begin..end)) \union
              IF leaf < Leaves /\ key <= end THEN from[leaf + 1][key] ELSE {}]
  IN  from[Leaf(f, {k \in Key : k < begin})][begin]

-----------------------------------------------------------------------------
(* add.  `above' is the outcome of a comparison with a slot never written to. *)

IsEmpty(page) == page.recs = <<>>
IsFull(page) == Len(page.recs) = N

\* A page with other contents at the same place of its chain.
Holding(page, recs, spare) == [recs |-> recs, spare |-> spare, next |-> page.next]

\* insertRecord begins with the first free slot and not with the last record: a
\* record goes to the end, or in front of one it should follow.
InsertRecord(page, rec, above) ==
  LET stale == Head(page.spare)
      count == Len(page.recs)
      place == IF IsEmpty(page) \/ ~ (IF stale = Unset THEN above ELSE rec.key < stale)
               THEN count + 1
               ELSE Max({h \in 1..count : h = 1 \/ rec.key >= page.recs[h].key})
  IN  Holding(page, InsertAt(page.recs, place, rec), Tail(page.spare))

Write(f, at, page) == [f EXCEPT !.pages[at] = page]
WriteAtEnd(f, page) == [f EXCEPT !.pages = Append(@, page)]
Slots(n, key) == [i \in 1..n |-> key]

\* Mutant: the new page ends the chain.
SplitEndsChain(f, at, rec, above) ==
  LET page == f.pages[at]
      half == N \div 2
  IN  Write(WriteAtEnd(f, InsertRecord([recs |-> SubSeq(page.recs, half + 1, N),
                                        spare |-> Slots(half, Unset), next |-> 0], rec, above)),
            at, [recs |-> SubSeq(page.recs, 1, half), spare |-> Slots(N - half, -1),
                 next |-> Len(f.pages) + 1])

SplitAndInsert(f, at, rec, above) ==
  LET page == f.pages[at]
      half == N \div 2
      index == Max({i \in 0..N - 1 : i = 0 \/ rec.key >= page.recs[i + 1].key})
      lower == [recs |-> SubSeq(page.recs, 1, half), spare |-> Slots(N - half, -1),
                next |-> Len(f.pages) + 1]
      upper == Holding(page, SubSeq(page.recs, half + 1, N), Slots(half, Unset))
      here == index < half
  IN  Write(WriteAtEnd(f, IF here THEN upper ELSE InsertRecord(upper, rec, above)),
            at, IF here THEN InsertRecord(lower, rec, above) ELSE lower)

\* Mutant: the page is written where the last one is.
NewPageInPlace(f, at, rec) ==
  Write(Write(f, Len(f.pages), [recs |-> <<rec>>, spare |-> Slots(N - 1, Unset), next |-> 0]),
        at, [f.pages[at] EXCEPT !.next = Len(f.pages)])

\* The page at `at' now ends at the new one, wherever it led before.
NewPage(f, at, rec) ==
  Write(WriteAtEnd(f, [recs |-> <<rec>>, spare |-> Slots(N - 1, Unset), next |-> 0]),
        at, [f.pages[at] EXCEPT !.next = Len(f.pages) + 1])

\* add and remove go along the chain to the first page that is empty or whose
\* last record is not below the key; 0: there is none.
StopAt(f, chain, key) ==
  LET stops == {i \in DOMAIN chain :
                  LET recs == f.pages[chain[i]].recs IN recs = <<>> \/ key <= Last(recs).key}
  IN  IF stops = {} THEN 0 ELSE Min(stops)

Add(f, rec, above) ==
  LET chain == Chain(f, LeafOf(f, rec.key))
      stop == StopAt(f, chain, rec.key)
      at == IF stop = 0 THEN Last(chain) ELSE chain[stop]
      page == f.pages[at]
      same == {i \in DOMAIN page.recs : page.recs[i].key = rec.key}
  IN  CASE stop # 0 /\ same # {} ->
             Write(f, at, [page EXCEPT !.recs[Min(same)].raws = @ \union rec.raws])
        [] stop # 0 /\ same = {} /\ IsFull(page) -> SplitAndInsert(f, at, rec, above)
        [] IsEmpty(page) \/ (stop = 0 /\ IsFull(page)) -> NewPage(f, at, rec)
        [] OTHER -> Write(f, at, InsertRecord(page, rec, above))

-----------------------------------------------------------------------------
(* build, behind bulk_insert.                                               *)

RecordsOf(batch) ==
  [i \in DOMAIN batch |->
     [key |-> batch[i], raws |-> {<<batch[i], Cardinality({j \in 1..i : batch[j] = batch[i]})>>}]]

\* Every leaf gets N records, and the rest of the batch is added one by one.
Build(batch, above) ==
  LET recs == RecordsOf(batch)
      page(i) == [recs |-> SubSeq(recs, (i - 1) * N + 1, i * N), spare |-> <<>>, next |-> 0]
      tree == [pages |-> [i \in 1..Leaves |-> page(i)],
               sep |-> [i \in 1..Leaves - 1 |-> batch[i * N + 1]]]
      added[i \in 0..Len(recs)] ==
        IF i <= Leaves * N THEN tree ELSE Add(added[i - 1], recs[i], above[i])
  IN  added[Len(recs)]

-----------------------------------------------------------------------------
(* remove.                                                                  *)

Absent == [isam |-> isam, outcome |-> "absent"]
Removed(f) == [isam |-> f, outcome |-> "ok"]

\* Mutant: the records of the next page come over whether they fit or not.
MergeAll(f, at) ==
  LET page == f.pages[at]
      next == f.pages[page.next]
  IN  IF page.next = 0 THEN f
      ELSE Write(f, at, [page EXCEPT !.recs = @ \o next.recs, !.next = next.next])

\* Mutant: the first record of the page behind it in the file comes over.
MergeBrother(f, at) ==
  LET page == f.pages[at]
      next == f.pages[at + 1]
  IN  IF at = Len(f.pages) \/ IsEmpty(next) THEN f
      ELSE Write(Write(f, at, Holding(page, Append(page.recs, Head(next.recs)), Tail(page.spare))),
                 at + 1, Holding(next, Tail(next.recs), <<0>> \o next.spare))

\* A page with few records takes those of the next page, or the first of them.
Merge(f, at) ==
  LET page == f.pages[at]
      next == f.pages[page.next]
  IN  CASE page.next = 0 -> f
        [] page.next # 0 /\ Len(page.recs) + Len(next.recs) <= N ->
             Write(f, at, [recs |-> page.recs \o next.recs, next |-> next.next,
                           spare |-> SubSeq(page.spare, Len(next.recs) + 1, Len(page.spare))])
        [] OTHER ->
             Write(Write(f, at, Holding(page, Append(page.recs, Head(next.recs)),
                                        Tail(page.spare))),
                   page.next, Holding(next, Tail(next.recs), <<0>> \o next.spare))

\* The slots the loop takes out: after one, the record that moves up is skipped.
TakenOut(recs, key) ==
  LET taken[i \in 0..Len(recs)] == i > 0 /\ recs[i].key = key /\ ~ taken[i - 1]
  IN  {i \in DOMAIN recs : taken[i]}

Without(recs, slots) ==
  LET left[i \in 0..Len(recs)] ==
        IF i = 0 THEN <<>>
        ELSE IF i \in slots THEN left[i - 1] ELSE Append(left[i - 1], recs[i])
  IN  left[Len(recs)]

\* A page that becomes empty stays in its chain when it is the first.  Of the
\* others, only the pointer of the first page is changed.
Erase(f, key) ==
  LET chain == Chain(f, LeafOf(f, key))
      stop == StopAt(f, chain, key)
      at == IF stop = 0 THEN 0 ELSE chain[stop]
      page == f.pages[at]
      out == TakenOut(page.recs, key)
      left == Holding(page, Without(page.recs, out), Slots(Cardinality(out), 0) \o page.spare)
  IN  IF stop = 0 \/ out = {} THEN Absent
      ELSE Removed(
        CASE stop > 1 /\ IsEmpty(left) ->
               Write(f, Head(chain), [f.pages[Head(chain)] EXCEPT !.next = page.next])
          [] ~ IsEmpty(left) /\ Len(left.recs) <= N \div 2 -> Merge(Write(f, at, left), at)
          [] OTHER -> Write(f, at, left))

-----------------------------------------------------------------------------
(* The operations.                                                          *)

ChainOf(leaf) == Chain(isam, leaf)

\* The records of all chains.
AllRecs == FlattenSeq([leaf \in 1..Leaves |-> Recs(isam, ChainOf(leaf))])

\* The caller passes the position of a new heap record.
Fresh(key) == {raw \in {key} \X (1..MaxPerKey) : raw \notin RawsOf(ToSet(AllRecs))}
NewRaw(key) == CHOOSE raw \in Fresh(key) : TRUE

KeyAdd(key) ==
  /\ built /\ Fresh(key) # {} /\ Len(isam.pages) < MaxPages
  /\ \E above \in BOOLEAN :
       isam' = Add(isam, [key |-> key, raws |-> {NewRaw(key)}], above)
  /\ reply' = "ok" /\ call' = <<"add", key>>
  /\ UNCHANGED built

KeyRemove(key) ==
  LET removed == Erase(isam, key)
  IN  /\ built
      /\ isam' = removed.isam
      /\ reply' = removed.outcome /\ call' = <<"remove", key>>
      /\ UNCHANGED built

\* build opens the files with ios::out, which empties them.
BulkInsert(batch) ==
  /\ call' = <<"build", batch>>
  /\ IF Len(batch) < Leaves * N THEN reply' = "throws" /\ UNCHANGED <<built, isam>>
     ELSE /\ \E above \in [Leaves * N + 1..Len(batch) -> BOOLEAN] : isam' = Build(batch, above)
          /\ Len(isam'.pages) <= MaxPages
          /\ reply' = "loaded"
          /\ built' = TRUE

\* A new process constructs the index.  Every call throws until build has run.
Reopen == /\ built /\ built' = FALSE
          /\ reply' = "none" /\ call' = <<"reopen">>
          /\ UNCHANGED isam

CallsOn(keys) == \E key \in keys : KeyAdd(key) \/ KeyRemove(key)

Next == CallsOn(Key) \/ Reopen \/ \E batch \in Batches : BulkInsert(batch)

Spec == Init /\ [][Next]_vars

-----------------------------------------------------------------------------
(* What the index promises.                                                 *)

entries == [key \in Key |-> IF built THEN Search(isam, key) ELSE {}]

\* The chains of the leaves never meet and never lead back: no page is in two of
\* them, or in one twice, whatever splits, merges and lost pages came before.
ChainsDisjoint ==
  built => \A a, b \in 1..Leaves :
             \A i \in DOMAIN ChainOf(a), j \in DOMAIN ChainOf(b) :
               ChainOf(a)[i] = ChainOf(b)[j] => a = b /\ i = j

\* The records that range_search can come to.
Listed ==
  FlattenSeq([leaf \in 1..Leaves |->
                IF IsEmpty(isam.pages[leaf]) THEN <<>> ELSE Recs(isam, ChainOf(leaf))])

\* Every record stays behind a leaf its key belongs to, however splits, merges and
\* lost pages move it: no leaf that begins above the key is before it, and none that
\* begins below the key is after it.  Only a key that a leaf begins with can also
\* have records in the leaf before, where build puts them.
RecordsInLeaf ==
  built =>
    \A leaf \in 1..Leaves : \A i \in DOMAIN ChainOf(leaf) :
      \A r \in ToSet(isam.pages[ChainOf(leaf)[i]].recs) :
        leaf \in Leaf(isam, {k \in Key : k < r.key})..LeafOf(isam, r.key)

\* However the keys are ordered in the pages: search finds the record of a key
\* that has only one, unless a leaf begins with the key, and range_search finds
\* exactly the records with a key in the range, but for those of a leaf whose first
\* page has become empty.
SearchAgrees ==
  built =>
    LET recs == AllRecs
        listed == Listed
    IN  /\ \A key \in Key \ ToSet(isam.sep) :
             Cardinality({i \in DOMAIN recs : recs[i].key = key}) <= 1
               => Search(isam, key) = RawsOf(Within(recs, {key}))
        /\ \A begin, end \in Key :
             RangeSearch(isam, begin, end) = RawsOf(Within(listed, begin..end))

\* A call is careful when
\*  - the first page of the leaf is not empty, or has no pages behind it;
\*  - the key has one record at most, and the call stops at the page it is in;
\*  - a removal does not empty a page behind the second of the chain.
InReach(key) ==
  LET chain == ChainOf(LeafOf(isam, key))
      stop == StopAt(isam, chain, key)
      same(i) == LET recs == isam.pages[chain[i]].recs
                 IN  {j \in DOMAIN recs : recs[j].key = key}
  IN  /\ IsEmpty(isam.pages[Head(chain)]) => Len(chain) = 1
      /\ \A i \in DOMAIN chain : same(i) = {} \/ (i = stop /\ Cardinality(same(i)) = 1)

UnlinksOnePage(key) ==
  LET chain == ChainOf(LeafOf(isam, key))
      stop == StopAt(isam, chain, key)
  IN  stop > 2 => Len(isam.pages[chain[stop]].recs) > 1

Promise == INSTANCE KeyIndex WITH PK <- FALSE

\* Every careful add and remove has the effect on what search answers, for every key,
\* and the outcome that an index promises of the operation with its arguments, also
\* after calls that were not careful.
KeepsPromise ==
  [][CASE call'[1] = "add" -> InReach(call'[2]) => Promise!Add(call'[2], NewRaw(call'[2]))
       [] call'[1] = "remove" ->
            InReach(call'[2]) /\ UnlinksOnePage(call'[2]) => Promise!Remove(call'[2])
       [] OTHER -> TRUE]_vars

\* A build puts each record of its batch behind a leaf, and nothing else: the adds
\* that follow the leaves lose none of those that were written before, in whatever
\* place of a page they go.
BuildLoads ==
  [][call'[1] = "build" /\ reply' = "loaded" =>
       RawsOf(ToSet(AllRecs')) = RawsOf(ToSet(RecordsOf(call'[2])))]_vars

\* ``manage the collision with chaining'' (ISAM.h:25): a key that is added goes to
\* the pages behind its leaf, and no other key goes away.
AddOnlyAdds ==
  [][call'[1] = "add" => \A key \in Key : entries[key] \subseteq entries'[key]]_vars
=============================================================================
