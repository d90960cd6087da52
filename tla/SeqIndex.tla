------------------------------ MODULE SeqIndex ------------------------------
(***************************************************************************)
(* The sequential index (libs/Indexes/Sequential): an index file of        *)
(* records in physical key order, an overflow file of records in arrival   *)
(* order, one chain of `next' pointers through both that starts at the     *)
(* header of the index file, and a file of duplicates.  One action per     *)
(* public operation; a call is atomic here, since the engine makes it on   *)
(* the thread of the request.                                              *)
(*                                                                         *)
(* Byte offsets are record numbers from 1.  A record's own current_pos and *)
(* current_file are where it is, so they are not stored.                   *)
(***************************************************************************)
EXTENDS SeqProbe, FiniteSetsExt, SequencesExt

CONSTANTS
  Key,        \* keys, integers
  MaxPerKey,  \* bound: records with the same key at a time
  MaxRecords, \* bound: records in the index, without and with a primary key
  MaxAux,     \* bound: records addNotRebuild lets the overflow file grow to
  Bulks       \* batches that bulk_insert is called with, sorted by key

\* Raw positions of records in the heap file.  The index only stores them, so
\* they are named after the key of the record they are the position of.
Position == Key \X (1..MaxPerKey)

ASSUME SeqIndexAssumption ==
  /\ Key \subseteq Int
  /\ MaxPerKey \in Nat \ {0} /\ MaxRecords \in [BOOLEAN -> Nat] /\ MaxAux \in Nat
  /\ Bulks \subseteq Seq(Position) \ {<<>>}
  /\ \A bulk \in Bulks : \A i, j \in DOMAIN bulk :
       i < j => bulk[i][1] <= bulk[j][1] /\ bulk[i] # bulk[j]

VARIABLES
  PK,         \* set by the constructor: the index is on a primary key
  disk,       \* [hdr, index, aux, dups]: the header and the three files
  reply       \* outcome of the last call

vars == <<PK, disk, reply>>

\* The record the chain ends at has next_pos END_OF_FILE in INDEXFILE.
Pointer == [file : {"index", "aux"}, pos : Nat]
InIndex(i) == [file |-> "index", pos |-> i]
InAux(i)   == [file |-> "aux", pos |-> i]
Nil        == InIndex(0)
Header     == [file |-> "header", pos |-> 0]

Entry == [data : Int, raw : Position, dup : Nat, next : Pointer]

Disk == [hdr : Pointer, index : Seq(Entry), aux : Seq(Entry),
         dups : Seq([raw : Position, dup : Nat])]

TypeOK == /\ PK \in BOOLEAN
          /\ disk \in Disk
          /\ reply \in {"none", "ok", "duplicate", "absent", "misread", "loaded", "ignored"}

\* createFile: a header with no record, and two empty files.
Init == /\ PK \in BOOLEAN
        /\ disk = [hdr |-> Nil, index |-> <<>>, aux |-> <<>>, dups |-> <<>>]
        /\ reply = "none"

-----------------------------------------------------------------------------
(* Reading the files.                                                       *)

Rec(d, p) == IF p.file = "index" THEN d.index[p.pos] ELSE d.aux[p.pos]
NextOf(d, p) == IF p = Header THEN d.hdr ELSE Rec(d, p).next
SetNext(d, p, q) == CASE p = Header       -> [d EXCEPT !.hdr = q]
                      [] p.file = "index" -> [d EXCEPT !.index[p.pos].next = q]
                      [] p.file = "aux"   -> [d EXCEPT !.aux[p.pos].next = q]

\* The loops that follow a pointer from record to record, from p until it is one of
\* `stop'.  A chain has none of the `size' records twice.
Follow(size, next, stop, p) ==
  LET path[n \in 0..size] == [q \in DOMAIN next |->
        IF n = 0 \/ q \in stop THEN <<>> ELSE <<q>> \o path[n - 1][next[q]]]
  IN  path[size][p]

\* The records of the chain from p to its end.
Chain(d, p) ==
  Follow(Len(d.index) + Len(d.aux), [q \in Pointer |-> Rec(d, q).next], {Nil}, p)

\* The records of the overflow file between p and the next record of the index
\* file: where the loops over next_file # INDEXFILE go.
Overflow(d, p) ==
  Follow(Len(d.aux), [q \in Pointer |-> Rec(d, q).next],
         [file : {"index"}, pos : Nat], NextOf(d, p))

\* Positions of a chain of duplicates, and all the positions of a record
\* (getAllRawCurrentRecords).
Duplicates(d, dup) ==
  LET path == Follow(Len(d.dups), [i \in Nat |-> d.dups[i].dup], {0}, dup)
  IN  [i \in DOMAIN path |-> d.dups[path[i]].raw]
AllRaw(d, p) == {Rec(d, p).raw} \union ToSet(Duplicates(d, Rec(d, p).dup))

\* binarySearch.  What it tests at the ends of the file does not matter
\* (SeqBinarySearch), so `key' stands for the variables that were not read.
BinarySearch(d, key) ==
  LET n == Len(d.index)
      keys == [i \in 1..n |-> d.index[i].data]
      Response(loc, at) == [location |-> loc, at |-> at,
                            header |-> loc = "REC_PREV" /\ at = 1]
      search[left \in 0..n + 1] == [right \in -1..n |->
        LET mid == (left + right) \div 2
            v == Verdict(keys, key, mid, key, key)
        IN  IF left > right          THEN Response("EMPTY_FILE", 0)
            ELSE IF v \in Locations  THEN Response(v, mid + 1)
            ELSE IF v = "RIGHT"      THEN search[mid + 1][right]
            ELSE search[left][mid - 1]]
  IN  IF n = 0 THEN Response("EMPTY_FILE", 0) ELSE search[0][n]

\* The record of the index file, or the header, that a key which is not in the
\* index file comes after.
HangsFrom(b) == IF b.header THEN Header
                ELSE InIndex(IF b.location = "REC_PREV" THEN b.at - 1 ELSE b.at)

-----------------------------------------------------------------------------
(* rebuild: the chain, in order, becomes the index file.                    *)

CopyRecord(d, files, p) ==
  LET rec == Rec(d, p)
      dups == Duplicates(d, rec.dup)
      base == Len(files.dups)
      copy == [i \in 1..Len(dups) |->
                 [raw |-> dups[i], dup |-> IF i = Len(dups) THEN 0 ELSE base + i + 1]]
      new == [data |-> rec.data, raw |-> rec.raw,
              dup  |-> IF dups = <<>> THEN 0 ELSE base + 1,
              next |-> IF rec.next = Nil THEN Nil ELSE InIndex(Len(files.index) + 2)]
  IN  [hdr |-> files.hdr, index |-> Append(files.index, new),
       aux |-> <<>>, dups |-> files.dups \o copy]

CopiedBehind(d, dups) ==
  LET chain == Chain(d, d.hdr)
      files[i \in 0..Len(chain)] ==
        IF i = 0 THEN [hdr |-> IF d.hdr = Nil THEN Nil ELSE InIndex(1),
                       index |-> <<>>, aux |-> <<>>, dups |-> dups]
        ELSE CopyRecord(d, files[i - 1], chain[i])
  IN  files[Len(chain)]

\* Mutant: the old duplicates are kept in front of the copied ones.
RebuiltKeepsDups(d) == CopiedBehind(d, d.dups)

Rebuilt(d) == CopiedBehind(d, <<>>)

\* validNumberRecords: log2(index records) >= overflow records.
ValidNumberRecords(d) == 2 ^ Len(d.aux) <= Len(d.index)

-----------------------------------------------------------------------------
(* add.                                                                     *)

\* Mutant: the dup_pos of the record is left unset.
NewRecordUnset(key, raw, next) == [data |-> key, raw |-> raw, dup |-> -1, next |-> next]

NewRecord(key, raw, next) == [data |-> key, raw |-> raw, dup |-> 0, next |-> next]
Result(d, outcome) == [disk |-> d, outcome |-> outcome]

\* Mutant: the rest of the chain is dropped.
InsertAfterEnd(d, p, key, raw) ==
  LET d1 == [d EXCEPT !.aux = Append(@, NewRecord(key, raw, Nil))]
  IN  Result(SetNext(d1, p, InAux(Len(d1.aux))), "ok")

\* insertAfterRecord: append to the overflow file, then link.
InsertAfter(d, p, key, raw) ==
  LET d1 == [d EXCEPT !.aux = Append(@, NewRecord(key, raw, NextOf(d, p)))]
  IN  Result(SetNext(d1, p, InAux(Len(d1.aux))), "ok")

\* insertAux passes the overflow file to insertAfterRecord when the key goes
\* before the first overflow record of the header: the new header is written
\* over the first bytes of that file, which hold data and raw_pos of its first
\* record.  The header itself does not change.
HeaderBytes == 24
RecordBytes == 88
InsertBeforeFirstOverflow(d, key, raw) ==
  LET d1 == [d EXCEPT !.aux = Append(@, NewRecord(key, raw, d.hdr))]
  IN  Result([d1 EXCEPT !.aux[1].data = RecordBytes * Len(d.aux), !.aux[1].raw = <<0, 0>>], "ok")

\* insertDuplicate: the new duplicate goes first in the chain of duplicates.
SetDup(d, p, i) == IF p.file = "index" THEN [d EXCEPT !.index[p.pos].dup = i]
                   ELSE [d EXCEPT !.aux[p.pos].dup = i]
WithDuplicate(d, p, raw) ==
  SetDup([d EXCEPT !.dups = Append(@, [raw |-> raw, dup |-> Rec(d, p).dup])],
         p, Len(d.dups) + 1)
InsertDuplicate(d, p, raw) == IF PK THEN Result(d, "duplicate")
                              ELSE Result(WithDuplicate(d, p, raw), "ok")

\* insertAux: the overflow records of `from' are walked up to the first that is
\* not below the key.
InsertOverflow(d, from, key, raw) ==
  LET over == Overflow(d, from)
      below == {i \in DOMAIN over : Rec(d, over[i]).data < key}
      same == {p \in ToSet(over) : Rec(d, p).data = key}
  IN  IF same # {} THEN InsertDuplicate(d, CHOOSE p \in same : TRUE, raw)
      ELSE IF from = Header /\ below = {} THEN InsertBeforeFirstOverflow(d, key, raw)
      ELSE InsertAfter(d, IF below = {} THEN from ELSE over[Max(below)], key, raw)

\* add up to the rebuild.
Added(d, key, raw) ==
  LET b == BinarySearch(d, key)
      from == HangsFrom(b)
  IN  CASE b.location = "EMPTY_FILE" ->
             Result([hdr |-> InIndex(1), index |-> <<NewRecord(key, raw, Nil)>>,
                     aux |-> d.aux, dups |-> d.dups], "ok")
        [] b.location = "REC_CUR" -> InsertDuplicate(d, InIndex(b.at), raw)
        [] OTHER -> IF Overflow(d, from) = <<>> THEN InsertAfter(d, from, key, raw)
                    ELSE InsertOverflow(d, from, key, raw)

RawInUse == UNION {AllRaw(disk, p) : p \in ToSet(Chain(disk, disk.hdr))}

\* The caller passes the position of a new heap record.
NumRecords == Len(disk.index) + Len(disk.aux) + Len(disk.dups)
NewRaws(key) == LET free == {j \in 1..MaxPerKey : <<key, j>> \notin RawInUse}
                IN  {<<key, j>> : j \in {i \in free : i = Min(free) /\ NumRecords < MaxRecords[PK]}}

Add(key, raw) ==
  LET a == Added(disk, key, raw)
  IN  /\ disk' = IF a.outcome = "ok" /\ ~ ValidNumberRecords(a.disk)
                 THEN Rebuilt(a.disk) ELSE a.disk
      /\ reply' = a.outcome
      /\ UNCHANGED PK

\* addNotRebuild, which loadRecords repeats before one rebuild.
AddNotRebuild(key, raw) ==
  LET a == Added(disk, key, raw)
  IN  /\ Len(disk.aux) < MaxAux
      /\ disk' = a.disk
      /\ reply' = a.outcome
      /\ UNCHANGED PK

Rebuild == disk' = Rebuilt(disk) /\ UNCHANGED <<PK, reply>>

-----------------------------------------------------------------------------
(* remove.                                                                  *)

\* Mutant: the overflow records in front of the removed one are skipped.
UnlinkAfterFrom(d, from, p) == SetNext(d, from, Rec(d, p).next)

\* The overflow records of `from' go on before the record that is unlinked.
UnlinkAfter(d, from, p) ==
  LET over == Overflow(d, from)
  IN  SetNext(d, IF over = <<>> THEN from ELSE Last(over), Rec(d, p).next)

UnlinkOverflow(d, from, key) ==
  LET path == <<from>> \o Overflow(d, from)
      at == {i \in 2..Len(path) : Rec(d, path[i]).data = key}
  IN  IF at = {} THEN Result(d, "absent")
      ELSE LET i == CHOOSE j \in at : TRUE
           IN  Result(SetNext(d, path[i - 1], Rec(d, path[i]).next), "ok")

\* When the key would be in the overflow records of the header, erase reads the
\* first of them at its offset, but in the index file.  That is the middle of a
\* record, from its next_pos on, or of the header for the first offset: what is taken
\* for the key is a byte offset, and what is taken for next_file says INDEXFILE, so
\* the search ends as if the key were not there.
\*  - When the byte offset is the key, what was read is written at the beginning of the
\*    file: a header that points where the record that was read did, and a first record
\*    with the key of the next one.
\*  - Beyond the end of the file nothing is read, and the search goes on from the first
\*    record of the overflow file.
\* The caller is told in both cases that the key was not there.
PointerBytes(p) == IF p = Nil THEN -1
                   ELSE RecordBytes * (p.pos - 1) + IF p.file = "index" THEN HeaderBytes ELSE 0
ErasedBelowFirst(d, key) ==
  LET i == d.hdr.pos
      read == NextOf(d, IF i = 1 THEN Header ELSE InIndex(i - 1))
      from == <<InAux(1)>> \o Overflow(d, InAux(1))
  IN  CASE d.hdr.file = "index" -> Result(d, "absent")
        [] d.hdr.file = "aux" /\ i <= Len(d.index) ->
             IF PointerBytes(read) # key THEN Result(d, "absent")
             ELSE Result([d EXCEPT !.hdr = read,
                                   !.index[1] = [d.index[i] EXCEPT !.next = d.index[1].next]],
                         "misread")
        [] OTHER -> Result(d, IF \E p \in ToSet(from) : Rec(d, p).data = key
                              THEN "misread" ELSE "absent")

\* erase.
Erased(d, key) ==
  LET b == BinarySearch(d, key)
      before == IF b.at = 1 THEN Header ELSE InIndex(b.at - 1)
  IN  CASE b.location = "EMPTY_FILE" -> Result(d, "absent")
        [] b.location = "REC_CUR" -> Result(UnlinkAfter(d, before, InIndex(b.at)), "ok")
        [] OTHER -> IF b.header THEN ErasedBelowFirst(d, key)
                    ELSE UnlinkOverflow(d, HangsFrom(b), key)

RemoveKey(key) ==
  LET e == Erased(disk, key)
  IN  /\ disk' = IF e.outcome = "ok" THEN Rebuilt(e.disk) ELSE e.disk
      /\ reply' = e.outcome
      /\ UNCHANGED PK

-----------------------------------------------------------------------------
(* bulk_insert, for an index without records.  It checks no primary key: the *)
(* engine calls it only for the secondary indexes of create_index.           *)

\* A record of the batch is its position, which has its key; std::sort leaves equal
\* keys in any order.  The first one of a key becomes a record, the others its
\* duplicates.
Load(files, raw) ==
  LET n == Len(files.index)
      linked == IF n = 0 THEN files ELSE SetNext(files, InIndex(n), InIndex(n + 1))
  IN  IF n # 0 /\ files.index[n].data = raw[1] THEN WithDuplicate(files, InIndex(n), raw)
      ELSE [linked EXCEPT !.index = Append(@, NewRecord(raw[1], raw, Nil))]
Loaded(bulk) ==
  LET files[i \in 0..Len(bulk)] ==
        IF i = 0 THEN [hdr |-> InIndex(1), index |-> <<>>, aux |-> <<>>, dups |-> <<>>]
        ELSE Load(files[i - 1], bulk[i])
  IN  files[Len(bulk)]

BulkInsert(bulk) ==
  /\ ~ PK /\ disk.index = <<>>
  /\ disk' = Loaded(bulk) /\ reply' = "loaded"
  /\ UNCHANGED PK

\* With records in the index file, whatever the batch.
BulkIgnored ==
  /\ ~ PK /\ disk.index # <<>>
  /\ reply' = "ignored"
  /\ UNCHANGED <<PK, disk>>

-----------------------------------------------------------------------------
\* Nothing is known of the files when what was misread has been written or followed.
Next ==
  /\ reply # "misread"
  /\ \/ \E key \in Key : \E raw \in NewRaws(key) : Add(key, raw)
     \/ \E key \in Key : \E raw \in NewRaws(key) : AddNotRebuild(key, raw)
     \/ \E key \in Key : RemoveKey(key)
     \/ \E bulk \in Bulks : BulkInsert(bulk)
     \/ BulkIgnored
     \/ Rebuild

Spec == Init /\ [][Next]_vars

\* The calls that keep away from the defects in the overflow records of the header:
\* no key is added in front of the first of them, none of their keys is removed, nor
\* a key that happens to be a byte offset which is read in place of theirs.
KeepsHeaderOverflow(key) ==
  disk.hdr.file = "aux" => \/ disk.index[1].data <= key
                           \/ Rec(disk, disk.hdr).data <= key
NotInHeaderOverflow(key) ==
  \A p \in ToSet(Overflow(disk, Header)) : Rec(disk, p).data # key
NotMisread(key) == Erased(disk, key).outcome # "misread"

CarefulNext ==
  \/ \E key \in Key : \E raw \in NewRaws(key) : KeepsHeaderOverflow(key) /\ Add(key, raw)
  \/ \E key \in Key : \E raw \in NewRaws(key) :
       KeepsHeaderOverflow(key) /\ AddNotRebuild(key, raw)
  \/ \E key \in Key : NotInHeaderOverflow(key) /\ NotMisread(key) /\ RemoveKey(key)
  \/ \E bulk \in Bulks : BulkInsert(bulk)
  \/ BulkIgnored
  \/ Rebuild

CarefulSpec == Init /\ [][CarefulNext]_vars

-----------------------------------------------------------------------------
(* search and range_search.                                                 *)

\* Mutant: the walk stops only above the key.
StopOverflowAbove(d, b, key) ==
  LET from == HangsFrom(b)
      over == Overflow(d, from)
      stops == {i \in 1..Len(over) : Rec(d, over[i]).data > key}
  IN  IF over = <<>> THEN IF b.header THEN InIndex(b.at) ELSE from
      ELSE IF stops = {} THEN Last(over) ELSE over[Min(stops)]

\* searchAuxFile: the walk stops at the first record that is not below the key,
\* or at the last one before the index file.  Returns the record it stopped at.
StopOverflow(d, b, key) ==
  LET from == HangsFrom(b)
      over == Overflow(d, from)
      stops == {i \in 1..Len(over) : Rec(d, over[i]).data >= key}
  IN  IF over = <<>> THEN IF b.header THEN InIndex(b.at) ELSE from
      ELSE IF stops = {} THEN Last(over) ELSE over[Min(stops)]

\* The record search and range_search end their first phase at.
StopAt(d, b, key) == IF b.location = "REC_CUR" THEN InIndex(b.at) ELSE StopOverflow(d, b, key)

Search(d, key) ==
  LET b == BinarySearch(d, key)
  IN  IF b.location = "EMPTY_FILE" THEN {}
      ELSE LET p == StopAt(d, b, key)
           IN  IF Rec(d, p).data = key THEN AllRaw(d, p) ELSE {}

\* From the first record above `begin', records are taken in chain order as
\* long as they are not above `end'.
RangeSearch(d, begin, end) ==
  LET b == BinarySearch(d, begin)
      p == StopAt(d, b, begin)
      first == IF Rec(d, p).data <= begin THEN Rec(d, p).next ELSE p
      rest == Chain(d, first)
      taken == {i \in 1..Len(rest) : \A j \in 1..i : Rec(d, rest[j]).data <= end}
  IN  IF begin > end \/ b.location = "EMPTY_FILE" THEN {}
      ELSE Search(d, begin) \union UNION {AllRaw(d, rest[i]) : i \in taken}

-----------------------------------------------------------------------------
(* What makes the index correct.                                            *)

\* The entries of the index: what the chain holds for each key.
Entries ==
  LET chain == ToSet(Chain(disk, disk.hdr))
  IN  [key \in Key |->
         UNION {AllRaw(disk, p) : p \in {q \in chain : Rec(disk, q).data = key}}]

\* The chain is the records of both files, each once, in strict key order; the
\* index file by itself is sorted, which the binary search relies on.
ChainOrdered ==
  LET chain == Chain(disk, disk.hdr)
  IN  /\ Sorted([i \in 1..Len(chain) |-> Rec(disk, chain[i]).data])
      /\ Sorted([i \in 1..Len(disk.index) |-> disk.index[i].data])
      /\ ToSet(chain) = {InIndex(i) : i \in 1..Len(disk.index)}
                          \union {InAux(i) : i \in 1..Len(disk.aux)}

\* Each record of the duplicates file belongs to exactly one key.
DuplicatesOwned ==
  LET chain == ToSet(Chain(disk, disk.hdr))
  IN  Len(disk.dups) = MapThenSumSet(LAMBDA p : Len(Duplicates(disk, Rec(disk, p).dup)), chain)

\* search and range_search answer with the entries, whether a record is in the
\* index file, in the overflow file or in the duplicates file.
SearchAgrees ==
  /\ \A key \in Key : Search(disk, key) = Entries[key]
  /\ \A begin, end \in Key :
       RangeSearch(disk, begin, end) = UNION {Entries[key] : key \in begin..end \cap Key}

\* An accepted key is found from then on, and no other key is disturbed.
AddOnlyAdds ==
  [][\A key \in Key : \A raw \in NewRaws(key) :
       Add(key, raw) /\ reply' = "ok" =>
         Entries' = [Entries EXCEPT ![key] = @ \union {raw}]]_vars

\* The index keeps its promise: every call that is careful has the effect on the map
\* from keys to positions, and the outcome, that its own operation has with its own
\* arguments, and a rebuild has none.
Promise == INSTANCE KeyIndex WITH entries <- Entries
Batch(bulk) == [i \in DOMAIN bulk |-> <<bulk[i][1], bulk[i]>>]

CallsKeepPromise ==
  /\ \A key \in Key : \A raw \in NewRaws(key) :
       KeepsHeaderOverflow(key) /\ (Add(key, raw) \/ AddNotRebuild(key, raw))
         => Promise!Add(key, raw)
  /\ \A key \in Key :
       NotInHeaderOverflow(key) /\ NotMisread(key) /\ RemoveKey(key) => Promise!Remove(key)
  /\ disk.index = <<>> =>
       \A bulk \in Bulks : BulkInsert(bulk) => Promise!BulkInsert(Batch(bulk))
  /\ BulkIgnored => Promise!BulkIgnored
  /\ Rebuild => UNCHANGED <<PK, Entries, reply>>
KeepsPromise == Promise!Init /\ [][CallsKeepPromise]_vars
=============================================================================
