--------------------------- MODULE SecondaryProofs ---------------------------
(***************************************************************************)
(* The invariants of Secondary, for any columns, values, keys and names.   *)
(*                                                                         *)
(* The engine's own invariant still holds with remove going through the    *)
(* other indexes and drop_table possibly ending the process.  On top of it *)
(* comes what the files of an index that is current hold: the positions of *)
(* the rows it was made of.  Then FindsWhatItWasMadeOf is a matter of one  *)
(* step.                                                                   *)
(***************************************************************************)
EXTENDS Secondary, EngineProofs

\* Time for each prover, for slower machines than the one the proofs were written on.
USE SMTT(60), ZenonT(60)

\* The table never counts more records than an insert lets it.
CountBounded == count[T] <= MaxCount

\* The files of an index that is current list, for each value, the rows that
\* have it among those the index was made of.
FilesCurrent ==
  \A c \in Column : current[c] # NotCurrent =>
    \A v \in Key : files[c][v] = {i - 1 : i \in {j \in 1..current[c] : Value[c][heap[T][j]] = v}}

SecondaryInv == IInv /\ SecondaryTypeOK /\ CountBounded /\ FilesCurrent

\* The model has one table.
LEMMA OneTable == T \in Table /\ \A t \in Table : t = T
BY SecondaryAssumption DEF T

FilesState == [Column -> [Key -> SUBSET (0..MaxPositions - 1)]]
CurrentState == [Column -> 0..MaxCount \union {NotCurrent}]

\* The operations that make no index keep the invariant when the indexes they
\* leave current, and the rows those were made of, are as they were.
LEMMA IndexesKeep ==
  ASSUME SecondaryInv, IInv', files' \in FilesState, current' \in CurrentState,
         made' \subseteq Column, avl' \subseteq Column, given' \in 0..MaxPositions,
         count'[T] <= MaxCount,
         \A c \in Column : current'[c] # NotCurrent =>
           /\ current'[c] = current[c] /\ files'[c] = files[c]
           /\ Len(heap[T]) <= Len(heap'[T])
           /\ \A i \in 1..Len(heap[T]) : heap'[T][i] = heap[T][i]
  PROVE  SecondaryInv'
<1>1. /\ heap[T] \in Seq(Key) /\ Len(heap[T]) \in Nat /\ heap'[T] \in Seq(Key) /\ Len(heap'[T]) \in Nat
      /\ \A c \in Column : current[c] \in 0..MaxCount \union {NotCurrent}
      /\ \A c \in Column : current[c] <= Len(heap[T])
      /\ MaxCount \in Nat
  BY OneTable, EngineAssumption DEF SecondaryInv, SecondaryTypeOK, IInv, TypeOK
<1>2. \A c \in Column : current'[c] <= Len(heap'[T])
  <2> SUFFICES ASSUME NEW c \in Column
               PROVE  current'[c] <= Len(heap'[T])
    OBVIOUS
  <2>1. CASE current'[c] = NotCurrent
    BY <1>1, <2>1 DEF NotCurrent
  <2>2. CASE current'[c] # NotCurrent
    <3>1. current'[c] = current[c] /\ current[c] \in Nat /\ Len(heap[T]) <= Len(heap'[T])
      BY <1>1, <2>2
    <3> QED BY <1>1, <3>1
  <2> QED BY <2>1, <2>2
<1>3. SecondaryTypeOK'
  BY <1>2 DEF SecondaryTypeOK, IInv, FilesState, CurrentState
<1>4. FilesCurrent'
  <2> SUFFICES ASSUME NEW c \in Column, current'[c] # NotCurrent, NEW v \in Key
               PROVE  files'[c][v] = {i - 1 : i \in {j \in 1..current'[c] : Value[c][heap'[T][j]] = v}}
    BY DEF FilesCurrent
  <2>1. /\ current'[c] = current[c] /\ files'[c] = files[c] /\ current[c] \in Nat
        /\ \A i \in 1..Len(heap[T]) : heap'[T][i] = heap[T][i]
    BY <1>1
  <2>2. \A j \in 1..current[c] : heap'[T][j] = heap[T][j]
    BY <1>1, <2>1
  <2>3. {j \in 1..current'[c] : Value[c][heap'[T][j]] = v} = {j \in 1..current[c] : Value[c][heap[T][j]] = v}
    BY <2>1, <2>2
  <2>4. files[c][v] = {i - 1 : i \in {j \in 1..current[c] : Value[c][heap[T][j]] = v}}
    BY <2>1 DEF SecondaryInv, FilesCurrent
  <2> QED BY <2>1, <2>3, <2>4
<1> QED BY <1>3, <1>4 DEF SecondaryInv, CountBounded

\* An operation of Engine that neither makes nor changes an index, and no row.
LEMMA EngineStepKeeps ==
  ASSUME SecondaryInv, IInv', UNCHANGED <<secondary, heap>>, count'[T] <= MaxCount
  PROVE  SecondaryInv'
<1>1. /\ files' \in FilesState /\ current' \in CurrentState /\ made' \subseteq Column
      /\ avl' \subseteq Column /\ given' \in 0..MaxPositions
  BY DEF SecondaryInv, SecondaryTypeOK, FilesState, CurrentState, secondary
<1>2. heap[T] \in Seq(Key) /\ Len(heap[T]) \in Nat
  BY OneTable DEF SecondaryInv, IInv, TypeOK
<1> QED BY <1>1, <1>2, IndexesKeep DEF secondary

\* load returns no more rows than the file has, nor than were counted.
LEMMA GoodRowsBounded ==
  ASSUME SecondaryInv
  PROVE  GoodRows \in Nat /\ GoodRows <= count[T] /\ GoodRows <= Len(heap[T]) /\ GoodRows <= MaxCount
<1>1. count[T] \in Nat /\ Len(heap[T]) \in Nat /\ count[T] <= MaxCount /\ MaxCount \in Nat
  BY OneTable, EngineAssumption DEF SecondaryInv, IInv, TypeOK, CountBounded
<1> QED BY <1>1 DEF GoodRows

\* bulk_insert: the positions it writes are those of the rows if no index was
\* made before in this process, and otherwise the index is not current.
LEMMA SequentialMadeKeeps ==
  ASSUME SecondaryInv, IInv', NEW c \in Column, SequentialMade(c),
         given + GoodRows <= MaxPositions, given' = given + GoodRows, UNCHANGED <<heap, count>>
  PROVE  SecondaryInv'
<1>1. /\ files \in FilesState /\ current \in CurrentState /\ made \subseteq Column
      /\ avl \subseteq Column /\ given \in 0..MaxPositions /\ MaxPositions \in Nat
      /\ MaxCount \in Nat /\ heap[T] \in Seq(Key) /\ Len(heap[T]) \in Nat
      /\ \A d \in Column : current[d] <= Len(heap[T])
  BY OneTable, EngineAssumption, SecondaryAssumption
     DEF SecondaryInv, SecondaryTypeOK, FilesState, CurrentState, IInv, TypeOK
<1>2. GoodRows \in Nat /\ GoodRows <= Len(heap[T]) /\ GoodRows <= MaxCount
  BY GoodRowsBounded
<1>3. /\ given' \in 0..MaxPositions /\ made' \subseteq Column /\ avl' \subseteq Column
      /\ count'[T] <= MaxCount
  BY <1>1, <1>2 DEF SequentialMade, SecondaryInv, CountBounded
<1>4. CASE IsEmpty(files[c])
  <2> DEFINE n == IF given = 0 THEN GoodRows ELSE NotCurrent
  <2>1. files' = [files EXCEPT ![c] = PositionsOf(c)] /\ current' = [current EXCEPT ![c] = n]
    BY <1>4 DEF SequentialMade
  <2>2. PositionsOf(c) \in [Key -> SUBSET (0..MaxPositions - 1)]
    <3> SUFFICES ASSUME NEW i \in 1..GoodRows
                 PROVE  given + i - 1 \in 0..MaxPositions - 1
      BY DEF PositionsOf
    <3> QED BY <1>1, <1>2
  <2>3. n \in 0..MaxCount \union {NotCurrent} /\ n <= Len(heap[T])
    BY <1>1, <1>2 DEF NotCurrent
  <2> HIDE DEF n
  <2>4. files' \in FilesState /\ current' \in CurrentState
    BY <1>1, <2>1, <2>2, <2>3 DEF FilesState, CurrentState
  <2>5. /\ current'[c] = n /\ files'[c] = PositionsOf(c)
        /\ \A d \in Column \ {c} : current'[d] = current[d] /\ files'[d] = files[d]
    BY <1>1, <2>1 DEF FilesState, CurrentState
  <2>6. \A d \in Column : current'[d] <= Len(heap'[T])
    BY <1>1, <2>3, <2>5
  <2>7. SecondaryTypeOK'
    BY <1>3, <2>4, <2>6 DEF SecondaryTypeOK, IInv, FilesState, CurrentState
  <2>8. FilesCurrent'
    <3> SUFFICES ASSUME NEW d \in Column, current'[d] # NotCurrent, NEW v \in Key
                 PROVE  files'[d][v] = {i - 1 : i \in {j \in 1..current'[d] : Value[d][heap'[T][j]] = v}}
      BY DEF FilesCurrent
    <3>1. CASE d = c
      <4>1. current'[c] = GoodRows /\ given = 0
        BY <2>5, <3>1 DEF n
      <4>2. files'[c][v] = {0 + i - 1 : i \in {j \in 1..GoodRows : Value[c][heap[T][j]] = v}}
        BY <2>5, <4>1 DEF PositionsOf
      <4>3. \A i \in 1..GoodRows : 0 + i - 1 = i - 1
        BY <1>2
      <4>4. files'[c][v] = {i - 1 : i \in {j \in 1..GoodRows : Value[c][heap[T][j]] = v}}
        BY <4>2, <4>3
      <4> QED BY <3>1, <4>1, <4>4
    <3>2. CASE d # c
      BY <2>5, <3>2 DEF SecondaryInv, FilesCurrent
    <3> QED BY <3>1, <3>2
  <2> QED BY <1>3, <2>7, <2>8 DEF SecondaryInv, CountBounded
<1>5. CASE ~ IsEmpty(files[c])
  <2>1. UNCHANGED <<files, current, avl>>
    BY <1>5 DEF SequentialMade
  <2> QED BY <1>1, <1>3, <2>1, IndexesKeep
<1> QED BY <1>4, <1>5

-----------------------------------------------------------------------------
\* A call that throws before it changed anything.
LEMMA ThrowingTooKeeps ==
  ASSUME SecondaryInv, Throws, UNCHANGED secondary
  PROVE  SecondaryInv'
<1>1. IInv' /\ UNCHANGED heap /\ count'[T] <= MaxCount
  BY ThrowingKeeps DEF SecondaryInv, CountBounded, Throws, disk, process
<1> QED BY <1>1, EngineStepKeeps

\* create_index, whatever kind and however it fails: it closes the stream and
\* gives out positions, and adds at most one index.
LEMMA CreateIndexKeeps ==
  ASSUME SecondaryInv, NEW c \in Column, NEW kind \in Kinds, CreateIndex(c, kind)
  PROVE  SecondaryInv'
<1>1. CASE T \notin tables \/ ColumnType[c] = "BOOL"
  BY <1>1, ThrowingTooKeeps DEF CreateIndex
<1>3. CASE T \in tables /\ ColumnType[c] = "VARCHAR"
  <2>1. Returns("none") /\ UNCHANGED <<disk, process, secondary>>
    BY <1>3 DEF CreateIndex
  <2>2. IInv' /\ UNCHANGED <<heap, count>>
    BY <2>1, ReadingKeeps DEF SecondaryInv, disk, process
  <2> QED BY <2>1, <2>2, EngineStepKeeps DEF SecondaryInv, CountBounded
<1>2. CASE T \in tables /\ ColumnType[c] \notin {"BOOL", "VARCHAR"}
  <2>1. /\ given + GoodRows <= MaxPositions /\ given' = given + GoodRows
        /\ open' \subseteq open /\ UNCHANGED <<disk, tables, count, indexed>>
        /\ Returns("throws") \/ Returns("none")
        /\ \/ SequentialMade(c)
           \/ UNCHANGED <<files, made, current>> /\ (avl' = avl \/ avl' = avl \union {c})
    BY <1>2 DEF CreateIndex, SequentialMade
  <2>2. IInv' /\ UNCHANGED <<heap, count>>
    BY <2>1, ReadingKeeps DEF SecondaryInv, disk
  <2>3. CASE SequentialMade(c)
    BY <2>1, <2>2, <2>3, SequentialMadeKeeps
  <2>4. CASE UNCHANGED <<files, made, current>> /\ (avl' = avl \/ avl' = avl \union {c})
    <3>1. /\ files' \in FilesState /\ current' \in CurrentState /\ made' \subseteq Column
          /\ avl' \subseteq Column /\ count'[T] <= MaxCount
          /\ given \in 0..MaxPositions /\ MaxPositions \in Nat /\ heap[T] \in Seq(Key)
      BY <2>2, <2>4, OneTable, SecondaryAssumption
         DEF SecondaryInv, SecondaryTypeOK, FilesState, CurrentState, CountBounded, IInv, TypeOK
    <3>2. given' \in 0..MaxPositions
      BY <2>1, <3>1, GoodRowsBounded
    <3>3. Len(heap[T]) <= Len(heap'[T])
      BY <2>2, <3>1
    <3> QED BY <2>2, <2>4, <3>1, <3>2, <3>3, IndexesKeep
  <2> QED BY <2>1, <2>3, <2>4
<1> QED BY <1>1, <1>2, <1>3

\* search and range_search of a column only read.
LEMMA FindByKeeps ==
  ASSUME SecondaryInv, NEW c \in Column, NEW begin \in Key, NEW end \in Key,
         FindBy(c, begin, end)
  PROVE  SecondaryInv'
<1>1. CASE T \notin tables
  BY <1>1, ThrowingTooKeeps DEF FindBy
<1>2. CASE T \in tables
  <2> DEFINE found == IF c \in made THEN UNION {files[c][v] : v \in Values(begin, end)} ELSE {}
             rows(first) == {RowAt(T, p, T \in open /\ p = first) : p \in found}
  <2>1. /\ UNCHANGED <<disk, tables, count, indexed, secondary>> /\ open' \subseteq open
        /\ \E first : Responds({}) \/ Responds(rows(first))
    BY <1>2 DEF FindBy
  <2>2. PICK first : Responds({}) \/ Responds(rows(first))
    BY <2>1
  <2>3. rows(first) \in SUBSET (Key \union {Blank})
    BY RowAtTyped, OneTable DEF SecondaryInv, IInv
  <2> HIDE DEF rows
  <2>4. IInv'
    BY <2>1, <2>2, <2>3, ReadingKeeps DEF SecondaryInv
  <2> QED BY <2>1, <2>4, EngineStepKeeps DEF disk, SecondaryInv, CountBounded
<1> QED BY <1>1, <1>2

-----------------------------------------------------------------------------
\* remove: the indexes that lost the key are no longer current; when the data
\* file is emptied, none is.
LEMMA RemoveByKeeps ==
  ASSUME SecondaryInv, NEW k \in Key, RemoveBy(k)
  PROVE  SecondaryInv'
<1>1. CASE T \notin tables
  BY <1>1, ThrowingTooKeeps DEF RemoveBy
<1>2. CASE T \in tables
  <2> DEFINE all == {T} \union made
             missing == {i \in all : ~ Has(i, k)}
  <2>1. UNCHANGED <<dirs, tables, count, indexed, made, avl, given>>
    BY <1>2 DEF RemoveBy
  <2>2. PICK gone :
          /\ TakeOut(gone, k)
          /\ current' = Dated(gone) \/ current' = NoneCurrent
          /\ UNCHANGED heap \/ current' = NoneCurrent
          /\ open' = open \/ (T \in tables /\ open' = LeftOpen(T))
          /\ Returns("false") \/ Returns("throws")
          /\ \/ heap' = [heap EXCEPT ![T] = <<>>] /\ orphans' = [orphans EXCEPT ![T] = {}]
             \/ orphans' = [orphans EXCEPT ![T] = @ \union {k}] /\ UNCHANGED heap
             \/ index[T][k] = NoFile /\ UNCHANGED <<heap, orphans>>
             \/ UNCHANGED <<index, heap, orphans>>
    <3>1. CASE missing # {}
      <4>1. PICK gone \in SUBSET (all \ missing) :
              /\ TakeOut(gone, k)
              /\ orphans' = [orphans EXCEPT ![T] = IF T \in gone THEN @ \union {k} ELSE @]
              /\ current' = Dated(gone) /\ Returns("throws") /\ UNCHANGED <<heap, open>>
        BY <1>2, <3>1 DEF RemoveBy
      <4>2. CASE T \in gone
        BY <4>1, <4>2
      <4>3. CASE T \notin gone
        <5>1. UNCHANGED index
          BY <4>1, <4>3 DEF TakeOut
        <5>2. orphans' = orphans
          BY <4>1, <4>3 DEF SecondaryInv, IInv, TypeOK
        <5> QED BY <4>1, <5>1, <5>2
      <4> QED BY <4>2, <4>3
    <3>2. CASE missing = {}
      <4>1. /\ TakeOut(all, k)
            /\ \/ index[T][k] = NoFile /\ Returns("false") /\ UNCHANGED <<heap, orphans, open>>
               \/ RemoveRow(T, k)
            /\ current' = IF Opens(T) THEN NoneCurrent ELSE Dated(all)
        BY <1>2, <3>2 DEF RemoveBy
      <4>2. CASE index[T][k] = NoFile /\ Returns("false") /\ UNCHANGED <<heap, orphans, open>>
        BY <4>1, <4>2
      <4>3. CASE RemoveRow(T, k)
        BY <1>2, <4>1, <4>3 DEF RemoveRow
      <4> QED BY <4>1, <4>2, <4>3
    <3> QED BY <3>1, <3>2
  <2>3. index' = [index EXCEPT ![T][k] = NoEntry] \/ UNCHANGED index
    BY <2>2 DEF TakeOut
  <2>4. IInv'
    BY <2>1, <2>2, <2>3, OneTable, TakeOutKeeps DEF SecondaryInv
  <2>5. /\ files \in FilesState /\ current \in CurrentState
        /\ heap[T] \in Seq(Key) /\ Len(heap[T]) \in Nat
        /\ made' \subseteq Column /\ avl' \subseteq Column
        /\ given' \in 0..MaxPositions /\ count'[T] <= MaxCount
    BY <2>1, OneTable
       DEF SecondaryInv, SecondaryTypeOK, FilesState, CurrentState, CountBounded, IInv, TypeOK
  <2>6. files' \in FilesState
    <3>1. files' = [c \in Column |-> IF c \in gone THEN [files[c] EXCEPT ![k] = {}] ELSE files[c]]
      BY <2>2 DEF TakeOut
    <3> QED BY <2>5, <3>1 DEF FilesState
  <2>7. current' \in CurrentState
    BY <2>2, <2>5 DEF CurrentState, Dated, NoneCurrent
  <2>8. ASSUME NEW c \in Column, current'[c] # NotCurrent
        PROVE  /\ current'[c] = current[c] /\ files'[c] = files[c]
               /\ Len(heap[T]) <= Len(heap'[T])
               /\ \A i \in 1..Len(heap[T]) : heap'[T][i] = heap[T][i]
    <3>1. current' = Dated(gone) /\ UNCHANGED heap /\ c \notin gone
      BY <2>2, <2>8 DEF Dated, NoneCurrent
    <3> QED BY <2>2, <2>5, <3>1 DEF Dated, TakeOut
  <2> QED BY <2>4, <2>5, <2>6, <2>7, <2>8, IndexesKeep
<1> QED BY <1>1, <1>2

-----------------------------------------------------------------------------
\* add: the rows that the indexes were made of stay where they are.
LEMMA InsertTooKeeps ==
  ASSUME SecondaryInv, NEW k \in Key, NEW valid \in BOOLEAN, Insert(T, k, valid),
         UNCHANGED secondary
  PROVE  SecondaryInv'
<1>1. /\ IInv' /\ heap \in [Table -> Seq(Key)] /\ heap[T] \in Seq(Key) /\ Len(heap[T]) \in Nat
      /\ count \in [Table -> Nat] /\ count[T] \in Nat /\ MaxCount \in Nat
  BY InsertKeeps, OneTable, EngineAssumption DEF SecondaryInv, IInv, TypeOK
<1>2. count'[T] <= MaxCount
  <2>1. count[T] < MaxCount
    BY DEF Insert
  <2>2. count' = count \/ count' = [count EXCEPT ![T] = @ + 1]
    BY DEF Insert, Counted, Throws, process
  <2>3. count'[T] = count[T] \/ count'[T] = count[T] + 1
    BY <1>1, <2>2, OneTable
  <2> QED BY <1>1, <2>1, <2>3
<1>3. heap'[T] = heap[T] \/ heap'[T] = Append(heap[T], k)
  BY <1>1, OneTable DEF Insert, Appended, Throws, disk
<1>4. /\ Len(heap[T]) <= Len(heap'[T])
      /\ \A i \in 1..Len(heap[T]) : heap'[T][i] = heap[T][i]
  BY <1>1, <1>3
<1>5. /\ files' \in FilesState /\ current' \in CurrentState /\ made' \subseteq Column
      /\ avl' \subseteq Column /\ given' \in 0..MaxPositions
  BY DEF SecondaryInv, SecondaryTypeOK, FilesState, CurrentState, secondary
<1> QED BY <1>1, <1>2, <1>4, <1>5, IndexesKeep DEF secondary

\* search by the key, load and create_table change no row and no index.
LEMMA PlainKeeps ==
  ASSUME SecondaryInv, UNCHANGED secondary,
         (\E k \in Key : Search(T, k)) \/ Load(T) \/ CreateTable(T)
  PROVE  SecondaryInv'
<1>1. IInv'
  BY SearchKeeps, LoadKeeps, CreateTableKeeps, OneTable DEF SecondaryInv
<1>2. UNCHANGED <<heap, count>>
  BY DEF Search, FindsNothing, Load, CreateTable, Throws, disk, process
<1> QED BY <1>1, <1>2, EngineStepKeeps DEF SecondaryInv, CountBounded

\* What the operations have in common that leave no index current, or leave the
\* rows and the files of the indexes as they are.
LEMMA DroppingKeeps ==
  ASSUME SecondaryInv, IInv', UNCHANGED files,
         current' = NoneCurrent \/ UNCHANGED <<heap, current>>,
         made' = {} \/ UNCHANGED made, avl' = {} \/ UNCHANGED avl,
         given' = 0 \/ UNCHANGED given,
         UNCHANGED count \/ count'[T] = 0
  PROVE  SecondaryInv'
<1>1. /\ files' \in FilesState /\ made' \subseteq Column /\ avl' \subseteq Column
      /\ given' \in 0..MaxPositions /\ count'[T] <= MaxCount
      /\ heap[T] \in Seq(Key) /\ Len(heap[T]) \in Nat
  BY OneTable, SecondaryAssumption, EngineAssumption
     DEF SecondaryInv, SecondaryTypeOK, FilesState, CountBounded, IInv, TypeOK
<1>2. current' \in CurrentState
  BY DEF SecondaryInv, SecondaryTypeOK, CurrentState, NoneCurrent
<1>3. ASSUME NEW c \in Column, current'[c] # NotCurrent
      PROVE  current'[c] = current[c] /\ UNCHANGED heap
  BY <1>3 DEF NoneCurrent
<1> QED BY <1>1, <1>2, <1>3, IndexesKeep

\* clean_table, drop_table and the next process.
LEMMA CleanTableTooKeeps == ASSUME SecondaryInv, CleanTableToo PROVE SecondaryInv'
<1>1. IInv'
  BY RemoveDirectoryKeeps, OneTable DEF CleanTableToo, CleanTable, process, SecondaryInv
<1> QED BY <1>1, DroppingKeeps DEF CleanTableToo, CleanTable, process

LEMMA RestartTooKeeps == ASSUME SecondaryInv, RestartToo PROVE SecondaryInv'
<1>1. IInv'
  BY RestartKeeps DEF RestartToo, SecondaryInv
<1>2. count'[T] = 0
  BY OneTable DEF RestartToo, Restart
<1> QED BY <1>1, <1>2, DroppingKeeps DEF RestartToo, Restart, disk

LEMMA DropTableTooKeeps == ASSUME SecondaryInv, DropTableToo PROVE SecondaryInv'
<1>1. UNCHANGED files /\ current' = NoneCurrent
  BY DEF DropTableToo
<1>2. CASE DropTable(T) /\ avl' = {} /\ UNCHANGED <<made, given>>
  <2>1. IInv'
    BY <1>2, RemoveDirectoryKeeps, OneTable DEF DropTable, SecondaryInv
  <2>2. count'[T] = 0
    BY <1>2, OneTable DEF DropTable, SecondaryInv, IInv, TypeOK
  <2> QED BY <1>1, <1>2, <2>1, <2>2, DroppingKeeps
<1>3. CASE /\ RemoveDirectory(T) /\ tables' = {} /\ open' = {} /\ indexed' = {}
           /\ count' = [t \in Table |-> 0] /\ Returns("none")
           /\ made' = {} /\ avl' = {} /\ given' = 0 /\ UNCHANGED index
  <2>1. /\ IInv /\ T \in Table
        /\ heap' = [heap EXCEPT ![T] = <<>>] /\ orphans' = [orphans EXCEPT ![T] = {}]
        /\ dirs' = dirs \ {T}
    BY <1>3, OneTable DEF RemoveDirectory, SecondaryInv
  <2>2. heap' \in [Table -> Seq(Key)] /\ \A t \in Table : heap'[t] = <<>>
    BY <2>1, OneTable DEF IInv, TypeOK
  <2>3. orphans' \in [Table -> SUBSET Key]
    <3>1. orphans \in [Table -> SUBSET Key]
      BY <2>1 DEF IInv, TypeOK
    <3> QED BY <2>1, <3>1
  <2>4. TypeOK'
    BY <1>3, <2>1, <2>2, <2>3, ReturnsTyped DEF IInv, TypeOK
  <2>5. HeapInDirectory' /\ RowsNeedIndex' /\ LoadCoversFile' /\ RowsIndexed'
    BY <1>3, <2>2 DEF HeapInDirectory, RowsNeedIndex, LoadCoversFile, RowsIndexed
  <2>6. count'[T] = 0
    BY <1>3, OneTable
  <2> QED BY <1>1, <1>3, <2>4, <2>5, <2>6, DroppingKeeps DEF IInv
<1> QED BY <1>1, <1>2, <1>3 DEF DropTableToo

-----------------------------------------------------------------------------
\* One case per operation.
LEMMA SecondaryInvIsInductive == SecondaryInv /\ [NextSecondary]_allVars => SecondaryInv'
<1> SUFFICES ASSUME SecondaryInv, [NextSecondary]_allVars
             PROVE  SecondaryInv'
  OBVIOUS
<1>1. ASSUME NEW c \in Column, NEW kind \in Kinds, CreateIndex(c, kind) PROVE SecondaryInv'
  BY <1>1, CreateIndexKeeps
<1>2. ASSUME NEW c \in Column, NEW begin \in Key, NEW end \in Key, FindBy(c, begin, end)
      PROVE  SecondaryInv'
  BY <1>2, FindByKeeps
<1>3. ASSUME NEW k \in Key, RemoveBy(k) PROVE SecondaryInv'
  BY <1>3, RemoveByKeeps
<1>4. ASSUME NEW k \in Key, NEW valid \in BOOLEAN, Insert(T, k, valid), UNCHANGED secondary
      PROVE  SecondaryInv'
  BY <1>4, InsertTooKeeps
<1>5. ASSUME NEW k \in Key, Search(T, k), UNCHANGED secondary PROVE SecondaryInv'
  BY <1>5, PlainKeeps
<1>6. ASSUME Load(T), UNCHANGED secondary PROVE SecondaryInv'
  BY <1>6, PlainKeeps
<1>7. ASSUME CreateTableToo PROVE SecondaryInv'
  BY <1>7, PlainKeeps DEF CreateTableToo
<1>8. CASE UNCHANGED allVars
  <2>1. UNCHANGED vars /\ UNCHANGED secondary
    BY <1>8 DEF allVars
  <2>2. IInv'
    BY <2>1
       DEF SecondaryInv, vars, IInv, TypeOK, HeapInDirectory, RowsNeedIndex, LoadCoversFile, RowsIndexed
  <2> QED BY <2>1, <2>2, EngineStepKeeps DEF vars, SecondaryInv, CountBounded
<1> QED BY <1>1, <1>2, <1>3, <1>4, <1>5, <1>6, <1>7, <1>8, CleanTableTooKeeps, DropTableTooKeeps,
           RestartTooKeeps DEF NextSecondary

\* Every state reachable with indexes on other columns satisfies the invariant.
THEOREM SecondaryInvariant == SpecSecondary => []SecondaryInv
<1>1. InitSecondary => SecondaryInv
  <2> SUFFICES ASSUME InitSecondary
               PROVE  SecondaryInv
    OBVIOUS
  <2>1. IInv
    BY DEF InitSecondary, Init, IInv, TypeOK, HeapInDirectory, RowsNeedIndex, LoadCoversFile,
           RowsIndexed, NoEntry
  <2>2. /\ heap[T] = <<>> /\ count[T] = 0 /\ MaxCount \in Nat /\ MaxPositions \in Nat
    BY OneTable, EngineAssumption, SecondaryAssumption DEF InitSecondary, Init
  <2>3. SecondaryTypeOK /\ CountBounded
    BY <2>1, <2>2
       DEF InitSecondary, SecondaryTypeOK, CountBounded, IInv, NotCurrent
  <2>4. FilesCurrent
    BY DEF InitSecondary, FilesCurrent
  <2> QED BY <2>1, <2>3, <2>4 DEF SecondaryInv
<1> QED BY <1>1, SecondaryInvIsInductive, PTL DEF SpecSecondary

\* The state with its indexes is well formed: among others, no index claims more
\* rows than the data file has.
THEOREM SecondaryTypeCorrect == SpecSecondary => []SecondaryTypeOK
<1>1. SecondaryInv => SecondaryTypeOK
  BY DEF SecondaryInv
<1> QED BY <1>1, SecondaryInvariant, PTL

\* With remove going through every sequential index of the table, and failing
\* anywhere on the way, the entry of each key in the data file is still the
\* position of its record, but for the keys taken out of the index only.
THEOREM SecondaryRowsIndexed == SpecSecondary => []RowsIndexed
<1>1. SecondaryInv => RowsIndexed
  BY DEF SecondaryInv, IInv
<1> QED BY <1>1, SecondaryInvariant, PTL

\* The index that a process makes first finds, for every range of values, exactly
\* the rows that the table had when it was made.
THEOREM SecondaryFinds == SpecSecondary => FindsWhatItWasMadeOf
<1> DEFINE Exact(c, begin, end) ==
      FindBy(c, begin, end) /\ current[c] # NotCurrent /\ T \in tables \ open
        => reply'.rows = RowsWith(c, begin, end, current[c])
<1>1. ASSUME SecondaryInv, NEW c \in made, NEW begin \in Key, NEW end \in Key,
             FindBy(c, begin, end), current[c] # NotCurrent, T \in tables \ open
      PROVE  reply'.rows = RowsWith(c, begin, end, current[c])
  <2> DEFINE n == current[c]
             found == UNION {files[c][v] : v \in Values(begin, end)}
             rows(first) == {RowAt(T, p, T \in open /\ p = first) : p \in found}
  <2>1. /\ c \in Column /\ heap[T] \in Seq(Key) /\ Len(heap[T]) \in Nat
        /\ n \in Nat /\ n <= Len(heap[T])
        /\ Value[c] \in [Key -> Key]
        /\ \A v \in Key : files[c][v] = {i - 1 : i \in {j \in 1..n : Value[c][heap[T][j]] = v}}
    BY <1>1, OneTable, SecondaryAssumption
       DEF SecondaryInv, SecondaryTypeOK, IInv, TypeOK, FilesCurrent
  <2>2. \A p : p \in found <=> \E j \in 1..n : p = j - 1 /\ Value[c][heap[T][j]] \in Values(begin, end)
    <3>1. \A j \in 1..n : Value[c][heap[T][j]] \in Key
      BY <2>1
    <3> QED BY <2>1, <3>1 DEF Values
  <2>3. \A j \in 1..n : \A first : RowAt(T, j - 1, T \in open /\ (j - 1) = first) = heap[T][j]
    <3> SUFFICES ASSUME NEW j \in 1..n, NEW first
                 PROVE  RowAt(T, j - 1, T \in open /\ (j - 1) = first) = heap[T][j]
      OBVIOUS
    <3>1. (T \in open /\ (j - 1) = first) = FALSE
      BY <1>1
    <3>2. RowAt(T, j - 1, FALSE) = heap[T][j]
      BY <2>1 DEF RowAt
    <3> QED BY <3>1, <3>2
  <2>4. \A first : rows(first) = RowsWith(c, begin, end, n)
    <3> SUFFICES ASSUME NEW first PROVE rows(first) = RowsWith(c, begin, end, n)
      OBVIOUS
    <3> DEFINE row(p) == RowAt(T, p, T \in open /\ p = first)
    <3>1. \A p \in found : \E j \in 1..n : p = j - 1 /\ row(p) = heap[T][j]
                                        /\ Value[c][heap[T][j]] \in Values(begin, end)
      BY <2>2, <2>3
    <3>2. \A j \in 1..n : Value[c][heap[T][j]] \in Values(begin, end) =>
                            j - 1 \in found /\ row(j - 1) = heap[T][j]
      BY <2>2, <2>3
    <3> HIDE DEF found, row
    <3>3. {row(p) : p \in found} = {heap[T][i] : i \in {j \in 1..n : Value[c][heap[T][j]] \in Values(begin, end)}}
      BY <3>1, <3>2
    <3> QED BY <3>3 DEF RowsWith, row
  <2>5. CASE found = {}
    <3>1. Responds({})
      BY <1>1, <2>5 DEF FindBy
    <3>2. rows(0) = {}
      BY <2>5
    <3> QED BY <2>4, <3>1, <3>2 DEF Responds
  <2>6. CASE found # {}
    <3>1. PICK first : Responds(rows(first))
      BY <1>1, <2>6 DEF FindBy
    <3> QED BY <2>4, <3>1 DEF Responds
  <2> QED BY <2>5, <2>6
<1>2. SecondaryInv => [\A c \in made, begin, end \in Key : Exact(c, begin, end)]_allVars
  BY <1>1
<1> QED BY <1>2, SecondaryInvariant, PTL DEF FindsWhatItWasMadeOf
==============================================================================
