------------------------------ MODULE Secondary ------------------------------
(***************************************************************************)
(* create_index: indexes on other columns than the primary key, and what   *)
(* they make of the operations of Engine.  add does not know them, remove  *)
(* takes the key out of every sequential index of the table, and search    *)
(* and range_search use the sequential ones only.                          *)
(*                                                                         *)
(* One table, whose key can have an index.  The row of a key has the same  *)
(* values whenever it is added.  Of the AVL and ISAM indexes only their    *)
(* presence matters, for nothing ever reads them.                          *)
(***************************************************************************)
EXTENDS Engine

CONSTANTS
  Column,       \* the columns that are not the primary key
  ColumnType,   \* "number" for INT and FLOAT, "VARCHAR", "BOOL"
  Value,        \* the value that the row of each key has in each column
  MinBulk,      \* records the ISAM index needs (MIN_BULK_INSERT_SIZE)
  MaxPositions  \* bound: positions given out to indexes in one process

ASSUME SecondaryAssumption ==
  /\ \E t \in Table : Table = {t} /\ KeyType[t] = "number"
  /\ ColumnType \in [Column -> {"number", "VARCHAR", "BOOL"}]
  /\ Value \in [Column -> [Key -> Key]]
  /\ MinBulk \in Nat \ {0} /\ MaxPositions \in Nat

T == CHOOSE t \in Table : TRUE

VARIABLES
  files,    \* disk: the files of the sequential indexes, positions of each value
  made,     \* process: columns with an object in m_sequential_indexes
  avl,      \* process: columns with an object in m_avl_indexes
  given,    \* process: positions that the static prev_pos was increased by
  current   \* history: the number of rows an index was made of, while they are
            \* where it says, otherwise NotCurrent

secondary == <<files, made, avl, given, current>>
allVars == <<vars, secondary>>

NotCurrent == -1

SecondaryTypeOK ==
  /\ TypeOK
  /\ files \in [Column -> [Key -> SUBSET (0..MaxPositions - 1)]]
  /\ made \subseteq Column /\ avl \subseteq Column
  /\ given \in 0..MaxPositions
  /\ current \in [Column -> 0..MaxCount \union {NotCurrent}]
  /\ \A c \in Column : current[c] <= Len(heap[T])

InitSecondary ==
  /\ Init
  /\ files = [c \in Column |-> [v \in Key |-> {}]]
  /\ made = {} /\ avl = {} /\ given = 0
  /\ current = [c \in Column |-> NotCurrent]

NoneCurrent == [c \in Column |-> NotCurrent]
Values(begin, end) == {v \in Key : begin <= v /\ v <= end}

-----------------------------------------------------------------------------
(* create_index.                                                            *)

\* The rows that load returns before the first record without fields.
GoodRows == IF T \in open THEN 0 ELSE IF count[T] < Len(heap[T]) THEN count[T] ELSE Len(heap[T])

\* Mutant: the counting starts with the size of a record.
PositionsFromOne(c) ==
  [v \in Key |-> {given + i : i \in {j \in 1..GoodRows : Value[c][heap[T][j]] = v}}]

\* prev_pos is static: it goes on from where the last call, for whatever column or
\* table, left it.
PositionsOf(c) ==
  [v \in Key |-> {given + i - 1 : i \in {j \in 1..GoodRows : Value[c][heap[T][j]] = v}}]

IsEmpty(file) == \A v \in Key : file[v] = {}

\* bulk_insert leaves an index alone that has records.
SequentialMade(c) ==
  /\ made' = made \union {c}
  /\ IF IsEmpty(files[c])
     THEN /\ files' = [files EXCEPT ![c] = PositionsOf(c)]
          /\ current' = [current EXCEPT ![c] = IF given = 0 THEN GoodRows ELSE NotCurrent]
     ELSE UNCHANGED <<files, current>>
  /\ Returns("none")
  /\ UNCHANGED avl

\* create_index throws for a BOOL column.  For a VARCHAR one key_cast_and_execute does
\* not call what it is given, and create_index returns as if there were an index.
\* Otherwise the records have been read, and the positions given out, before anything
\* is checked; and what is checked, for any kind of index, is m_avl_indexes.
CreateIndex(c, kind) ==
  IF T \notin tables \/ ColumnType[c] = "BOOL" THEN Throws /\ UNCHANGED secondary
  ELSE IF ColumnType[c] = "VARCHAR"
  THEN Returns("none") /\ UNCHANGED <<disk, process, secondary>>
  ELSE /\ given + GoodRows <= MaxPositions
       /\ given' = given + GoodRows
       /\ open' = open \ {T}
       /\ CASE GoodRows < count[T] \/ c \in avl ->
                 Returns("throws") /\ UNCHANGED <<files, made, avl, current>>
            [] GoodRows = count[T] /\ c \notin avl /\ kind = "SEQUENTIAL" -> SequentialMade(c)
            [] GoodRows = count[T] /\ c \notin avl /\ kind = "AVL" ->
                 avl' = avl \union {c} /\ Returns("none") /\ UNCHANGED <<files, made, current>>
            [] OTHER -> /\ Returns(IF GoodRows < MinBulk THEN "throws" ELSE "none")
                        /\ UNCHANGED <<files, made, avl, current>>
       /\ UNCHANGED <<disk, tables, count, indexed>>

-----------------------------------------------------------------------------
(* search and range_search of a column that is not the key.  Without a       *)
(* sequential index on it nothing is found.                                  *)

FindBy(c, begin, end) ==
  IF T \notin tables THEN Throws /\ UNCHANGED secondary
  ELSE LET found == IF c \in made THEN UNION {files[c][v] : v \in Values(begin, end)} ELSE {}
       IN  /\ IF found = {} THEN Responds({}) /\ UNCHANGED open
              ELSE /\ \E first \in found :
                        Responds({RowAt(T, p, T \in open /\ p = first) : p \in found})
                   /\ open' = open \ {T}
           /\ UNCHANGED <<disk, tables, count, indexed, secondary>>

-----------------------------------------------------------------------------
(* remove goes through the sequential indexes of the table, in the order of  *)
(* a hash map, with the value of the key.  One that does not have it throws. *)
(* The position is the one that the last of them gives.                      *)

Has(i, k) == IF i = T THEN index[T][k] # NoEntry ELSE files[i][k] # {}

TakeOut(gone, k) ==
  /\ index' = IF T \in gone THEN [index EXCEPT ![T][k] = NoEntry] ELSE index
  /\ files' = [c \in Column |-> IF c \in gone THEN [files[c] EXCEPT ![k] = {}] ELSE files[c]]

Dated(gone) == [c \in Column |-> IF c \in gone THEN NotCurrent ELSE current[c]]

RemoveBy(k) ==
  LET all == {T} \union made
      missing == {i \in all : ~ Has(i, k)}
  IN  IF T \notin tables THEN Throws /\ UNCHANGED secondary
      ELSE /\ IF missing # {}
              THEN \E gone \in SUBSET (all \ missing) :
                     /\ TakeOut(gone, k)
                     /\ orphans' = [orphans EXCEPT ![T] = IF T \in gone THEN @ \union {k} ELSE @]
                     /\ current' = Dated(gone)
                     /\ Returns("throws")
                     /\ UNCHANGED <<heap, open>>
              ELSE /\ TakeOut(all, k)
                   /\ \E last \in all :
                        IF last = T /\ index[T][k] = NoFile
                        THEN Returns("false") /\ UNCHANGED <<heap, orphans, open>>
                        ELSE RemoveRow(T, k)
                   /\ current' = IF Opens(T) THEN NoneCurrent ELSE Dated(all)
           /\ UNCHANGED <<dirs, tables, count, indexed, made, avl, given>>

-----------------------------------------------------------------------------
(* The operations that remove the directory, and the next process.  The      *)
(* files of the indexes stay.                                                *)

CleanTableToo == CleanTable(T) /\ current' = NoneCurrent
                 /\ UNCHANGED <<files, made, avl, given>>

\* The loop over m_avl_indexes goes on from the element it has erased: if there
\* is one, the process may end.
DropTableToo == /\ \/ DropTable(T) /\ avl' = {} /\ UNCHANGED <<made, given>>
                   \/ /\ avl # {} /\ RemoveDirectory(T)
                      /\ tables' = {} /\ open' = {} /\ indexed' = {}
                      /\ count' = [t \in Table |-> 0]
                      /\ Returns("none")
                      /\ made' = {} /\ avl' = {} /\ given' = 0
                      /\ UNCHANGED index
                /\ current' = NoneCurrent
                /\ UNCHANGED <<files>>

RestartToo == Restart /\ made' = {} /\ avl' = {} /\ given' = 0
              /\ UNCHANGED <<files, current>>

\* A table that is made again has rows of its own.
CreateTableToo == CreateTable(T) /\ UNCHANGED secondary

Kinds == {"AVL", "SEQUENTIAL", "ISAM"}

NextSecondary ==
  \/ \E c \in Column, kind \in Kinds : CreateIndex(c, kind)
  \/ \E c \in Column, begin, end \in Key : FindBy(c, begin, end)
  \/ \E k \in Key : RemoveBy(k)
  \/ \E k \in Key, valid \in BOOLEAN : Insert(T, k, valid) /\ UNCHANGED secondary
  \/ \E k \in Key : Search(T, k) /\ UNCHANGED secondary
  \/ Load(T) /\ UNCHANGED secondary
  \/ CreateTableToo \/ CleanTableToo \/ DropTableToo \/ RestartToo

SpecSecondary == InitSecondary /\ [][NextSecondary]_allVars

-----------------------------------------------------------------------------
(* What an index on a column is good for.                                    *)

RowsWith(c, begin, end, n) ==
  {heap[T][i] : i \in {j \in 1..n : Value[c][heap[T][j]] \in Values(begin, end)}}

\* The first index that a process makes finds, for every range, exactly the rows
\* with a value in it that the table had at that moment: whatever is added, fails
\* to be added or is indexed later, until a remove comes upon the index or the
\* rows go.
FindsWhatItWasMadeOf ==
  [][\A c \in made, begin, end \in Key :
       FindBy(c, begin, end) /\ current[c] # NotCurrent /\ T \in tables \ open
         => reply'.rows = RowsWith(c, begin, end, current[c])]_allVars
=============================================================================
