---------------------------- MODULE EngineProofs ----------------------------
(***************************************************************************)
(* The invariants of Engine, for any tables, keys and attribute names.     *)
(*                                                                         *)
(* LoadCoversFile and RowsIndexed are inductive once it is known that a    *)
(* table without a directory has no records: create_table makes a table of *)
(* whatever the data file holds, and looks at the directory only.          *)
(***************************************************************************)
EXTENDS Engine, SequenceTheorems, TLAPS

\* Time for each prover, for slower machines than the one the proofs were written on.
USE SMTT(60), ZenonT(60)

\* The data file is in the directory of the table.
HeapInDirectory == \A t \in Table : t \notin dirs => heap[t] = <<>>

\* A table whose key cannot have an index never gets a record.
RowsNeedIndex == \A t \in Table : KeyType[t] # "number" => heap[t] = <<>>

IInv == TypeOK /\ HeapInDirectory /\ RowsNeedIndex /\ LoadCoversFile /\ RowsIndexed

-----------------------------------------------------------------------------
\* What an operation that returns nothing answers is well formed.
LEMMA ReturnsTyped ==
  ASSUME NEW outcome \in {"none", "true", "false", "throws", "response"}, Returns(outcome)
  PROVE  /\ reply'.outcome \in {"none", "true", "false", "throws", "response"}
         /\ reply'.rows \in SUBSET (Key \union {Blank})
BY DEF Returns

\* A read yields a record of the data file or nothing.
LEMMA RowAtTyped ==
  ASSUME TypeOK, NEW t \in Table, NEW p, NEW isOpen
  PROVE  RowAt(t, p, isOpen) \in Key \union {Blank}
<1>1. CASE isOpen \/ p \notin 0..(Len(heap[t]) - 1)
  BY <1>1 DEF RowAt
<1>2. CASE ~ (isOpen \/ p \notin 0..(Len(heap[t]) - 1))
  <2>1. heap[t] \in Seq(Key)
    BY DEF TypeOK
  <2>2. p \in 0..(Len(heap[t]) - 1) /\ Len(heap[t]) \in Nat
    BY <1>2, <2>1
  <2>3. p + 1 \in 1..Len(heap[t])
    BY <2>2
  <2>4. heap[t][p + 1] \in Key
    BY <2>1, <2>3
  <2> QED BY <1>2, <2>4 DEF RowAt
<1> QED BY <1>1, <1>2

\* An operation that changes neither the disk nor the objects, and closes at
\* most a stream, keeps the invariant whatever it responds with.
LEMMA ReadingKeeps ==
  ASSUME IInv, NEW rows \in SUBSET (Key \union {Blank}),
         Responds(rows) \/ Returns("throws") \/ Returns("none"),
         open' \subseteq open, UNCHANGED <<disk, tables, count, indexed>>
  PROVE  IInv'
<1> USE DEF IInv, disk
<1>1. TypeOK'
  BY DEF TypeOK, Responds, Returns
<1>2. HeapInDirectory'
  BY DEF HeapInDirectory
<1>3. LoadCoversFile'
  BY DEF LoadCoversFile
<1>4. RowsIndexed' /\ RowsNeedIndex'
  BY DEF RowsIndexed, RowsNeedIndex
<1> QED BY <1>1, <1>2, <1>3, <1>4

\* So does one that throws before it changed anything.
LEMMA ThrowingKeeps ==
  ASSUME IInv, NEW outcome \in {"none", "true", "false", "throws", "response"},
         Returns(outcome), UNCHANGED <<disk, process>>
  PROVE  IInv'
BY ReturnsTyped
   DEF IInv, disk, process, TypeOK, HeapInDirectory, RowsNeedIndex, LoadCoversFile, RowsIndexed

-----------------------------------------------------------------------------
\* A new table has no record, so whatever index files it finds are right.
LEMMA CreateTableKeeps ==
  ASSUME IInv, NEW t \in Table, CreateTable(t)
  PROVE  IInv'
<1>1. CASE t \in dirs
  BY <1>1, ThrowingKeeps DEF CreateTable
<1>2. CASE t \notin dirs
  <2> USE <1>2 DEF IInv, CreateTable
  <2>1. TypeOK'
    BY ReturnsTyped DEF TypeOK
  <2>2. HeapInDirectory'
    BY DEF HeapInDirectory
  <2>3. LoadCoversFile'
    <3>1. Len(heap[t]) = 0 /\ count[t] \in Nat
      BY DEF HeapInDirectory, TypeOK
    <3> QED BY <3>1 DEF LoadCoversFile
  <2>4. RowsIndexed' /\ RowsNeedIndex'
    BY DEF RowsIndexed, RowsNeedIndex
  <2> QED BY <2>1, <2>2, <2>3, <2>4
<1> QED BY <1>1, <1>2

-----------------------------------------------------------------------------
\* insert: the position that goes into the index is where the record goes.
LEMMA InsertKeeps ==
  ASSUME IInv, NEW t \in Table, NEW k \in Key, NEW valid \in BOOLEAN, Insert(t, k, valid)
  PROVE  IInv'
<1>1. CASE t \notin tables \/ Refused(t, k)
  BY <1>1, ThrowingKeeps DEF Insert, Throws
<1>2. CASE ~ (t \notin tables \/ Refused(t, k))
  <2>0. KeyType[t] = "number" /\ index[t][k] = NoEntry /\ t \in tables
    BY <1>2 DEF Refused
  <2> USE <1>2, <2>0 DEF IInv
  <2>1. /\ index' = [index EXCEPT ![t][k] = NextPos(t)]
        /\ UNCHANGED <<dirs, tables, indexed, orphans>>
        /\ \/ /\ valid
              /\ heap' = Appended(t, k) /\ count' = Counted(t) /\ open' = open \ {t}
              /\ Returns("true")
           \/ /\ open' = LeftOpen(t) /\ UNCHANGED <<heap, count>>
              /\ Returns("throws")
    BY DEF Insert
  <2>2. /\ heap \in [Table -> Seq(Key)] /\ count \in [Table -> Nat]
        /\ heap[t] \in Seq(Key) /\ Len(heap[t]) \in Nat
    BY DEF TypeOK
  <2>3. NextPos(t) \in Int /\ (t \in dirs => NextPos(t) = Len(heap[t]))
    BY <2>2 DEF NextPos, NoFile
  <2>4. /\ heap' \in [Table -> Seq(Key)]
        /\ \A s \in Table \ {t} : heap'[s] = heap[s]
        /\ \/ heap'[t] = heap[t]
           \/ t \in dirs /\ heap'[t] = Append(heap[t], k)
    <3>1. CASE heap' = heap
      BY <2>2, <3>1
    <3>2. CASE heap' = [heap EXCEPT ![t] = Append(@, k)] /\ t \in dirs
      <4>1. Append(heap[t], k) \in Seq(Key)
        BY <2>2
      <4> QED BY <2>2, <3>2, <4>1
    <3> QED BY <2>1, <3>1, <3>2 DEF Appended, Opens
  <2>5. TypeOK'
    <3>1. index' \in [Table -> [Key -> Int]]
      BY <2>1, <2>3 DEF TypeOK
    <3>2. count' \in [Table -> Nat]
      <4>1. count[t] + 1 \in Nat
        BY <2>2
      <4>2. count' = count \/ count' = [count EXCEPT ![t] = @ + 1]
        BY <2>1 DEF Counted
      <4> QED BY <2>2, <4>1, <4>2
    <3>3. open' \in SUBSET tables
      BY <2>1 DEF TypeOK, LeftOpen
    <3> QED BY <2>1, <2>4, <3>1, <3>2, <3>3, ReturnsTyped DEF TypeOK
  <2>6. HeapInDirectory' /\ RowsNeedIndex'
    BY <2>1, <2>4 DEF HeapInDirectory, RowsNeedIndex
  <2>7. LoadCoversFile'
    <3> SUFFICES ASSUME NEW s \in tables
                 PROVE  Len(heap'[s]) <= count'[s]
      BY <2>1 DEF LoadCoversFile
    <3>1. s \in Table /\ Len(heap[s]) <= count[s] /\ count[s] \in Nat /\ heap[s] \in Seq(Key)
      BY DEF LoadCoversFile, TypeOK
    <3>2. CASE UNCHANGED <<heap, count>>
      BY <3>1, <3>2
    <3>3. CASE heap' = Appended(t, k) /\ count' = Counted(t)
      <4>1. CASE s # t
        BY <3>1, <3>3, <4>1 DEF Appended, Counted, TypeOK
      <4>2. CASE s = t
        <5>1. count'[s] = count[s] + 1
          BY <3>1, <3>3, <4>2 DEF Counted, TypeOK
        <5>2. heap'[s] = heap[s] \/ heap'[s] = Append(heap[s], k)
          BY <2>4, <4>2
        <5>3. Len(heap'[s]) <= Len(heap[s]) + 1
          BY <3>1, <5>2
        <5> QED BY <3>1, <5>1, <5>3
      <4> QED BY <4>1, <4>2
    <3> QED BY <2>1, <3>2, <3>3
  <2>8. RowsIndexed'
    <3> SUFFICES ASSUME NEW s \in Table, NEW i \in 1..Len(heap'[s])
                 PROVE  heap'[s][i] \in orphans[s] \/ index'[s][heap'[s][i]] = i - 1
      BY <2>1 DEF RowsIndexed
    <3>1. index'[s] = IF s = t THEN [index[t] EXCEPT ![k] = NextPos(t)] ELSE index[s]
      BY <2>1 DEF TypeOK
    <3>2. CASE s # t
      BY <2>4, <3>1, <3>2 DEF RowsIndexed
    <3>3. CASE s = t /\ i \in 1..Len(heap[t])
      <4>1. heap'[t][i] = heap[t][i] /\ heap[t][i] \in Key
        BY <2>2, <2>4, <3>3
      <4>2. heap[t][i] \in orphans[t] \/ index[t][heap[t][i]] = i - 1
        BY <3>3 DEF RowsIndexed
      <4>3. CASE heap[t][i] = k
        <5>1. i - 1 # NoEntry
          BY <2>2, <3>3 DEF NoEntry
        <5> QED BY <3>3, <4>1, <4>2, <4>3, <5>1
      <4>4. CASE heap[t][i] # k
        <5>1. index'[t][heap[t][i]] = index[t][heap[t][i]]
          BY <2>1, <4>1, <4>4 DEF TypeOK
        <5> QED BY <3>3, <4>1, <4>2, <5>1
      <4> QED BY <4>3, <4>4
    <3>4. CASE s = t /\ i \notin 1..Len(heap[t])
      <4>1. heap'[t] = Append(heap[t], k) /\ t \in dirs
        BY <2>4, <3>4
      <4>2. i = Len(heap[t]) + 1
        BY <2>2, <3>4, <4>1
      <4>3. heap'[t][i] = k
        BY <2>2, <4>1, <4>2
      <4>4. index'[t][k] = Len(heap[t])
        BY <2>3, <4>1, <2>1 DEF TypeOK
      <4> QED BY <2>2, <3>4, <4>2, <4>3, <4>4
    <3> QED BY <3>2, <3>3, <3>4
  <2> QED BY <2>5, <2>6, <2>7, <2>8
<1> QED BY <1>1, <1>2

-----------------------------------------------------------------------------
\* When a key is taken out of the index, the file is emptied, or the key becomes
\* an orphan, or its entry was for no record.
LEMMA TakeOutKeeps ==
  ASSUME IInv, NEW t \in Table, NEW k \in Key,
         index' = [index EXCEPT ![t][k] = NoEntry] \/ UNCHANGED index,
         open' = open \/ (t \in tables /\ open' = LeftOpen(t)),
         Returns("false") \/ Returns("throws"),
         UNCHANGED <<dirs, tables, count, indexed>>,
         \/ heap' = [heap EXCEPT ![t] = <<>>] /\ orphans' = [orphans EXCEPT ![t] = {}]
         \/ orphans' = [orphans EXCEPT ![t] = @ \union {k}] /\ UNCHANGED heap
         \/ index[t][k] = NoFile /\ UNCHANGED <<heap, orphans>>
         \/ UNCHANGED <<index, heap, orphans>>
  PROVE  IInv'
<1> USE DEF IInv
<1>1. /\ index' = [index EXCEPT ![t][k] = NoEntry] \/ UNCHANGED index
      /\ open' = open \/ (t \in tables /\ open' = LeftOpen(t))
      /\ Returns("false") \/ Returns("throws")
      /\ UNCHANGED <<dirs, tables, count, indexed>>
      /\ \/ heap' = [heap EXCEPT ![t] = <<>>] /\ orphans' = [orphans EXCEPT ![t] = {}]
         \/ orphans' = [orphans EXCEPT ![t] = @ \union {k}] /\ UNCHANGED heap
         \/ index[t][k] = NoFile /\ UNCHANGED <<heap, orphans>>
         \/ UNCHANGED <<index, heap, orphans>>
  OBVIOUS
<1>2. heap' \in [Table -> Seq(Key)] /\ \A s \in Table : heap'[s] = heap[s] \/ heap'[s] = <<>>
  <2>1. heap \in [Table -> Seq(Key)] /\ <<>> \in Seq(Key)
    BY DEF TypeOK
  <2>2. heap' = heap \/ heap' = [heap EXCEPT ![t] = <<>>]
    BY <1>1
  <2> QED BY <2>1, <2>2
<1>3. TypeOK'
  <2>1. index' \in [Table -> [Key -> Int]]
    <3>1. index \in [Table -> [Key -> Int]]
      BY DEF TypeOK
    <3>2. [index EXCEPT ![t][k] = NoEntry] \in [Table -> [Key -> Int]]
      BY <3>1 DEF NoEntry
    <3> QED BY <1>1, <3>1, <3>2
  <2>2. orphans' \in [Table -> SUBSET Key]
    <3>1. orphans \in [Table -> SUBSET Key]
      BY DEF TypeOK
    <3>2. \/ orphans' = [orphans EXCEPT ![t] = {}]
          \/ orphans' = [orphans EXCEPT ![t] = @ \union {k}]
          \/ orphans' = orphans
      BY <1>1
    <3> QED BY <3>1, <3>2
  <2>3. open' \in SUBSET tables
    BY <1>1 DEF TypeOK, LeftOpen
  <2> QED BY <1>1, <1>2, <2>1, <2>2, <2>3, ReturnsTyped DEF TypeOK
<1>4. HeapInDirectory' /\ RowsNeedIndex'
  BY <1>1, <1>2 DEF HeapInDirectory, RowsNeedIndex
<1>5. LoadCoversFile'
  <2> SUFFICES ASSUME NEW s \in tables
               PROVE  Len(heap'[s]) <= count[s]
    BY <1>1 DEF LoadCoversFile
  <2>1. s \in Table /\ Len(heap[s]) <= count[s] /\ count[s] \in Nat
    BY DEF LoadCoversFile, TypeOK
  <2> QED BY <1>2, <2>1
<1>6. RowsIndexed'
  <2> SUFFICES ASSUME NEW s \in Table, NEW i \in 1..Len(heap'[s])
               PROVE  heap'[s][i] \in orphans'[s] \/ index'[s][heap'[s][i]] = i - 1
    BY DEF RowsIndexed
  <2>1. heap'[s] = heap[s] /\ heap[s] \in Seq(Key) /\ i \in 1..Len(heap[s])
    BY <1>2 DEF TypeOK
  <2>2. heap[s][i] \in Key /\ (heap[s][i] \in orphans[s] \/ index[s][heap[s][i]] = i - 1)
    BY <2>1 DEF RowsIndexed
  <2>3. CASE s # t
    BY <1>1, <2>1, <2>2, <2>3 DEF TypeOK
  <2>4. CASE s = t
    <3>1. \/ orphans'[t] = orphans[t] \union {k}
          \/ orphans'[t] = orphans[t] /\ (index[t][k] = NoFile \/ UNCHANGED index)
      <4>1. CASE heap' = [heap EXCEPT ![t] = <<>>]
        BY <2>1, <2>4, <4>1 DEF TypeOK
      <4>2. CASE orphans' = [orphans EXCEPT ![t] = @ \union {k}]
        BY <4>2 DEF TypeOK
      <4>3. CASE index[t][k] = NoFile /\ UNCHANGED <<heap, orphans>>
        BY <4>3
      <4>4. CASE UNCHANGED <<index, heap, orphans>>
        BY <4>4
      <4> QED BY <1>1, <4>1, <4>2, <4>3, <4>4
    <3>2. heap[s][i] # k => index'[t][heap[s][i]] = index[t][heap[s][i]]
      BY <1>1, <2>2 DEF TypeOK
    <3>3. CASE heap[s][i] # k
      BY <2>1, <2>2, <2>4, <3>1, <3>2, <3>3
    <3>4. CASE heap[s][i] = k
      <4>1. i - 1 # NoFile
        BY <2>1 DEF NoFile
      <4> QED BY <2>1, <2>2, <2>4, <3>1, <3>4, <4>1
    <3> QED BY <3>3, <3>4
  <2> QED BY <2>3, <2>4
<1> QED BY <1>3, <1>4, <1>5, <1>6

\* remove.
LEMMA RemoveKeeps ==
  ASSUME IInv, NEW t \in Table, NEW k \in Key, Remove(t, k)
  PROVE  IInv'
<1> DEFINE keyed == KeyType[t] = "number"
<1>1. CASE t \notin tables \/ (keyed /\ index[t][k] = NoEntry)
  BY <1>1, ThrowingKeeps DEF Remove, Throws
<1>3. CASE t \in tables /\ ~ keyed
  <2>1. /\ open' = LeftOpen(t) /\ Returns("throws")
        /\ heap' = heap \/ heap' = [heap EXCEPT ![t] = <<>>]
        /\ UNCHANGED <<dirs, tables, index, count, indexed, orphans>>
    BY <1>3 DEF Remove, RemoveFirst
  <2>2. heap \in [Table -> Seq(Key)] /\ heap[t] = <<>>
    BY <1>3 DEF IInv, TypeOK, RowsNeedIndex
  <2>3. UNCHANGED <<index, heap, orphans>>
    BY <2>1, <2>2
  <2> QED BY <1>3, <2>1, <2>3, TakeOutKeeps
<1>2. CASE t \in tables /\ keyed /\ index[t][k] # NoEntry
  <2>1. /\ index' = [index EXCEPT ![t][k] = NoEntry]
        /\ open' = open \/ open' = LeftOpen(t)
        /\ Returns("false") \/ Returns("throws")
        /\ UNCHANGED <<dirs, tables, count, indexed>>
        /\ \/ heap' = [heap EXCEPT ![t] = <<>>] /\ orphans' = [orphans EXCEPT ![t] = {}]
           \/ orphans' = [orphans EXCEPT ![t] = @ \union {k}] /\ UNCHANGED heap
           \/ index[t][k] = NoFile /\ UNCHANGED <<heap, orphans>>
    BY <1>2 DEF Remove, RemoveRow
  <2>2. open' = open \/ (t \in tables /\ open' = LeftOpen(t))
    BY <1>2, <2>1
  <2>3. \/ heap' = [heap EXCEPT ![t] = <<>>] /\ orphans' = [orphans EXCEPT ![t] = {}]
        \/ orphans' = [orphans EXCEPT ![t] = @ \union {k}] /\ UNCHANGED heap
        \/ index[t][k] = NoFile /\ UNCHANGED <<heap, orphans>>
        \/ UNCHANGED <<index, heap, orphans>>
    BY <2>1
  <2> QED BY <2>1, <2>2, <2>3, TakeOutKeeps
<1> QED BY <1>1, <1>2, <1>3

-----------------------------------------------------------------------------
\* A search of a table without an index finds nothing or throws.
LEMMA FindingNothingKeeps ==
  ASSUME IInv, NEW t \in Table, FindsNothing(t)
  PROVE  IInv'
<1>1. CASE Throws
  BY <1>1, ThrowingKeeps DEF Throws
<1>2. CASE Responds({}) /\ UNCHANGED <<disk, process>>
  BY <1>2, ReadingKeeps DEF process
<1> QED BY <1>1, <1>2 DEF FindsNothing

LEMMA SearchKeeps ==
  ASSUME IInv, NEW t \in Table, NEW k \in Key, Search(t, k)
  PROVE  IInv'
<1>1. CASE t \notin tables
  BY <1>1, ThrowingKeeps DEF Search, Throws
<1>3. CASE t \in tables /\ KeyType[t] # "number"
  BY <1>3, FindingNothingKeeps DEF Search
<1>2. CASE t \in tables /\ KeyType[t] = "number"
  <2>1. TypeOK
    BY DEF IInv
  <2>2. /\ UNCHANGED <<disk, tables, count, indexed>>
        /\ open' \subseteq open
        /\ \/ Responds({})
           \/ \E s \in Matching(t) : Responds({RowAt(t, index[s][k], t \in open)})
    BY <1>2 DEF Search
  <2>3. CASE Responds({})
    BY <2>2, <2>3, ReadingKeeps
  <2>4. CASE \E s \in Matching(t) : Responds({RowAt(t, index[s][k], t \in open)})
    <3>1. PICK s : Responds({RowAt(t, index[s][k], t \in open)})
      BY <2>4
    <3>2. {RowAt(t, index[s][k], t \in open)} \in SUBSET (Key \union {Blank})
      BY <2>1, RowAtTyped
    <3> QED BY <2>2, <3>1, <3>2, ReadingKeeps
  <2> QED BY <2>2, <2>3, <2>4
<1> QED BY <1>1, <1>2, <1>3

LEMMA RangeSearchKeeps ==
  ASSUME IInv, NEW t \in Table, NEW begin \in Key, NEW end \in Key,
         RangeSearch(t, begin, end)
  PROVE  IInv'
<1>1. CASE t \notin tables
  BY <1>1, ThrowingKeeps DEF RangeSearch, Throws
<1>3. CASE t \in tables /\ KeyType[t] # "number"
  BY <1>3, FindingNothingKeeps DEF RangeSearch
<1>2. CASE t \in tables /\ KeyType[t] = "number"
  <2>1. TypeOK
    BY DEF IInv
  <2> DEFINE found(s) == {k \in Key : index[s][k] # NoEntry /\ begin <= k /\ k <= end}
             blank(s, k) == t \in open /\ \A j \in found(s) : k <= j
             rows(s) == {RowAt(t, index[s][k], blank(s, k)) : k \in found(s)}
  <2>2. /\ UNCHANGED <<disk, tables, count, indexed>>
        /\ open' \subseteq open
        /\ \E s \in Matching(t) : Responds(rows(s))
    BY <1>2 DEF RangeSearch
  <2>3. PICK s : Responds(rows(s))
    BY <2>2
  <2>4. rows(s) \in SUBSET (Key \union {Blank})
    BY <2>1, RowAtTyped
  <2> HIDE DEF rows
  <2> QED BY <2>2, <2>3, <2>4, ReadingKeeps
<1> QED BY <1>1, <1>2, <1>3

LEMMA FullRangeSearchKeeps ==
  ASSUME IInv, NEW t \in Table, FullRangeSearch(t)
  PROVE  IInv'
<1>1. CASE t \notin tables
  BY <1>1, ThrowingKeeps DEF FullRangeSearch, Throws
<1>2. CASE t \in tables
  <2>1. /\ UNCHANGED <<disk, tables, count, indexed>>
        /\ open' \subseteq open /\ Returns("throws")
    BY <1>2 DEF FullRangeSearch
  <2> QED BY <2>1, ReadingKeeps
<1> QED BY <1>1, <1>2

LEMMA LoadKeeps ==
  ASSUME IInv, NEW t \in Table, Load(t)
  PROVE  IInv'
<1>1. CASE t \notin tables
  BY <1>1, ThrowingKeeps DEF Load, Throws
<1>2. CASE t \in tables
  <2>1. TypeOK
    BY DEF IInv
  <2> DEFINE rows == {RowAt(t, p, t \in open) : p \in 0..(count[t] - 1)}
  <2>2. /\ UNCHANGED <<disk, tables, count, indexed>>
        /\ open' \subseteq open
        /\ Responds(rows)
    BY <1>2 DEF Load
  <2>3. rows \in SUBSET (Key \union {Blank})
    BY <2>1, RowAtTyped
  <2> HIDE DEF rows
  <2> QED BY <2>2, <2>3, ReadingKeeps
<1> QED BY <1>1, <1>2

-----------------------------------------------------------------------------
\* Removing the directory takes the records with it.
LEMMA RemoveDirectoryKeeps ==
  ASSUME IInv, NEW t \in Table, RemoveDirectory(t), Returns("none"),
         UNCHANGED <<index, indexed>>,
         UNCHANGED <<tables, count, open>> \/
         (tables' = tables \ {t} /\ count' = [count EXCEPT ![t] = 0] /\ open' = open \ {t})
  PROVE  IInv'
<1> USE DEF IInv, RemoveDirectory
<1>1. heap' \in [Table -> Seq(Key)] /\ \A s \in Table : heap'[s] = IF s = t THEN <<>> ELSE heap[s]
  BY DEF TypeOK
<1>2. TypeOK'
  <2>1. count' \in [Table -> Nat] /\ orphans' \in [Table -> SUBSET Key]
    <3>1. count \in [Table -> Nat] /\ orphans \in [Table -> SUBSET Key]
      BY DEF TypeOK
    <3>2. count' = count \/ count' = [count EXCEPT ![t] = 0]
      OBVIOUS
    <3>3. orphans' = [orphans EXCEPT ![t] = {}]
      OBVIOUS
    <3>4. count' \in [Table -> Nat]
      BY <3>1, <3>2
    <3> QED BY <3>1, <3>3, <3>4
  <2>2. open' \in SUBSET tables'
    BY DEF TypeOK
  <2>3. /\ dirs' \in SUBSET Table /\ tables' \in SUBSET Table
        /\ \A s \in tables' : KeyType[s] = "number" => s \in indexed'
    BY DEF TypeOK
  <2> QED BY <1>1, <2>1, <2>2, <2>3, ReturnsTyped DEF TypeOK
<1>3. HeapInDirectory' /\ RowsNeedIndex'
  BY <1>1 DEF HeapInDirectory, RowsNeedIndex
<1>4. LoadCoversFile'
  <2> SUFFICES ASSUME NEW s \in tables'
               PROVE  Len(heap'[s]) <= count'[s]
    BY DEF LoadCoversFile
  <2>1. /\ s \in tables /\ s \in Table /\ Len(heap[s]) <= count[s]
        /\ count[s] \in Nat /\ count'[s] = count[s]
    BY DEF LoadCoversFile, TypeOK
  <2> QED BY <1>1, <2>1
<1>5. RowsIndexed'
  BY <1>1 DEF RowsIndexed, TypeOK
<1> QED BY <1>2, <1>3, <1>4, <1>5

\* The process goes away: the disk stays, and there is no table to load.
LEMMA RestartKeeps == ASSUME IInv, Restart PROVE IInv'
<1> USE DEF IInv, Restart, disk
<1>1. TypeOK'
  BY ReturnsTyped DEF TypeOK
<1>2. HeapInDirectory' /\ RowsNeedIndex' /\ LoadCoversFile' /\ RowsIndexed'
  BY DEF HeapInDirectory, RowsNeedIndex, LoadCoversFile, RowsIndexed
<1> QED BY <1>1, <1>2

-----------------------------------------------------------------------------
LEMMA InvariantIsInductive == IInv /\ [Next]_vars => IInv'
<1> SUFFICES ASSUME IInv, [Next]_vars
             PROVE  IInv'
  OBVIOUS
<1>1. ASSUME NEW t \in Table, CreateTable(t) PROVE IInv'
  BY <1>1, CreateTableKeeps
<1>2. ASSUME NEW t \in Table, Load(t) PROVE IInv'
  BY <1>2, LoadKeeps
<1>3. ASSUME NEW t \in Table, CleanTable(t) PROVE IInv'
  BY <1>3, RemoveDirectoryKeeps DEF CleanTable, process
<1>4. ASSUME NEW t \in Table, DropTable(t) PROVE IInv'
  BY <1>4, RemoveDirectoryKeeps DEF DropTable
<1>5. ASSUME NEW t \in Table, NEW k \in Key, Insert(t, k, TRUE) \/ Insert(t, k, FALSE)
      PROVE  IInv'
  BY <1>5, InsertKeeps
<1>6. ASSUME NEW t \in Table, NEW k \in Key, Remove(t, k) PROVE IInv'
  BY <1>6, RemoveKeeps
<1>7. ASSUME NEW t \in Table, NEW k \in Key, Search(t, k) PROVE IInv'
  BY <1>7, SearchKeeps
<1>8. ASSUME NEW t \in Table, NEW begin \in Key, NEW end \in Key,
             RangeSearch(t, begin, end)
      PROVE  IInv'
  BY <1>8, RangeSearchKeeps
<1>9. ASSUME NEW t \in Table, FullRangeSearch(t) PROVE IInv'
  BY <1>9, FullRangeSearchKeeps
<1>10. ASSUME Restart PROVE IInv'
  BY <1>10, RestartKeeps
<1>11. CASE UNCHANGED vars
  BY <1>11 DEF vars, IInv, TypeOK, HeapInDirectory, RowsNeedIndex, LoadCoversFile, RowsIndexed
<1> QED BY <1>1, <1>2, <1>3, <1>4, <1>5, <1>6, <1>7, <1>8, <1>9, <1>10, <1>11 DEF Next

\* Every reachable state of the engine satisfies the inductive invariant.
THEOREM EngineInvariant == Spec => []IInv
<1>1. Init => IInv
  BY DEF Init, IInv, TypeOK, HeapInDirectory, RowsNeedIndex, LoadCoversFile, RowsIndexed, NoEntry
<1> QED BY <1>1, InvariantIsInductive, PTL DEF Spec

\* The state of the engine is well formed: among others, a stream that is open
\* belongs to a table that is there, and every table whose key can have an index has
\* an index object.
THEOREM EngineTypeOK == Spec => []TypeOK
<1>1. IInv => TypeOK
  BY DEF IInv
<1> QED BY <1>1, EngineInvariant, PTL

\* HeapFile::load, which reads record_count records, never stops short of the
\* end of the data file.
THEOREM EngineLoadCoversFile == Spec => []LoadCoversFile
<1>1. IInv => LoadCoversFile
  BY DEF IInv
<1> QED BY <1>1, EngineInvariant, PTL

\* The index entry of every key in a data file is the position of its record,
\* but for the keys a failed DBEngine::remove took out of the index.
THEOREM EngineRowsIndexed == Spec => []RowsIndexed
<1>1. IInv => RowsIndexed
  BY DEF IInv
<1> QED BY <1>1, EngineInvariant, PTL

-----------------------------------------------------------------------------
\* Appending keeps what was there.
LEMMA AppendGrows ==
  ASSUME NEW s \in Seq(Key), NEW k \in Key
  PROVE  \E n \in 0..Len(Append(s, k)) : s = SubSeq(Append(s, k), 1, n)
<1> DEFINE a == Append(s, k)
           n == Len(s)
<1>1. /\ a \in Seq(Key) /\ n \in Nat /\ Len(a) = n + 1
      /\ \A i \in 1..n : a[i] = s[i]
  OBVIOUS
<1>2. SubSeq(a, 1, n) \in Seq(Key) /\ Len(SubSeq(a, 1, n)) = n
  BY <1>1, SubSeqProperties
<1>3. \A i \in 1..n : SubSeq(a, 1, n)[i] = s[i]
  BY <1>1, SubSeqProperties
<1>4. s = SubSeq(a, 1, n)
  BY <1>1, <1>2, <1>3, SeqEqual
<1>5. n \in 0..Len(a)
  BY <1>1
<1>6. \E m \in 0..Len(a) : s = SubSeq(a, 1, m)
  <2> HIDE DEF a, n
  <2> QED BY <1>4, <1>5
<1> QED BY <1>6, Zenon

\* No step takes a record out of a data file or changes one, except remove,
\* clean_table and drop_table: add only appends, even when it fails half-way.
THEOREM EngineRowsSurvive == Spec => RowsSurvive
<1> DEFINE Gone(t) == CleanTable(t) \/ DropTable(t) \/ \E k \in Key : Remove(t, k)
<1>1. ASSUME IInv, NEW t \in Table, heap'[t] = heap[t]
      PROVE  Grows(t)
  <2>1. heap[t] \in Seq(Key)
    BY <1>1 DEF IInv, TypeOK
  <2>2. heap[t] = SubSeq(heap[t], 1, Len(heap[t])) /\ Len(heap[t]) \in 0..Len(heap[t])
    <3>1. Len(heap[t]) \in Nat
      BY <2>1
    <3>2. /\ SubSeq(heap[t], 1, Len(heap[t])) \in Seq(Key)
          /\ Len(SubSeq(heap[t], 1, Len(heap[t]))) = Len(heap[t])
          /\ \A i \in 1..Len(heap[t]) : SubSeq(heap[t], 1, Len(heap[t]))[i] = heap[t][i]
      BY <2>1, <3>1, SubSeqProperties
    <3> QED BY <2>1, <3>1, <3>2, SeqEqual
  <2> QED BY <1>1, <2>2 DEF Grows
<1>2. ASSUME IInv, Next, NEW s \in Table
      PROVE  Grows(s) \/ Gone(s)
  <2> USE <1>2
  <2> SUFFICES ASSUME ~ Gone(s), heap'[s] # heap[s]
               PROVE  Grows(s)
    BY <1>1
  <2>1. heap \in [Table -> Seq(Key)]
    BY DEF IInv, TypeOK
  <2>2. ASSUME NEW t \in Table, CreateTable(t) \/ Load(t) PROVE FALSE
    BY <2>2 DEF CreateTable, Load, Throws, disk
  <2>3. ASSUME NEW t \in Table, CleanTable(t) \/ DropTable(t) PROVE FALSE
    BY <2>1, <2>3 DEF CleanTable, DropTable, RemoveDirectory
  <2>4. ASSUME NEW t \in Table, NEW k \in Key, NEW valid \in BOOLEAN, Insert(t, k, valid)
        PROVE  Grows(s)
    <3>1. heap' = [heap EXCEPT ![t] = Append(@, k)]
      BY <2>4 DEF Insert, Appended, Throws, disk
    <3>2. heap'[s] = Append(heap[s], k)
      BY <2>1, <3>1
    <3>3. heap[s] \in Seq(Key)
      BY <2>1
    <3> QED BY <3>2, <3>3, AppendGrows DEF Grows
  <2>5. ASSUME NEW t \in Table, NEW k \in Key, Remove(t, k) PROVE FALSE
    BY <2>1, <2>5 DEF Remove, RemoveRow, RemoveFirst, Throws, disk
  <2>6. ASSUME NEW t \in Table, NEW k \in Key, Search(t, k) PROVE FALSE
    BY <2>6 DEF Search, FindsNothing, Throws, disk
  <2>7. ASSUME NEW t \in Table, NEW begin \in Key, NEW end \in Key,
               RangeSearch(t, begin, end)
        PROVE  FALSE
    BY <2>7 DEF RangeSearch, FindsNothing, Throws, disk
  <2>8. ASSUME NEW t \in Table, FullRangeSearch(t) PROVE FALSE
    BY <2>8 DEF FullRangeSearch, Throws, disk
  <2>9. ASSUME Restart PROVE FALSE
    BY <2>9 DEF Restart, disk
  <2> QED BY <2>2, <2>3, <2>4, <2>5, <2>6, <2>7, <2>8, <2>9 DEF Next
<1>3. IInv /\ [Next]_vars =>
        [\A t \in Table : Grows(t) \/ CleanTable(t) \/ DropTable(t)
                          \/ \E k \in Key : Remove(t, k)]_vars
  BY <1>2
<1> QED BY <1>3, EngineInvariant, PTL DEF Spec, RowsSurvive

\* The primary keys of different tables have different names.
OwnNames == \A s, t \in Table : Attr[s] = Attr[t] => s = t

\* Then search and range_search, which look for an index by the name of the
\* attribute, find every record of the data file whose key is in the index.
THEOREM EngineSearchFindsRows == OwnNames => (Spec => SearchFindsRows)
<1> SUFFICES ASSUME OwnNames PROVE Spec => SearchFindsRows
  OBVIOUS
<1> DEFINE Found(t, row) ==
      /\ Search(t, row) => row \in reply'.rows
      /\ \A begin, end \in Key :
           RangeSearch(t, begin, end) /\ row \in begin..end => row \in reply'.rows
<1>1. ASSUME IInv, NEW t \in tables \ open, NEW row \in Rows(t) \ orphans[t]
      PROVE  Found(t, row)
  <2>1. /\ t \in Table /\ heap[t] \in Seq(Key) /\ Len(heap[t]) \in Nat
        /\ t \notin open /\ t \in tables
        /\ indexed \subseteq Table /\ KeyType[t] = "number"
    <3>1. heap[t] # <<>>
      BY <1>1 DEF IInv, TypeOK, Rows
    <3> QED BY <1>1, <3>1 DEF IInv, TypeOK, RowsNeedIndex
  <2>2. PICK i \in 1..Len(heap[t]) : row = heap[t][i]
    BY <1>1 DEF Rows
  <2>3. row \in Key /\ index[t][row] = i - 1 /\ index[t][row] # NoEntry
    BY <1>1, <2>1, <2>2 DEF IInv, RowsIndexed, NoEntry
  <2>4. RowAt(t, index[t][row], FALSE) = row
    BY <2>1, <2>2, <2>3 DEF RowAt
  <2>5. \A s \in Matching(t) : s = t
    BY <2>1 DEF Matching, OwnNames
  <2>6. ASSUME Search(t, row) PROVE row \in reply'.rows
    <3>1. Responds({RowAt(t, index[t][row], t \in open)})
      BY <2>1, <2>3, <2>5, <2>6 DEF Search
    <3>2. (t \in open) = FALSE
      BY <2>1
    <3>3. RowAt(t, index[t][row], t \in open) = row
      BY <2>4, <3>2
    <3> QED BY <3>1, <3>3 DEF Responds
  <2>7. ASSUME NEW begin \in Key, NEW end \in Key,
               RangeSearch(t, begin, end), row \in begin..end
        PROVE  row \in reply'.rows
    <3> DEFINE found == {k \in Key : index[t][k] # NoEntry /\ begin <= k /\ k <= end}
               blank(k) == t \in open /\ \A j \in found : k <= j
    <3>1. Responds({RowAt(t, index[t][k], blank(k)) : k \in found})
      BY <2>1, <2>5, <2>7 DEF RangeSearch
    <3>2. row \in found
      <4>1. begin \in Int /\ end \in Int
        BY EngineAssumption
      <4> QED BY <2>3, <2>7, <4>1
    <3>3. blank(row) = FALSE
      BY <2>1
    <3>4. RowAt(t, index[t][row], blank(row)) = row
      BY <2>4, <3>3
    <3> HIDE DEF found, blank
    <3> QED BY <3>1, <3>2, <3>4 DEF Responds
  <2> QED BY <2>6, <2>7
<1>2. IInv => [\A t \in tables \ open : \A row \in Rows(t) \ orphans[t] : Found(t, row)]_vars
  BY <1>1
<1> QED BY <1>2, EngineInvariant, PTL DEF SearchFindsRows
=============================================================================
