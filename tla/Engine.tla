------------------------------- MODULE Engine -------------------------------
(***************************************************************************)
(* DBEngine with its HeapFiles and primary-key indexes, one action per     *)
(* operation.  The operations run one after the other here (EngineCalls    *)
(* interleaves their steps).                                               *)
(*                                                                         *)
(* Two kinds of state: what is on disk (the directory and the data file of *)
(* a table, its index files) and what is in the process (the HeapFile and  *)
(* index objects).  A record is the key it carries; the other fields only  *)
(* matter by whether they can be converted.  Positions count records from  *)
(* 0, and all tables have records of the same size.  The index of a table  *)
(* is the map that KeyIndex promises.                                      *)
(***************************************************************************)
EXTENDS Integers, Sequences

CONSTANTS
  Table,     \* names of tables
  Key,       \* primary keys, integers
  Attr,      \* name of the primary key of each table
  KeyType,   \* its type: "number" for INT and FLOAT, "BOOL", "unknown" for a name
             \* that is not an attribute of the table
  Blank,     \* a Record without fields: what a failed read leaves
  MaxCount   \* bound: record_count of a table

ASSUME EngineAssumption == /\ Key \subseteq Int /\ Blank \notin Key
                           /\ DOMAIN Attr = Table
                           /\ KeyType \in [Table -> {"number", "BOOL", "unknown"}]
                           /\ MaxCount \in Nat

VARIABLES
  dirs,      \* disk: tables with a directory
  heap,      \* disk: the records of data.bin, none without a directory
  index,     \* disk: the index files, the position of each key
  tables,    \* process: the keys of m_tables_raw
  count,     \* process: record_count of the HeapFile, 0 without an object
  open,      \* process: tables whose m_file_stream a failed call left open
  indexed,   \* process: tables with an object in m_sequential_indexes
  orphans,   \* history: keys whose record stayed in data.bin when remove took
             \* their index entry
  reply      \* outcome of the last call and the records it returned

disk == <<dirs, heap, index, orphans>>
process == <<tables, count, open, indexed>>
vars == <<dirs, heap, index, tables, count, open, indexed, orphans, reply>>

NoEntry == -2   \* no index entry for a key
NoFile  == -1   \* tellg of a stream that could not be opened

TypeOK == /\ dirs \in SUBSET Table /\ tables \in SUBSET Table
          /\ heap \in [Table -> Seq(Key)]
          /\ index \in [Table -> [Key -> Int]]
          /\ count \in [Table -> Nat]
          /\ open \in SUBSET tables
          /\ indexed \in SUBSET Table
          /\ \A t \in tables : KeyType[t] = "number" => t \in indexed
          /\ orphans \in [Table -> SUBSET Key]
          /\ reply.outcome \in {"none", "true", "false", "throws", "response"}
          /\ reply.rows \in SUBSET (Key \union {Blank})

Init == /\ dirs = {} /\ tables = {} /\ open = {} /\ indexed = {}
        /\ heap = [t \in Table |-> <<>>]
        /\ index = [t \in Table |-> [k \in Key |-> NoEntry]]
        /\ count = [t \in Table |-> 0]
        /\ orphans = [t \in Table |-> {}]
        /\ reply = [outcome |-> "none", rows |-> {}]

Returns(outcome) == reply' = [outcome |-> outcome, rows |-> {}]
Responds(rows) == reply' = [outcome |-> "response", rows |-> rows]

\* m_tables_raw.at throws, or a guard of the operation does.
Throws == Returns("throws") /\ UNCHANGED <<disk, process>>

-----------------------------------------------------------------------------
(* create_table.  A directory that exists is all it looks at.  Otherwise    *)
(* the objects are inserted unless there are some, and an index whose files *)
(* exist goes on with them.  A BOOL key only gets a message in the log, and *)
(* get_type throws for an unknown one: in both cases the directory and the  *)
(* HeapFile are there, and no index.                                        *)

CreateTable(t) ==
  IF t \in dirs THEN Returns("false") /\ UNCHANGED <<disk, process>>
  ELSE /\ dirs' = dirs \union {t}
       /\ tables' = tables \union {t}
       /\ indexed' = indexed \union {s \in {t} : KeyType[s] = "number"}
       /\ Returns(IF KeyType[t] = "unknown" THEN "throws" ELSE "true")
       /\ UNCHANGED <<heap, index, count, open, orphans>>

-----------------------------------------------------------------------------
(* add: first the index, then the heap file.                                *)

\* Mutants: the position is the record count; the record is not counted; the
\* data file is opened without ios::app.
NextPosByCount(t) == count[t]
NotCounted(t) == count
Truncated(t, k) == IF t \in dirs /\ t \notin open THEN [heap EXCEPT ![t] = <<k>>] ELSE heap

\* HeapFile::next_pos, on a stream of its own.
NextPos(t) == IF t \in dirs THEN Len(heap[t]) ELSE NoFile

\* m_file_stream can be opened: open fails on a stream that is open already.
Opens(t) == t \in dirs /\ t \notin open

\* HeapFile::add.  When the stream does not open, nothing is written, yet the
\* record is counted and the stream is closed.
Appended(t, k) == IF Opens(t) THEN [heap EXCEPT ![t] = Append(@, k)] ELSE heap
Counted(t) == [count EXCEPT ![t] = @ + 1]

\* Without a directory the stream is not open after a failed open.
LeftOpen(t) == open \union ({t} \intersect dirs)

\* Without an index nothing sets pk_inserted, and for an unknown key get_key throws.
Refused(t, k) == KeyType[t] # "number" \/ index[t][k] # NoEntry

\* `valid': every field of the record can be converted to its type.  If not,
\* Record::write throws between the opening and the closing of the stream.
Insert(t, k, valid) ==
  /\ count[t] < MaxCount
  /\ IF t \notin tables \/ Refused(t, k) THEN Throws
     ELSE /\ index' = [index EXCEPT ![t][k] = NextPos(t)]
          /\ IF valid
             THEN /\ heap' = Appended(t, k)
                  /\ count' = Counted(t)
                  /\ open' = open \ {t}
                  /\ Returns("true")
             ELSE /\ open' = LeftOpen(t)
                  /\ Returns("throws")
                  /\ UNCHANGED <<heap, count>>
          /\ UNCHANGED <<dirs, tables, indexed, orphans>>

-----------------------------------------------------------------------------
(* remove.  The index entry goes first.  HeapFile::remove opens its stream   *)
(* for writing only, which empties the file; reading the record fails and    *)
(* writing a record without fields throws, with the stream open.  A key that *)
(* is not in the index throws in IndexContainer::remove (records.at(0)); an  *)
(* entry made without a data file is the -1 that remove answers FALSE for.   *)

\* HeapFile::remove.
RemoveRow(t, k) == /\ IF Opens(t)
                      THEN /\ heap' = [heap EXCEPT ![t] = <<>>]
                           /\ orphans' = [orphans EXCEPT ![t] = {}]
                      ELSE /\ orphans' = [orphans EXCEPT ![t] = @ \union {k}]
                           /\ UNCHANGED heap
                   /\ open' = LeftOpen(t)
                   /\ Returns("throws")

\* Without an index raw_pos is the 0 it was initialized to.
RemoveFirst(t) == /\ heap' = IF Opens(t) THEN [heap EXCEPT ![t] = <<>>] ELSE heap
                  /\ open' = LeftOpen(t)
                  /\ Returns("throws")
                  /\ UNCHANGED <<dirs, tables, index, count, indexed, orphans>>

Remove(t, k) ==
  IF t \in tables /\ KeyType[t] # "number" THEN RemoveFirst(t)
  ELSE IF t \notin tables \/ index[t][k] = NoEntry THEN Throws
  ELSE /\ index' = [index EXCEPT ![t][k] = NoEntry]
       /\ IF index[t][k] = NoFile THEN Returns("false") /\ UNCHANGED <<heap, orphans, open>>
                                  ELSE RemoveRow(t, k)
       /\ UNCHANGED <<dirs, tables, count, indexed>>

-----------------------------------------------------------------------------
(* search, range_search, load.                                              *)

\* Mutant: the record before the position.
RowBefore(t, p, isOpen) ==
  IF isOpen \/ p \notin 1..Len(heap[t]) THEN Blank ELSE heap[t][p]

\* HeapFile::read.  It opens the stream, and closes it whatever happens.
RowAt(t, p, isOpen) ==
  IF isOpen \/ p \notin 0..(Len(heap[t]) - 1) THEN Blank ELSE heap[t][p + 1]

\* The loops over m_sequential_indexes compare attribute names only.  The map
\* is unordered: search takes the first match, range_search the last.
Matching(t) == {s \in indexed : Attr[s] = Attr[t]}

\* get_type throws for an unknown key, and with a BOOL nothing is called.
FindsNothing(t) == IF KeyType[t] = "unknown" THEN Throws
                   ELSE Responds({}) /\ UNCHANGED <<disk, process>>

Search(t, k) ==
  IF t \notin tables THEN Throws
  ELSE IF KeyType[t] # "number" THEN FindsNothing(t)
  ELSE /\ \E s \in Matching(t) :
            IF index[s][k] = NoEntry THEN Responds({}) /\ UNCHANGED open
            ELSE /\ Responds({RowAt(t, index[s][k], t \in open)})
                 /\ open' = open \ {t}
       /\ UNCHANGED <<disk, tables, count, indexed>>

\* The records are read one by one in key order, so only the first meets a
\* stream that was left open.
RangeSearch(t, begin, end) ==
  IF t \notin tables THEN Throws
  ELSE IF KeyType[t] # "number" THEN FindsNothing(t)
  ELSE /\ \E s \in Matching(t) :
            LET found == {k \in Key : index[s][k] # NoEntry /\ begin <= k /\ k <= end}
                first(k) == \A j \in found : k <= j
            IN  /\ Responds({RowAt(t, index[s][k], t \in open /\ first(k)) : k \in found})
                /\ open' = IF found = {} THEN open ELSE open \ {t}
       /\ UNCHANGED <<disk, tables, count, indexed>>

\* From MIN to MAX: the table is loaded, the records are thrown away, and then
\* both keys have the name "MAX", which no attribute has.
FullRangeSearch(t) ==
  IF t \notin tables THEN Throws
  ELSE /\ Returns("throws")
       /\ open' = open \ {t}
       /\ UNCHANGED <<disk, tables, count, indexed>>

\* HeapFile::load reads record_count records.
Load(t) ==
  IF t \notin tables THEN Throws
  ELSE /\ Responds({RowAt(t, p, t \in open) : p \in 0..(count[t] - 1)})
       /\ open' = open \ {t}
       /\ UNCHANGED <<disk, tables, count, indexed>>

-----------------------------------------------------------------------------
(* clean_table, drop_table, and the process ending and starting again.       *)

\* remove_all of the directory.
RemoveDirectory(t) == /\ dirs' = dirs \ {t}
                      /\ heap' = [heap EXCEPT ![t] = <<>>]
                      /\ orphans' = [orphans EXCEPT ![t] = {}]

CleanTable(t) == /\ RemoveDirectory(t)
                 /\ Returns("none")
                 /\ UNCHANGED <<process, index>>

\* Mutant: the stream of the table outlives its HeapFile.
DropKeepsStream(t) == /\ RemoveDirectory(t)
                      /\ tables' = tables \ {t}
                      /\ count' = [count EXCEPT ![t] = 0]
                      /\ Returns("none")
                      /\ UNCHANGED <<index, indexed, open>>

\* The loops over the indexes erase from m_avl_indexes only.
DropTable(t) == /\ RemoveDirectory(t)
                /\ tables' = tables \ {t}
                /\ count' = [count EXCEPT ![t] = 0]
                /\ open' = open \ {t}
                /\ Returns("none")
                /\ UNCHANGED <<index, indexed>>

\* The constructor makes a HeapFile of each directory and drops it again; it
\* makes no index.
Restart == /\ tables' = {} /\ open' = {} /\ indexed' = {}
           /\ count' = [t \in Table |-> 0]
           /\ Returns("none")
           /\ UNCHANGED disk

Next == \/ \E t \in Table :
             \/ CreateTable(t) \/ Load(t) \/ CleanTable(t) \/ DropTable(t)
             \/ \E k \in Key : Insert(t, k, TRUE) \/ Insert(t, k, FALSE)
             \/ \E k \in Key : Remove(t, k) \/ Search(t, k)
             \/ \E begin, end \in Key : RangeSearch(t, begin, end)
             \/ FullRangeSearch(t)
        \/ Restart

Spec == Init /\ [][Next]_vars

-----------------------------------------------------------------------------
(* What makes the engine correct.                                            *)

Rows(t) == {heap[t][i] : i \in 1..Len(heap[t])}

\* load reads record_count records, and the count is kept apart from the file:
\* through failed writes, removed directories and restarts, no record of the
\* file is beyond it.
LoadCoversFile == \A t \in tables : Len(heap[t]) <= count[t]

\* The index files and the data file are written, emptied and deleted by
\* different calls, and some of them fail half-way.  Still the entry of each
\* key in the data file is the position of its record, except for the keys
\* that a failed remove took out of the index only.
RowsIndexed ==
  \A t \in Table : \A i \in 1..Len(heap[t]) :
    heap[t][i] \in orphans[t] \/ index[t][heap[t][i]] = i - 1

\* Only remove, clean_table and drop_table make a record go away.
Grows(t) == \E n \in 0..Len(heap'[t]) : heap[t] = SubSeq(heap'[t], 1, n)
RowsSurvive ==
  [][\A t \in Table : Grows(t) \/ CleanTable(t) \/ DropTable(t)
                      \/ \E k \in Key : Remove(t, k)]_vars

\* search and range_search find what is in the data file, unless a remove took
\* it out of the index or an earlier failure still keeps the stream open.
SearchFindsRows ==
  [][\A t \in tables \ open : \A row \in Rows(t) \ orphans[t] :
       /\ Search(t, row) => row \in reply'.rows
       /\ \A begin, end \in Key :
            RangeSearch(t, begin, end) /\ row \in begin..end => row \in reply'.rows]_vars

-----------------------------------------------------------------------------
(* What the documentation of the engine says, and the engine does not do.   *)

\* add returns "True if the value was added": it is in the data file.
AddedIsStored ==
  [][\A t \in tables \intersect dirs, k \in Key :
       Insert(t, k, TRUE) /\ reply'.outcome = "true" => k \in Rows(t)']_vars
=============================================================================
