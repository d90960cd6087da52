---------------------------- MODULE EngineCalls -----------------------------
(***************************************************************************)
(* DBEngine::add and DBEngine::search on one table, step by step, called   *)
(* by the threads of the server.  Api::run starts a multithreaded server   *)
(* whose handler uses one static engine, without a lock: the threads share *)
(* the index files, the data file, and the HeapFile with its one           *)
(* m_file_stream and its record_count.                                     *)
(*                                                                         *)
(* A call on the shared stream is one step here.  SequentialIndex::add     *)
(* reads the header and the chain, and writes the pointers it read later;  *)
(* a rebuild, if one is due, reads the files and writes them again.  When  *)
(* another call wrote the files in between, what is written is stale, and  *)
(* any of the entries ever written may be found afterwards, or none.       *)
(* Calls that overlap on one object are a data race and may do worse than  *)
(* that; what is wrong here is wrong at best.                              *)
(***************************************************************************)
EXTENDS Integers, FiniteSets, Sequences

CONSTANTS
  Thread,    \* threads of the server
  Key,       \* primary keys, integers
  Blank,     \* a Record without fields: what a failed read leaves
  MaxCalls   \* bound: calls made in all

ASSUME CallsAssumption == Key \subseteq Int /\ Blank \notin Key /\ MaxCalls \in Nat

VARIABLES
  serial,    \* whether the requests come one at a time, chosen once
  heap,      \* data.bin: the keys of its records
  index,     \* the index files: the position of each key, as a search finds it
  entries,   \* history: the keys and positions written to the index files
  raced,     \* history: a write of the index files was stale
  count,     \* record_count
  stream,    \* m_file_stream: mode, fail bit, get position, unflushed records
  leaked,    \* history: an add threw between open and close, no close since
  call,      \* of each thread: where it is in its call, and its variables
  calls,     \* number of calls made
  reply      \* what the last call to return answered

indexFiles == <<index, entries, raced>>
vars == <<serial, heap, indexFiles, count, stream, leaked, call, calls, reply>>

NoEntry == -2

Idle == [pc |-> "idle", key |-> 0, valid |-> TRUE, pos |-> 0, stale |-> FALSE, seen |-> 0,
         row |-> Blank]
Adding  == {"next_pos", "look", "enter", "rebuild", "open", "write", "close", "count", "store"}
Reading == {"find", "open_in", "seek", "read", "close_in"}

TypeOK == /\ serial \in BOOLEAN /\ leaked \in BOOLEAN
          /\ heap \in Seq(Key)
          /\ index \in [Key -> Nat \union {NoEntry}]
          /\ entries \subseteq Key \X Nat /\ raced \in BOOLEAN
          /\ count \in Nat /\ calls \in 0..MaxCalls
          /\ stream \in [mode : {"closed", "in", "app"}, failed : BOOLEAN,
                         at : Nat, buffer : Seq(Key)]
          /\ call \in [Thread -> [pc : Adding \union Reading \union {"idle"},
                                  key : Int, valid : BOOLEAN, pos : Nat,
                                  stale : BOOLEAN, seen : Nat, row : Key \union {Blank}]]
          /\ reply \in [outcome : {"none", "true", "throws", "response"},
                        rows : SUBSET (Key \union {Blank})]

\* The table has just been created.
Init == /\ serial \in BOOLEAN
        /\ heap = <<>> /\ count = 0 /\ calls = 0 /\ leaked = FALSE
        /\ index = [k \in Key |-> NoEntry] /\ entries = {} /\ raced = FALSE
        /\ stream = [mode |-> "closed", failed |-> FALSE, at |-> 0, buffer |-> <<>>]
        /\ call = [c \in Thread |-> Idle]
        /\ reply = [outcome |-> "none", rows |-> {}]

-----------------------------------------------------------------------------
(* The stream: open fails when it is open already, write and read do nothing *)
(* when the fail bit is set or the mode is another one.                       *)

\* Mutant: a stream that is open is opened again.
OpenedAgain(mode) == [mode |-> mode, failed |-> FALSE, at |-> 0, buffer |-> <<>>]

Opened(mode) == IF stream.mode = "closed"
                THEN [mode |-> mode, failed |-> FALSE, at |-> 0, buffer |-> <<>>]
                ELSE [stream EXCEPT !.failed = TRUE]

Usable(mode) == stream.mode = mode /\ ~ stream.failed

Written(k) == IF Usable("app") THEN [stream EXCEPT !.buffer = Append(@, k)]
                               ELSE [stream EXCEPT !.failed = TRUE]

\* Mutant: a stream in error is not closed.
ClosedIfGood == IF stream.failed THEN stream
                ELSE [stream EXCEPT !.mode = "closed", !.buffer = <<>>]

\* close flushes what was written; without an open file it sets the fail bit.
Closed == IF stream.mode = "closed" THEN [stream EXCEPT !.failed = TRUE]
          ELSE [stream EXCEPT !.mode = "closed", !.buffer = <<>>]

-----------------------------------------------------------------------------
At(c, pc) == call[c].pc = pc
Go(c, pc) == call' = [call EXCEPT ![c].pc = pc] /\ UNCHANGED reply
Return(c, outcome, rows) == /\ call' = [call EXCEPT ![c] = Idle]
                            /\ reply' = [outcome |-> outcome, rows |-> rows]

\* A request arrives: an add whose fields can all be converted, or not, or a
\* search.
Begin(c) ==
  /\ At(c, "idle") /\ calls < MaxCalls
  /\ serial => \A d \in Thread : At(d, "idle")
  /\ \E k \in Key, valid \in BOOLEAN, pc \in {"next_pos", "find"} :
       /\ pc = "find" => valid
       /\ call' = [call EXCEPT ![c] = [Idle EXCEPT !.pc = pc, !.key = k, !.valid = valid]]
  /\ calls' = calls + 1
  /\ UNCHANGED <<serial, heap, indexFiles, count, stream, leaked, reply>>

-----------------------------------------------------------------------------
(* add.                                                                     *)

\* Mutants: the position is the record count; the position is that of a stream
\* that could not be opened.
CountedLength == count
NoLength == -1

\* HeapFile::next_pos looks at the file with a stream of its own.
FileLength == Len(heap)

NextPos(c) == /\ At(c, "next_pos")
              /\ call' = [call EXCEPT ![c].pc = "look", ![c].pos = FileLength]
              /\ UNCHANGED <<serial, heap, indexFiles, count, stream, leaked, calls, reply>>

\* SequentialIndex::add searches the files for the key.
Look(c) == /\ At(c, "look")
           /\ IF index[call[c].key] # NoEntry THEN Return(c, "throws", {}) ELSE Go(c, "enter")
           /\ UNCHANGED <<serial, heap, indexFiles, count, stream, leaked, calls>>

\* Mutant: the index is not written.
NotEntered(c) == index

\* The pointers that it writes then are the ones that it read.
Entered(c) == [index EXCEPT ![call[c].key] = call[c].pos]

\* What a search may find when the files have been written from stale reads.
Scrambled == {found \in [Key -> {e[2] : e \in entries'} \union {NoEntry}] :
                \A k \in Key : found[k] # NoEntry => <<k, found[k]>> \in entries'}

\* c writes the files and goes on to pc.  If nobody else wrote them since c read
\* them, they become the index `exact'.
WriteIndex(c, exact, pc) ==
  /\ raced' = (raced \/ call[c].stale)
  /\ IF raced' THEN index' \in Scrambled ELSE index' = exact
  /\ call' = [d \in Thread |->
       IF d = c THEN [call[c] EXCEPT !.pc = pc, !.stale = FALSE]
       ELSE [call[d] EXCEPT !.stale = @ \/ call[d].pc \in {"enter", "rebuild"}]]

\* A rebuild starts when the auxiliary file has become too long.
Enter(c) == /\ At(c, "enter")
            /\ entries' = entries \union {<<call[c].key, call[c].pos>>}
            /\ \E pc \in {"rebuild", "open"} : WriteIndex(c, Entered(c), pc)
            /\ UNCHANGED <<serial, heap, count, stream, leaked, calls, reply>>

\* It keeps the records that it read.
Rebuild(c) == /\ At(c, "rebuild")
              /\ UNCHANGED entries
              /\ WriteIndex(c, index, "open")
              /\ UNCHANGED <<serial, heap, count, stream, leaked, calls, reply>>

\* HeapFile::add.
OpenApp(c) == /\ At(c, "open")
              /\ stream' = Opened("app")
              /\ Go(c, "write")
              /\ UNCHANGED <<serial, heap, indexFiles, count, leaked, calls>>

\* Record::write converts the fields first, and throws when it cannot.
Write(c) == /\ At(c, "write")
            /\ IF call[c].valid
               THEN stream' = Written(call[c].key) /\ Go(c, "close") /\ UNCHANGED leaked
               ELSE leaked' = TRUE /\ Return(c, "throws", {}) /\ UNCHANGED stream
            /\ UNCHANGED <<serial, heap, indexFiles, count, calls>>

CloseApp(c) == /\ At(c, "close")
               /\ stream' = Closed
               /\ heap' = heap \o stream.buffer
               /\ leaked' = FALSE
               /\ Go(c, "count")
               /\ UNCHANGED <<serial, indexFiles, count, calls>>

\* record_count++ is a load and a store.
LoadCount(c) == /\ At(c, "count")
                /\ call' = [call EXCEPT ![c].pc = "store", ![c].seen = count]
                /\ UNCHANGED <<serial, heap, indexFiles, count, stream, leaked, calls, reply>>

StoreCount(c) == /\ At(c, "store")
                 /\ count' = call[c].seen + 1
                 /\ Return(c, "true", {})
                 /\ UNCHANGED <<serial, heap, indexFiles, stream, leaked, calls>>

-----------------------------------------------------------------------------
(* search, of a key and with a single index.                                 *)

Find(c) == /\ At(c, "find")
           /\ IF index[call[c].key] = NoEntry THEN Return(c, "response", {})
              ELSE /\ call' = [call EXCEPT ![c].pc = "open_in", ![c].pos = index[call[c].key]]
                   /\ UNCHANGED reply
           /\ UNCHANGED <<serial, heap, indexFiles, count, stream, leaked, calls>>

\* HeapFile::read.
OpenIn(c) == /\ At(c, "open_in")
             /\ stream' = Opened("in")
             /\ Go(c, "seek")
             /\ UNCHANGED <<serial, heap, indexFiles, count, leaked, calls>>

Seek(c) == /\ At(c, "seek")
           /\ stream' = IF stream.failed THEN stream
                        ELSE IF stream.mode = "closed" THEN [stream EXCEPT !.failed = TRUE]
                        ELSE [stream EXCEPT !.at = call[c].pos]
           /\ Go(c, "read")
           /\ UNCHANGED <<serial, heap, indexFiles, count, leaked, calls>>

Read(c) ==
  LET got == Usable("in") /\ stream.at < Len(heap)
  IN  /\ At(c, "read")
      /\ stream' = IF got THEN [stream EXCEPT !.at = @ + 1] ELSE [stream EXCEPT !.failed = TRUE]
      /\ call' = [call EXCEPT ![c].pc = "close_in",
                              ![c].row = IF got THEN heap[stream.at + 1] ELSE Blank]
      /\ UNCHANGED <<serial, heap, indexFiles, count, leaked, calls, reply>>

CloseIn(c) == /\ At(c, "close_in")
              /\ stream' = Closed
              /\ heap' = heap \o stream.buffer
              /\ leaked' = FALSE
              /\ Return(c, "response", {call[c].row})
              /\ UNCHANGED <<serial, indexFiles, count, calls>>

Next == \E c \in Thread :
          \/ Begin(c)
          \/ NextPos(c) \/ Look(c) \/ Enter(c) \/ Rebuild(c)
          \/ OpenApp(c) \/ Write(c) \/ CloseApp(c) \/ LoadCount(c) \/ StoreCount(c)
          \/ Find(c) \/ OpenIn(c) \/ Seek(c) \/ Read(c) \/ CloseIn(c)

Spec == Init /\ [][Next]_vars

-----------------------------------------------------------------------------
(* What holds whatever the threads do.                                       *)

InFile == {heap[i] : i \in 1..Len(heap)} \union {stream.buffer[i] : i \in 1..Len(stream.buffer)}

\* As long as no two adds overlapped in the index files, a record that is stored
\* is in the index, even if another thread flushed it: the index is written
\* before the data file.
StoredKeysIndexed == ~ raced => \A k \in InFile : index[k] # NoEntry

\* No entry of the index is for a place beyond the end of the data file, however
\* the adds overlapped, so a record that got lost leaves its entry to the next
\* record that is stored.
EntriesWithinFile == \A k \in Key : index[k] # NoEntry => index[k] <= Len(heap)

\* Threads open and close one stream for each other.  When none is in a call
\* it is closed, unless an add threw since it was closed last.
IdleStreamClosed ==
  (\A c \in Thread : At(c, "idle")) /\ stream.mode # "closed" => leaked

-----------------------------------------------------------------------------
(* One at a time, the calls implement the operations of Engine.  An add takes *)
(* effect when the index is written, or when it finds the key; a search when  *)
(* it has read the record.  Until the call returns, the state of Engine is    *)
(* the one the remaining steps lead to.                                        *)

InProgress(pcs) == {c \in Thread : call[c].pc \in pcs}
Pending(pcs) == {c \in InProgress(pcs) : call[c].valid}
Sole(s) == CHOOSE c \in s : TRUE

Effective == {"rebuild", "open", "write", "close", "count", "store"}

HeapAfter ==
  LET willWrite == {c \in Pending({"rebuild", "open"}) : stream.mode = "closed"}
                     \union {c \in Pending({"write"}) : ~ stream.failed}
  IN  IF willWrite # {} THEN Append(heap, call[Sole(willWrite)].key)
      ELSE heap \o stream.buffer

OpenAfter ==
  IF InProgress(Effective) # {} THEN Pending(Effective) = {}
  ELSE IF InProgress({"seek", "read"}) # {} THEN stream.failed
  ELSE IF InProgress({"close_in"}) # {} THEN FALSE
  ELSE stream.mode # "closed"

ReplyAfter ==
  IF Pending(Effective) # {} THEN [outcome |-> "true", rows |-> {}]
  ELSE IF InProgress(Effective) # {} THEN [outcome |-> "throws", rows |-> {}]
  ELSE IF InProgress({"close_in"}) # {}
       THEN [outcome |-> "response", rows |-> {call[Sole(InProgress({"close_in"}))].row}]
  ELSE reply

\* Engine with the one table.
T == "t"
OfT(x) == [t \in {T} |-> x]
One == INSTANCE Engine WITH
  Table <- {T}, Attr <- OfT("id"), KeyType <- OfT("number"), MaxCount <- MaxCalls,
  dirs <- {T}, tables <- {T}, indexed <- {T}, orphans <- OfT({}),
  heap <- OfT(HeapAfter), index <- OfT(index),
  count <- OfT(count + Cardinality(Pending(Effective))),
  open <- {t \in {T} : OpenAfter}, reply <- ReplyAfter

OperationOrStutter == One!Next \/ UNCHANGED One!vars

\* Every step of requests that come one at a time is an operation of Engine or
\* no step of it.
SerialImplementsEngine == [][serial => OperationOrStutter]_vars
=============================================================================
