-------------------------- MODULE EngineCallsProofs --------------------------
(***************************************************************************)
(* The invariants of EngineCalls, for any number of threads, keys and      *)
(* calls.                                                                  *)
(*                                                                         *)
(* None of them is inductive: what makes them so is what a call knows in   *)
(* the middle, while the other threads go on.  The position that it asked  *)
(* for stays within the file, and so do those in the index files, whatever *)
(* was made of them; as long as no write of them was stale, the entry that *)
(* the call wrote stays; and a stream that is open has somebody on the way *)
(* to closing it.                                                          *)
(***************************************************************************)
EXTENDS EngineCalls, SequenceTheorems, TLAPS

\* Time for each prover, for slower machines than the one the proofs were written on.
USE SMTT(60), ZenonT(60)
USE DEF indexFiles

InCallHasKey == \A c \in Thread : call[c].pc # "idle" => call[c].key \in Key
PositionAsked == \A c \in Thread : call[c].pc \in {"look", "enter"} => call[c].pos <= Len(heap)
WrittenWithin == \A e \in entries : e[2] <= Len(heap)
FoundWritten == \A k \in Key : index[k] # NoEntry => <<k, index[k]>> \in entries
EntryWritten == ~ raced => \A c \in Thread :
                  call[c].pc \in {"rebuild", "open", "write"} => index[call[c].key] # NoEntry
Closing == {"write", "close", "seek", "read", "close_in"}
SomebodyCloses == stream.mode # "closed" => leaked \/ \E c \in Thread : call[c].pc \in Closing

IInv == /\ TypeOK /\ InCallHasKey /\ PositionAsked /\ WrittenWithin /\ FoundWritten
        /\ EntryWritten /\ SomebodyCloses /\ StoredKeysIndexed

CallState == [pc : Adding \union Reading \union {"idle"}, key : Int, valid : BOOLEAN,
              pos : Nat, stale : BOOLEAN, seen : Nat, row : Key \union {Blank}]

StreamState == [mode : {"closed", "in", "app"}, failed : BOOLEAN, at : Nat, buffer : Seq(Key)]
ReplyState == [outcome : {"none", "true", "throws", "response"}, rows : SUBSET (Key \union {Blank})]

-----------------------------------------------------------------------------
\* A step that changes one call, and neither the index nor the data file nor
\* the stream, keeps the invariant if the call itself is as it should be.
LEMMA CallStepKeeps ==
  ASSUME IInv, NEW c \in Thread, NEW new \in CallState,
         call' = [call EXCEPT ![c] = new],
         UNCHANGED <<serial, heap, indexFiles, stream>>, leaked' \in BOOLEAN,
         leaked => leaked', count' \in Nat, calls' \in 0..MaxCalls,
         reply' \in ReplyState,
         new.pc # "idle" => new.key \in Key,
         new.pc \in {"look", "enter"} => new.pos <= Len(heap),
         ~ raced /\ new.pc \in {"rebuild", "open", "write"} => index[new.key] # NoEntry,
         call[c].pc \in Closing => leaked' \/ new.pc \in Closing
  PROVE  IInv'
<1> USE DEF IInv
<1>1. /\ call \in [Thread -> CallState]
      /\ call' \in [Thread -> CallState]
      /\ call'[c] = new
      /\ \A d \in Thread \ {c} : call'[d] = call[d]
  BY DEF TypeOK, CallState
<1>2. TypeOK'
  BY <1>1 DEF TypeOK, CallState, ReplyState
<1>3. InCallHasKey'
  BY <1>1 DEF InCallHasKey
<1>4. PositionAsked'
  BY <1>1 DEF PositionAsked
<1>5. EntryWritten'
  BY <1>1 DEF EntryWritten
<1>6. SomebodyCloses'
  BY <1>1 DEF SomebodyCloses
<1>7. StoredKeysIndexed'
  BY DEF StoredKeysIndexed, InFile
<1>8. WrittenWithin' /\ FoundWritten'
  BY DEF WrittenWithin, FoundWritten
<1> QED BY <1>2, <1>3, <1>4, <1>5, <1>6, <1>7, <1>8

\* The same, for a step that changes nothing but the call and maybe the reply.
LEMMA OnlyCallStepKeeps ==
  ASSUME IInv, NEW c \in Thread, NEW new \in CallState,
         call' = [call EXCEPT ![c] = new],
         UNCHANGED <<serial, heap, indexFiles, count, stream, leaked, calls>>,
         \/ UNCHANGED reply
         \/ reply' \in ReplyState,
         new.pc # "idle" => new.key \in Key,
         new.pc \in {"look", "enter"} => new.pos <= Len(heap),
         ~ raced /\ new.pc \in {"rebuild", "open", "write"} => index[new.key] # NoEntry,
         call[c].pc \notin Closing
  PROVE  IInv'
<1>1. /\ leaked' \in BOOLEAN /\ count' \in Nat /\ calls' \in 0..MaxCalls
      /\ reply' \in ReplyState
  BY DEF IInv, TypeOK, ReplyState
<1>2. UNCHANGED <<serial, heap, indexFiles, stream>> /\ (leaked => leaked')
  OBVIOUS
<1> QED BY <1>1, <1>2, CallStepKeeps

LEMMA BeginKeeps ==
  ASSUME IInv, NEW c \in Thread, Begin(c)
  PROVE  IInv'
<1>1. PICK k \in Key, valid \in BOOLEAN, pc \in {"next_pos", "find"} :
        call' = [call EXCEPT ![c] = [Idle EXCEPT !.pc = pc, !.key = k, !.valid = valid]]
  BY DEF Begin
<1> DEFINE new == [Idle EXCEPT !.pc = pc, !.key = k, !.valid = valid]
<1>2. new \in CallState /\ new.key = k /\ new.pc = pc
  BY CallsAssumption DEF CallState, Idle, Adding, Reading
<1>3. calls' \in 0..MaxCalls
  BY CallsAssumption DEF Begin, IInv, TypeOK
<1> QED BY <1>1, <1>2, <1>3, CallStepKeeps DEF Begin, IInv, TypeOK, ReplyState, Closing, At

LEMMA NextPosKeeps ==
  ASSUME IInv, NEW c \in Thread, NextPos(c)
  PROVE  IInv'
<1> DEFINE new == [call[c] EXCEPT !.pc = "look", !.pos = Len(heap)]
<1>1. call[c] \in CallState /\ Len(heap) \in Nat
  BY DEF IInv, TypeOK, CallState
<1>2. new \in CallState /\ new.key = call[c].key /\ new.pc = "look" /\ new.pos = Len(heap)
  BY <1>1 DEF CallState, Adding
<1>3. call' = [call EXCEPT ![c] = new]
  BY DEF NextPos, FileLength
<1>4. new.key \in Key
  BY <1>2 DEF IInv, InCallHasKey, NextPos, At
<1> HIDE DEF new
<1>5. new.pos <= Len(heap) /\ call[c].pc \notin Closing
  BY <1>1, <1>2 DEF NextPos, At, Closing
<1> QED BY <1>2, <1>3, <1>4, <1>5, OnlyCallStepKeeps DEF NextPos
LEMMA LookKeeps ==
  ASSUME IInv, NEW c \in Thread, Look(c)
  PROVE  IInv'
<1>1. call[c] \in CallState /\ call[c].pc = "look"
  BY DEF IInv, TypeOK, CallState, Look, At
<1>2. CASE index[call[c].key] # NoEntry
  <2>1. Idle \in CallState /\ Idle.pc = "idle"
    BY DEF Idle, CallState
  <2>2. call' = [call EXCEPT ![c] = Idle] /\ reply' \in ReplyState
    BY <1>2 DEF Look, Return, ReplyState
  <2> QED BY <1>1, <2>1, <2>2, OnlyCallStepKeeps DEF Look, Closing
<1>3. CASE index[call[c].key] = NoEntry
  <2> DEFINE new == [call[c] EXCEPT !.pc = "enter"]
  <2>1. new \in CallState /\ new.pc = "enter" /\ new.pos = call[c].pos /\ new.key = call[c].key
    BY <1>1 DEF CallState, Adding
  <2>2. call' = [call EXCEPT ![c] = new] /\ UNCHANGED reply
    BY <1>3 DEF Look, Go
  <2>3. new.key \in Key /\ new.pos <= Len(heap)
    BY <1>1, <2>1 DEF IInv, InCallHasKey, PositionAsked
  <2> HIDE DEF new
  <2> QED BY <1>1, <2>1, <2>2, <2>3, OnlyCallStepKeeps DEF Look, Closing
<1> QED BY <1>2, <1>3

\* A write of the index files keeps the invariant.  If nothing was written that was
\* stale, they have what they had, and the entry of the call.
LEMMA IndexStepKeeps ==
  ASSUME IInv, NEW c \in Thread, NEW pc \in {"rebuild", "open"},
         NEW exact \in [Key -> Nat \union {NoEntry}],
         call[c].pc \in {"enter", "rebuild"},
         WriteIndex(c, exact, pc),
         UNCHANGED <<serial, heap, count, stream, leaked, calls, reply>>,
         entries' \subseteq Key \X Nat, WrittenWithin',
         \A k \in Key : exact[k] # NoEntry => <<k, exact[k]>> \in entries',
         \A k \in Key : index[k] # NoEntry => exact[k] # NoEntry,
         ~ raced => exact[call[c].key] # NoEntry
  PROVE  IInv'
<1> USE DEF IInv
<1>1. /\ call \in [Thread -> CallState] /\ raced' \in BOOLEAN
      /\ call[c].key \in Key /\ call[c].pc \notin Closing
      /\ InFile' = InFile /\ InFile \subseteq Key
  <2>1. call[c].pc # "idle"
    OBVIOUS
  <2> QED BY <2>1 DEF TypeOK, CallState, WriteIndex, InCallHasKey, Closing, InFile
<1>2. /\ raced => raced'
      /\ ~ raced' => index' = exact
      /\ raced' => index' \in Scrambled
  BY DEF WriteIndex
<1>3. index' \in [Key -> Nat \union {NoEntry}] /\ FoundWritten'
  <2>1. CASE raced'
    <3>1. \A e \in entries' : e[2] \in Nat
      OBVIOUS
    <3> QED BY <1>2, <2>1, <3>1 DEF Scrambled, FoundWritten
  <2>2. CASE ~ raced'
    BY <1>2, <2>2 DEF FoundWritten
  <2> QED BY <2>1, <2>2
<1>4. /\ call' \in [Thread -> CallState]
      /\ \A d \in Thread : /\ call'[d].pc = IF d = c THEN pc ELSE call[d].pc
                           /\ call'[d].key = call[d].key /\ call'[d].pos = call[d].pos
  <2> DEFINE new(d) == IF d = c THEN [call[c] EXCEPT !.pc = pc, !.stale = FALSE]
                       ELSE [call[d] EXCEPT !.stale =
                               call[d].stale \/ call[d].pc \in {"enter", "rebuild"}]
  <2>1. call' = [d \in Thread |-> new(d)]
    BY DEF WriteIndex
  <2>2. ASSUME NEW d \in Thread
        PROVE  /\ new(d) \in CallState
               /\ new(d).pc = IF d = c THEN pc ELSE call[d].pc
               /\ new(d).key = call[d].key /\ new(d).pos = call[d].pos
    <3>1. call[d] \in CallState
      BY <1>1
    <3> DEFINE old == call[d]
               touched == old.stale \/ old.pc \in {"enter", "rebuild"}
    <3>2. touched \in BOOLEAN
      OBVIOUS
    <3> HIDE DEF touched
    <3>3. CASE d = c
      BY <3>1, <3>3 DEF CallState, Adding
    <3>4. CASE d # c
      <4>1. new(d) = [old EXCEPT !.stale = touched]
        BY <3>4 DEF touched
      <4> HIDE DEF new
      <4> QED BY <3>1, <3>2, <3>4, <4>1 DEF CallState
    <3> QED BY <3>3, <3>4
  <2> HIDE DEF new
  <2> QED BY <2>1, <2>2
<1>5. TypeOK'
  BY <1>1, <1>3, <1>4 DEF TypeOK, CallState
<1>6. InCallHasKey'
  BY <1>1, <1>4 DEF InCallHasKey
<1>7. PositionAsked'
  BY <1>4 DEF PositionAsked
<1>8. EntryWritten'
  <2> SUFFICES ASSUME ~ raced', NEW d \in Thread, call'[d].pc \in {"rebuild", "open", "write"}
               PROVE  index'[call'[d].key] # NoEntry
    BY DEF EntryWritten
  <2>1. ~ raced /\ index' = exact /\ call'[d].key = call[d].key
    BY <1>2, <1>4
  <2>2. CASE d = c
    BY <2>1, <2>2
  <2>3. CASE d # c
    <3>1. index[call[d].key] # NoEntry /\ call[d].key \in Key
      BY <1>4, <2>1, <2>3 DEF EntryWritten, InCallHasKey
    <3> QED BY <2>1, <3>1
  <2> QED BY <2>2, <2>3
<1>9. SomebodyCloses'
  BY <1>1, <1>4 DEF SomebodyCloses, Closing
<1>10. StoredKeysIndexed'
  BY <1>1, <1>2 DEF StoredKeysIndexed
<1> QED BY <1>3, <1>5, <1>6, <1>7, <1>8, <1>9, <1>10

\* enter: the position that was asked for is within the file still.
LEMMA EnterKeeps ==
  ASSUME IInv, NEW c \in Thread, Enter(c)
  PROVE  IInv'
<1> DEFINE key == call[c].key
           pos == call[c].pos
           exact == Entered(c)
<1>1. /\ call[c].pc = "enter" /\ key \in Key /\ pos <= Len(heap) /\ pos \in Nat
      /\ index \in [Key -> Nat \union {NoEntry}] /\ pos # NoEntry
      /\ entries' = entries \union {<<key, pos>>}
      /\ UNCHANGED <<serial, heap, count, stream, leaked, calls, reply>>
  BY DEF IInv, TypeOK, Enter, At, InCallHasKey, PositionAsked, NoEntry
<1>2. PICK pc \in {"rebuild", "open"} : WriteIndex(c, exact, pc)
  BY DEF Enter
<1>3. /\ exact \in [Key -> Nat \union {NoEntry}]
      /\ exact[key] = pos
      /\ \A k \in Key \ {key} : exact[k] = index[k]
  BY <1>1 DEF Entered
<1> HIDE DEF exact
<1>4. entries' \subseteq Key \X Nat /\ WrittenWithin'
  <2>1. entries \subseteq Key \X Nat /\ \A e \in entries : e[2] <= Len(heap)
    BY DEF IInv, TypeOK, WrittenWithin
  <2>2. <<key, pos>> \in Key \X Nat /\ <<key, pos>>[2] <= Len(heap) /\ heap' = heap
    BY <1>1
  <2>3. \A e \in entries' : e \in Key \X Nat /\ e[2] <= Len(heap')
    BY <1>1, <2>1, <2>2
  <2> QED BY <2>3 DEF WrittenWithin
<1>5. /\ \A k \in Key : exact[k] # NoEntry => <<k, exact[k]>> \in entries'
      /\ \A k \in Key : index[k] # NoEntry => exact[k] # NoEntry
      /\ exact[key] # NoEntry
  BY <1>1, <1>3 DEF IInv, FoundWritten
<1>6. call[c].pc \in {"enter", "rebuild"} /\ (~ raced => exact[call[c].key] # NoEntry)
  BY <1>1, <1>5
<1> QED BY <1>1, <1>2, <1>3, <1>4, <1>5, <1>6, IndexStepKeeps

\* A rebuild enters nothing.
LEMMA RebuildKeeps ==
  ASSUME IInv, NEW c \in Thread, Rebuild(c)
  PROVE  IInv'
<1>1. /\ call[c].pc = "rebuild" /\ index \in [Key -> Nat \union {NoEntry}]
      /\ WriteIndex(c, index, "open") /\ UNCHANGED entries
      /\ UNCHANGED <<serial, heap, count, stream, leaked, calls, reply>>
  BY DEF IInv, TypeOK, Rebuild, At
<1>2. entries' \subseteq Key \X Nat /\ WrittenWithin'
  BY <1>1 DEF IInv, TypeOK, WrittenWithin
<1>3. /\ \A k \in Key : index[k] # NoEntry => <<k, index[k]>> \in entries'
      /\ ~ raced => index[call[c].key] # NoEntry
  BY <1>1 DEF IInv, FoundWritten, EntryWritten
<1> QED BY <1>1, <1>2, <1>3, IndexStepKeeps

-----------------------------------------------------------------------------
\* A step on the stream keeps the invariant if whoever leaves it open goes on
\* to close it, the file does not shrink, and what is in it has an entry.
LEMMA StreamStepKeeps ==
  ASSUME IInv, NEW c \in Thread, NEW new \in CallState,
         call' = [call EXCEPT ![c] = new],
         UNCHANGED <<serial, indexFiles, count, calls>>,
         stream' \in StreamState, leaked' \in BOOLEAN, reply' \in ReplyState,
         heap' \in Seq(Key), Len(heap) <= Len(heap'),
         ~ raced => \A k \in InFile' : index[k] # NoEntry,
         stream'.mode # "closed" => new.pc \in Closing,
         new.pc # "idle" => new.key \in Key,
         new.pc \notin {"look", "enter"},
         ~ raced /\ new.pc \in {"rebuild", "open", "write"} => index[new.key] # NoEntry
  PROVE  IInv'
<1> USE DEF IInv
<1>1. /\ call \in [Thread -> CallState]
      /\ call' \in [Thread -> CallState]
      /\ call'[c] = new
      /\ \A d \in Thread \ {c} : call'[d] = call[d]
  BY DEF TypeOK, CallState
<1>2. TypeOK'
  BY <1>1 DEF TypeOK, CallState, StreamState, ReplyState
<1>3. InCallHasKey'
  BY <1>1 DEF InCallHasKey
<1>4. PositionAsked'
  <2> SUFFICES ASSUME NEW d \in Thread, call'[d].pc \in {"look", "enter"}
               PROVE  call'[d].pos <= Len(heap')
    BY DEF PositionAsked
  <2>1. call'[d] = call[d] /\ call[d].pos <= Len(heap) /\ call[d].pos \in Nat
    BY <1>1 DEF PositionAsked, CallState
  <2>2. Len(heap) \in Nat /\ Len(heap') \in Nat
    BY DEF TypeOK
  <2> QED BY <2>1, <2>2
<1>5. EntryWritten'
  BY <1>1 DEF EntryWritten
<1>6. SomebodyCloses'
  BY <1>1 DEF SomebodyCloses
<1>7. StoredKeysIndexed'
  BY DEF StoredKeysIndexed
<1>8. WrittenWithin' /\ FoundWritten'
  <2>1. ASSUME NEW e \in entries
        PROVE  e[2] <= Len(heap')
    <3>1. e[2] \in Nat /\ e[2] <= Len(heap) /\ Len(heap) \in Nat /\ Len(heap') \in Nat
      BY DEF WrittenWithin, TypeOK
    <3> QED BY <3>1
  <2> QED BY <2>1 DEF WrittenWithin, FoundWritten
<1> QED BY <1>2, <1>3, <1>4, <1>5, <1>6, <1>7, <1>8

\* What a call that is going on looks like after Go.
LEMMA Going ==
  ASSUME TypeOK, NEW c \in Thread, NEW pc \in Adding \union Reading, Go(c, pc)
  PROVE  \E new \in CallState :
           /\ call' = [call EXCEPT ![c] = new] /\ reply' \in ReplyState
           /\ new.pc = pc /\ new.key = call[c].key /\ new.pos = call[c].pos
<1> DEFINE new == [call[c] EXCEPT !.pc = pc]
<1>1. call[c] \in CallState /\ reply \in ReplyState
  BY DEF TypeOK, CallState, ReplyState
<1>2. new \in CallState /\ new.pc = pc /\ new.key = call[c].key /\ new.pos = call[c].pos
  BY <1>1 DEF CallState
<1>3. call' = [call EXCEPT ![c] = new] /\ reply' = reply
  BY DEF Go
<1> HIDE DEF new
<1> QED BY <1>1, <1>2, <1>3

\* What it looks like when it has returned.
LEMMA Returning ==
  ASSUME NEW c \in Thread, NEW outcome \in {"none", "true", "throws", "response"},
         NEW rows \in SUBSET (Key \union {Blank}), Return(c, outcome, rows)
  PROVE  /\ Idle \in CallState /\ Idle.pc = "idle"
         /\ call' = [call EXCEPT ![c] = Idle] /\ reply' \in ReplyState
BY DEF Return, Idle, CallState, ReplyState

\* Opening keeps at most what the buffer held; it leaves a stream that is usable or failed.
LEMMA Opening ==
  ASSUME IInv, NEW mode \in {"in", "app"}, stream' = Opened(mode), UNCHANGED heap
  PROVE  /\ stream' \in StreamState
         /\ ~ raced => \A k \in InFile' : index[k] # NoEntry
<1>1. stream \in StreamState /\ <<>> \in Seq(Key)
  BY DEF IInv, TypeOK, StreamState
<1>2. CASE stream.mode = "closed"
  <2>1. stream' = [mode |-> mode, failed |-> FALSE, at |-> 0, buffer |-> <<>>]
    BY <1>2 DEF Opened
  <2>2. stream' \in StreamState /\ stream'.buffer = <<>>
    BY <1>1, <2>1 DEF StreamState
  <2>3. InFile' \subseteq InFile
    BY <2>2 DEF InFile
  <2> QED BY <2>2, <2>3 DEF IInv, StoredKeysIndexed
<1>3. CASE stream.mode # "closed"
  <2>1. stream' = [stream EXCEPT !.failed = TRUE]
    BY <1>3 DEF Opened
  <2>2. stream' \in StreamState /\ stream'.buffer = stream.buffer
    BY <1>1, <2>1 DEF StreamState
  <2>3. InFile' = InFile
    BY <2>2 DEF InFile
  <2> QED BY <2>2, <2>3 DEF IInv, StoredKeysIndexed
<1> QED BY <1>2, <1>3

\* Closing puts the buffer at the end of the file.
LEMMA ClosingFlushes ==
  ASSUME IInv, stream' = Closed, heap' = heap \o stream.buffer
  PROVE  /\ stream' \in StreamState /\ stream'.mode = "closed"
         /\ heap' \in Seq(Key) /\ Len(heap) <= Len(heap')
         /\ ~ raced => \A k \in InFile' : index[k] # NoEntry
<1>1. /\ stream \in StreamState /\ stream.buffer \in Seq(Key) /\ heap \in Seq(Key)
      /\ Len(heap) \in Nat /\ Len(stream.buffer) \in Nat
  BY DEF IInv, TypeOK, StreamState
<1>2. /\ stream' \in StreamState /\ stream'.mode = "closed"
      /\ stream'.buffer = <<>> \/ stream'.buffer = stream.buffer
  <2>1. CASE stream.mode = "closed"
    <3>1. stream' = [stream EXCEPT !.failed = TRUE]
      BY <2>1 DEF Closed
    <3> QED BY <1>1, <2>1, <3>1 DEF StreamState
  <2>2. CASE stream.mode # "closed"
    <3>1. stream' = [stream EXCEPT !.mode = "closed", !.buffer = <<>>] /\ <<>> \in Seq(Key)
      BY <2>2 DEF Closed
    <3> QED BY <1>1, <3>1 DEF StreamState
  <2> QED BY <2>1, <2>2
<1>3. /\ heap' \in Seq(Key) /\ Len(heap') = Len(heap) + Len(stream.buffer)
      /\ \A i \in 1..Len(heap') :
           heap'[i] = IF i <= Len(heap) THEN heap[i] ELSE stream.buffer[i - Len(heap)]
  BY <1>1, ConcatProperties
<1>4. \A i \in 1..Len(heap') : heap'[i] \in InFile
  <2> SUFFICES ASSUME NEW i \in 1..Len(heap')
               PROVE  heap'[i] \in InFile
    OBVIOUS
  <2>1. CASE i <= Len(heap)
    <3>1. i \in 1..Len(heap) /\ heap'[i] = heap[i]
      BY <1>1, <1>3, <2>1
    <3> QED BY <3>1 DEF InFile
  <2>2. CASE ~ (i <= Len(heap))
    <3>1. i - Len(heap) \in 1..Len(stream.buffer) /\ heap'[i] = stream.buffer[i - Len(heap)]
      BY <1>1, <1>3, <2>2
    <3> QED BY <3>1 DEF InFile
  <2> QED BY <2>1, <2>2
<1>5. \A i \in 1..Len(stream'.buffer) : stream'.buffer[i] \in InFile
  BY <1>2 DEF InFile
<1>6. InFile' \subseteq InFile
  BY <1>4, <1>5 DEF InFile
<1> QED BY <1>1, <1>2, <1>3, <1>6 DEF IInv, StoredKeysIndexed

LEMMA OpenAppKeeps ==
  ASSUME IInv, NEW c \in Thread, OpenApp(c)
  PROVE  IInv'
<1>1. PICK new \in CallState :
        /\ call' = [call EXCEPT ![c] = new] /\ reply' \in ReplyState
        /\ new.pc = "write" /\ new.key = call[c].key
  BY Going DEF OpenApp, IInv, Adding
<1>2. new.key \in Key /\ (~ raced => index[new.key] # NoEntry)
  BY <1>1 DEF OpenApp, At, IInv, InCallHasKey, EntryWritten
<1>3. stream' \in StreamState /\ (~ raced => \A k \in InFile' : index[k] # NoEntry)
  BY Opening DEF OpenApp
<1>4. /\ UNCHANGED <<serial, heap, indexFiles, count, calls, leaked>>
      /\ leaked' \in BOOLEAN /\ heap' \in Seq(Key) /\ Len(heap) <= Len(heap')
  BY DEF OpenApp, IInv, TypeOK
<1> QED BY <1>1, <1>2, <1>3, <1>4, StreamStepKeeps DEF Closing

\* write: what is put into the buffer has been entered in the index.
LEMMA WriteKeeps ==
  ASSUME IInv, NEW c \in Thread, Write(c)
  PROVE  IInv'
<1>1. /\ call[c].pc = "write" /\ call[c].key \in Key /\ (~ raced => index[call[c].key] # NoEntry)
      /\ UNCHANGED <<serial, heap, indexFiles, count, calls>>
      /\ heap' \in Seq(Key) /\ Len(heap) <= Len(heap')
  BY DEF Write, At, IInv, TypeOK, InCallHasKey, EntryWritten
<1>2. CASE call[c].valid
  <2>1. PICK new \in CallState :
          /\ call' = [call EXCEPT ![c] = new] /\ reply' \in ReplyState
          /\ new.pc = "close" /\ new.key = call[c].key
    BY <1>2, Going DEF Write, IInv, Adding
  <2>2. stream \in StreamState /\ leaked' \in BOOLEAN
    BY <1>2 DEF Write, IInv, TypeOK, StreamState
  <2>3. stream' \in StreamState /\ (~ raced => \A k \in InFile' : index[k] # NoEntry)
    <3>1. CASE Usable("app")
      <4>1. stream' = [stream EXCEPT !.buffer = Append(stream.buffer, call[c].key)]
        BY <1>2, <3>1 DEF Write, Written
      <4>2. /\ stream.buffer \in Seq(Key) /\ Append(stream.buffer, call[c].key) \in Seq(Key)
            /\ \A i \in 1..Len(Append(stream.buffer, call[c].key)) :
                 Append(stream.buffer, call[c].key)[i]
                   \in {stream.buffer[j] : j \in 1..Len(stream.buffer)} \union {call[c].key}
        <5>1. stream.buffer \in Seq(Key)
          BY <2>2 DEF StreamState
        <5>2. call[c].key \in Key
          BY <1>1
        <5> DEFINE b == stream.buffer
                   k == call[c].key
        <5> HIDE DEF b, k
        <5>3. /\ Append(b, k) \in Seq(Key) /\ Len(Append(b, k)) = Len(b) + 1 /\ Len(b) \in Nat
              /\ Append(b, k)[Len(b) + 1] = k
              /\ \A i \in 1..Len(b) : Append(b, k)[i] = b[i]
          BY <5>1, <5>2, AppendProperties, LenProperties DEF b, k
        <5>4. \A i \in 1..Len(Append(b, k)) :
                Append(b, k)[i] \in {b[j] : j \in 1..Len(b)} \union {k}
          <6> SUFFICES ASSUME NEW i \in 1..Len(Append(b, k))
                       PROVE  Append(b, k)[i] \in {b[j] : j \in 1..Len(b)} \union {k}
            OBVIOUS
          <6>1. i \in 1..Len(b) \/ i = Len(b) + 1
            BY <5>3
          <6> QED BY ONLY <5>3, <6>1
        <5> QED BY <5>1, <5>3, <5>4 DEF b, k
      <4>3. stream' \in StreamState /\ stream'.buffer = Append(stream.buffer, call[c].key)
        BY <2>2, <4>1, <4>2 DEF StreamState
      <4>4. InFile' \subseteq InFile \union {call[c].key}
        BY <1>1, <4>2, <4>3 DEF InFile
      <4> QED BY <1>1, <4>3, <4>4 DEF IInv, StoredKeysIndexed
    <3>2. CASE ~ Usable("app")
      <4>1. stream' = [stream EXCEPT !.failed = TRUE]
        BY <1>2, <3>2 DEF Write, Written
      <4>2. stream' \in StreamState /\ stream'.buffer = stream.buffer
        BY <2>2, <4>1 DEF StreamState
      <4>3. InFile' = InFile
        BY <1>1, <4>2 DEF InFile
      <4> QED BY <4>2, <4>3 DEF IInv, StoredKeysIndexed
    <3> QED BY <3>1, <3>2
  <2> QED BY <1>1, <2>1, <2>2, <2>3, StreamStepKeeps DEF Closing
<1>3. CASE ~ call[c].valid
  <2>1. /\ Idle \in CallState /\ Idle.pc = "idle"
        /\ call' = [call EXCEPT ![c] = Idle] /\ reply' \in ReplyState
    BY <1>3, Returning DEF Write
  <2>2. UNCHANGED stream /\ leaked' = TRUE /\ count' \in Nat /\ calls' \in 0..MaxCalls
    BY <1>3 DEF Write, IInv, TypeOK
  <2> QED BY <1>1, <2>1, <2>2, CallStepKeeps
<1> QED BY <1>2, <1>3

LEMMA CloseAppKeeps ==
  ASSUME IInv, NEW c \in Thread, CloseApp(c)
  PROVE  IInv'
<1>1. PICK new \in CallState :
        /\ call' = [call EXCEPT ![c] = new] /\ reply' \in ReplyState
        /\ new.pc = "count" /\ new.key = call[c].key
  BY Going DEF CloseApp, IInv, Adding
<1>2. new.key \in Key /\ leaked' \in BOOLEAN
  BY <1>1 DEF CloseApp, At, IInv, InCallHasKey
<1>3. /\ stream' \in StreamState /\ stream'.mode = "closed"
      /\ heap' \in Seq(Key) /\ Len(heap) <= Len(heap')
      /\ ~ raced => \A k \in InFile' : index[k] # NoEntry
  BY ClosingFlushes DEF CloseApp
<1> QED BY <1>1, <1>2, <1>3, StreamStepKeeps DEF CloseApp

LEMMA LoadCountKeeps ==
  ASSUME IInv, NEW c \in Thread, LoadCount(c)
  PROVE  IInv'
<1> DEFINE new == [call[c] EXCEPT !.pc = "store", !.seen = count]
<1>1. call[c] \in CallState /\ call[c].pc = "count" /\ count \in Nat
  BY DEF LoadCount, At, IInv, TypeOK, CallState
<1>2. new \in CallState /\ new.pc = "store" /\ new.key = call[c].key
  BY <1>1 DEF CallState, Adding
<1>3. call' = [call EXCEPT ![c] = new]
  BY DEF LoadCount
<1>4. new.key \in Key /\ call[c].pc \notin Closing
  BY <1>1, <1>2 DEF IInv, InCallHasKey, Closing
<1> HIDE DEF new
<1> QED BY <1>2, <1>3, <1>4, OnlyCallStepKeeps DEF LoadCount

LEMMA StoreCountKeeps ==
  ASSUME IInv, NEW c \in Thread, StoreCount(c)
  PROVE  IInv'
<1>1. call[c] \in CallState /\ call[c].pc = "store"
  BY DEF StoreCount, At, IInv, TypeOK, CallState
<1>2. /\ Idle \in CallState /\ Idle.pc = "idle"
      /\ call' = [call EXCEPT ![c] = Idle] /\ reply' \in ReplyState
  BY Returning DEF StoreCount
<1>3. count' \in Nat /\ leaked' \in BOOLEAN /\ calls' \in 0..MaxCalls
  BY <1>1 DEF StoreCount, IInv, TypeOK, CallState
<1> QED BY <1>1, <1>2, <1>3, CallStepKeeps DEF StoreCount, Closing

LEMMA FindKeeps ==
  ASSUME IInv, NEW c \in Thread, Find(c)
  PROVE  IInv'
<1>1. /\ call[c] \in CallState /\ call[c].pc = "find" /\ call[c].key \in Key
      /\ index[call[c].key] \in Nat \union {NoEntry}
  BY DEF Find, At, IInv, TypeOK, CallState, InCallHasKey
<1>2. CASE index[call[c].key] = NoEntry
  <2>1. /\ Idle \in CallState /\ Idle.pc = "idle"
        /\ call' = [call EXCEPT ![c] = Idle] /\ reply' \in ReplyState
    BY <1>2, Returning DEF Find
  <2> QED BY <1>1, <2>1, OnlyCallStepKeeps DEF Find, Closing
<1>3. CASE index[call[c].key] # NoEntry
  <2> DEFINE new == [call[c] EXCEPT !.pc = "open_in", !.pos = index[call[c].key]]
  <2>1. new \in CallState /\ new.pc = "open_in" /\ new.key = call[c].key
    BY <1>1, <1>3 DEF CallState, Reading
  <2>2. call' = [call EXCEPT ![c] = new] /\ UNCHANGED reply
    BY <1>3 DEF Find
  <2> HIDE DEF new
  <2> QED BY <1>1, <2>1, <2>2, OnlyCallStepKeeps DEF Find, Closing
<1> QED BY <1>2, <1>3

LEMMA OpenInKeeps ==
  ASSUME IInv, NEW c \in Thread, OpenIn(c)
  PROVE  IInv'
<1>1. PICK new \in CallState :
        /\ call' = [call EXCEPT ![c] = new] /\ reply' \in ReplyState
        /\ new.pc = "seek" /\ new.key = call[c].key
  BY Going DEF OpenIn, IInv, Reading
<1>2. new.key \in Key
  BY <1>1 DEF OpenIn, At, IInv, InCallHasKey
<1>3. stream' \in StreamState /\ (~ raced => \A k \in InFile' : index[k] # NoEntry)
  BY Opening DEF OpenIn
<1>4. /\ UNCHANGED <<serial, heap, indexFiles, count, calls, leaked>>
      /\ leaked' \in BOOLEAN /\ heap' \in Seq(Key) /\ Len(heap) <= Len(heap')
  BY DEF OpenIn, IInv, TypeOK
<1> QED BY <1>1, <1>2, <1>3, <1>4, StreamStepKeeps DEF Closing

\* The steps of a read move the get position or set the fail bit, no more.
LEMMA ReadingStepKeeps ==
  ASSUME IInv, NEW c \in Thread, NEW new \in CallState,
         call' = [call EXCEPT ![c] = new], new.key \in Key, new.pc \in {"read", "close_in"},
         stream' \in StreamState, stream'.buffer = stream.buffer,
         UNCHANGED <<serial, heap, indexFiles, count, leaked, calls>>, reply' \in ReplyState
  PROVE  IInv'
<1>1. InFile' = InFile
  BY DEF InFile
<1>2. /\ heap' \in Seq(Key) /\ Len(heap) <= Len(heap') /\ leaked' \in BOOLEAN
      /\ ~ raced => \A k \in InFile' : index[k] # NoEntry
  BY <1>1 DEF IInv, TypeOK, StoredKeysIndexed
<1> QED BY <1>2, StreamStepKeeps DEF Closing

LEMMA SeekKeeps ==
  ASSUME IInv, NEW c \in Thread, Seek(c)
  PROVE  IInv'
<1>1. PICK new \in CallState :
        /\ call' = [call EXCEPT ![c] = new] /\ reply' \in ReplyState
        /\ new.pc = "read" /\ new.key = call[c].key
  BY Going DEF Seek, IInv, Reading
<1>2. new.key \in Key /\ stream \in StreamState /\ call[c].pos \in Nat
  BY <1>1 DEF Seek, At, IInv, TypeOK, InCallHasKey, StreamState
<1>3. /\ \/ stream' = stream
         \/ stream' = [stream EXCEPT !.failed = TRUE]
         \/ stream' = [stream EXCEPT !.at = call[c].pos]
      /\ UNCHANGED <<serial, heap, indexFiles, count, leaked, calls>>
  BY DEF Seek
<1>4. stream' \in StreamState /\ stream'.buffer = stream.buffer
  BY <1>2, <1>3 DEF StreamState
<1> QED BY <1>1, <1>2, <1>3, <1>4, ReadingStepKeeps

LEMMA ReadKeeps ==
  ASSUME IInv, NEW c \in Thread, Read(c)
  PROVE  IInv'
<1> DEFINE got == Usable("in") /\ stream.at < Len(heap)
           row == IF got THEN heap[stream.at + 1] ELSE Blank
           new == [call[c] EXCEPT !.pc = "close_in", !.row = row]
<1>1. /\ call[c] \in CallState /\ call[c].pc = "read" /\ call[c].key \in Key
      /\ stream \in StreamState /\ stream.at \in Nat /\ heap \in Seq(Key)
  BY DEF Read, At, IInv, TypeOK, CallState, StreamState, InCallHasKey
<1>2. row \in Key \union {Blank}
  <2>1. CASE got
    <3>1. stream.at + 1 \in 1..Len(heap)
      BY <1>1, <2>1
    <3>2. heap[stream.at + 1] \in Key
      BY <1>1, <3>1, ElementOfSeq
    <3> QED BY <2>1, <3>2
  <2>2. CASE ~ got
    BY <2>2
  <2> QED BY <2>1, <2>2
<1>3. /\ call' = [call EXCEPT ![c] = new] /\ UNCHANGED <<serial, heap, indexFiles, count, leaked, calls, reply>>
      /\ stream' = IF got THEN [stream EXCEPT !.at = stream.at + 1]
                          ELSE [stream EXCEPT !.failed = TRUE]
  BY DEF Read
<1> HIDE DEF row
<1>4. new \in CallState /\ new.pc = "close_in" /\ new.key = call[c].key
  BY <1>1, <1>2 DEF CallState, Reading
<1> HIDE DEF new, got
<1>5. stream' \in StreamState /\ stream'.buffer = stream.buffer /\ reply' \in ReplyState
  <2>1. \/ stream' = [stream EXCEPT !.at = stream.at + 1]
        \/ stream' = [stream EXCEPT !.failed = TRUE]
    BY <1>3
  <2>2. stream' \in StreamState /\ stream'.buffer = stream.buffer
    <3>1. stream.at + 1 \in Nat /\ TRUE \in BOOLEAN
      BY <1>1
    <3>2. CASE stream' = [stream EXCEPT !.at = stream.at + 1]
      BY <1>1, <3>1, <3>2 DEF StreamState
    <3>3. CASE stream' = [stream EXCEPT !.failed = TRUE]
      BY <1>1, <3>1, <3>3 DEF StreamState
    <3> QED BY <2>1, <3>2, <3>3
  <2> QED BY <1>3, <2>2 DEF IInv, TypeOK, ReplyState
<1> QED BY <1>1, <1>3, <1>4, <1>5, ReadingStepKeeps

LEMMA CloseInKeeps ==
  ASSUME IInv, NEW c \in Thread, CloseIn(c)
  PROVE  IInv'
<1>1. call[c].row \in Key \union {Blank}
  BY DEF IInv, TypeOK
<1>2. /\ Idle \in CallState /\ Idle.pc = "idle"
      /\ call' = [call EXCEPT ![c] = Idle] /\ reply' \in ReplyState
  BY <1>1, Returning DEF CloseIn
<1>3. /\ stream' \in StreamState /\ stream'.mode = "closed"
      /\ heap' \in Seq(Key) /\ Len(heap) <= Len(heap')
      /\ ~ raced => \A k \in InFile' : index[k] # NoEntry
  BY ClosingFlushes DEF CloseIn
<1>4. leaked' \in BOOLEAN /\ UNCHANGED <<serial, indexFiles, count, calls>>
  BY DEF CloseIn
<1> QED BY <1>2, <1>3, <1>4, StreamStepKeeps

-----------------------------------------------------------------------------
LEMMA InitIInv ==
  ASSUME Init
  PROVE  IInv
<1>1. TypeOK
  <2>1. Idle \in CallState
    BY DEF Idle, CallState
  <2>2. call \in [Thread -> CallState] /\ calls \in 0..MaxCalls
    BY <2>1, CallsAssumption DEF Init
  <2>3. <<>> \in Seq(Key)
    OBVIOUS
  <2>4. stream \in StreamState /\ reply \in ReplyState
    BY <2>3 DEF Init, StreamState, ReplyState
  <2> QED BY <2>2, <2>3, <2>4 DEF Init, TypeOK, CallState, StreamState, ReplyState
<1>2. InFile = {}
  BY DEF Init, InFile
<1> QED BY <1>1, <1>2 DEF Init, IInv, Idle, InCallHasKey, PositionAsked, EntryWritten,
              SomebodyCloses, StoredKeysIndexed, WrittenWithin, FoundWritten

\* Every step of every thread keeps the invariant.
LEMMA NextIInv ==
  ASSUME IInv, [Next]_vars
  PROVE  IInv'
<1>1. CASE UNCHANGED vars
  BY <1>1 DEF vars, IInv, TypeOK, InCallHasKey, PositionAsked, EntryWritten, SomebodyCloses,
              StoredKeysIndexed, WrittenWithin, FoundWritten, InFile
<1>2. CASE Next
  <2>1. PICK c \in Thread :
          \/ Begin(c)
          \/ NextPos(c) \/ Look(c) \/ Enter(c) \/ Rebuild(c)
          \/ OpenApp(c) \/ Write(c) \/ CloseApp(c) \/ LoadCount(c) \/ StoreCount(c)
          \/ Find(c) \/ OpenIn(c) \/ Seek(c) \/ Read(c) \/ CloseIn(c)
    BY <1>2 DEF Next
  <2> QED BY <2>1, BeginKeeps, NextPosKeeps, LookKeeps, EnterKeeps, RebuildKeeps, OpenAppKeeps, WriteKeeps,
             CloseAppKeeps, LoadCountKeeps, StoreCountKeeps, FindKeeps, OpenInKeeps, SeekKeeps,
             ReadKeeps, CloseInKeeps
<1> QED BY <1>1, <1>2

\* Whatever the threads do, what a call knows in the middle stays true.
THEOREM Invariance == Spec => []IInv
<1> QED BY InitIInv, NextIInv, PTL DEF Spec

\* The files, the stream and the calls stay well formed.
THEOREM TypeCorrect == Spec => []TypeOK
<1>1. IInv => TypeOK
  BY DEF IInv
<1> QED BY <1>1, Invariance, PTL

\* As long as no write of the index was stale, a record in data.bin has an entry
\* there, however the adds are interleaved and whichever thread flushed it.
THEOREM StoredAreIndexed == Spec => []StoredKeysIndexed
<1>1. IInv => StoredKeysIndexed
  BY DEF IInv
<1> QED BY <1>1, Invariance, PTL

\* No add enters a position beyond the end of data.bin, and what stale writes make
\* of the index does not have one either.
THEOREM EntriesAreWithin == Spec => []EntriesWithinFile
<1>1. IInv => EntriesWithinFile
  BY DEF IInv, WrittenWithin, FoundWritten, EntriesWithinFile
<1> QED BY <1>1, Invariance, PTL

\* Only an add that threw leaves the stream open when all calls have returned.
THEOREM IdleIsClosed == Spec => []IdleStreamClosed
<1>1. IInv => IdleStreamClosed
  BY DEF IInv, SomebodyCloses, IdleStreamClosed, At, Closing
<1> QED BY <1>1, Invariance, PTL
=============================================================================
