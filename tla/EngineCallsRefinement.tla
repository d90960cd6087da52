------------------------ MODULE EngineCallsRefinement -------------------------
(***************************************************************************)
(* Requests that come one at a time: the steps of add and search implement *)
(* the operations of Engine, for any keys, threads and number of calls.    *)
(*                                                                         *)
(* SerialInv is what the only call that is going on knows of the stream    *)
(* and the files.  From it ViewIdle and ViewOf compute the state of Engine *)
(* at every place of a call; the step that writes the index, or finds the  *)
(* key there, is then add, the one that reads the record is search, and    *)
(* the others change nothing of it.                                        *)
(***************************************************************************)
EXTENDS EngineCallsProofs, FiniteSetTheorems

\* Time for each prover, for slower machines than the one the proofs were written on.
USE SMTT(60), ZenonT(60)
USE DEF indexFiles

Alone == \A c, d \in Thread : call[c].pc # "idle" /\ call[d].pc # "idle" => c = d

\* What the call of c has found out or done, and still holds.
Knows(c) ==
  LET pc == call[c].pc
  IN  /\ count < calls
      /\ ~ raced /\ ~ call[c].stale
      /\ pc \in {"look", "enter"} => call[c].pos = Len(heap)
      /\ pc = "enter" => index[call[c].key] = NoEntry
      /\ pc \in Closing => stream.mode # "closed"
      /\ pc = "write" /\ ~ stream.failed => stream.mode = "app"
      /\ pc \in {"close", "count", "store"} => call[c].valid
      /\ pc \in {"count", "store"} => stream.mode = "closed"
      /\ pc = "store" => call[c].seen = count
      /\ pc \in {"open_in", "seek", "read"} => index[call[c].key] = call[c].pos
      /\ pc \in {"seek", "read"} /\ ~ stream.failed => stream.mode = "in"
      /\ pc = "read" /\ ~ stream.failed => stream.at = call[c].pos
      /\ pc # "close" => stream.buffer = <<>>

SerialInv == serial => /\ Alone /\ count <= calls /\ ~ raced
                       /\ (\A c \in Thread : call[c].pc = "idle") => stream.buffer = <<>>
                       /\ \A c \in Thread : call[c].pc # "idle" => Knows(c)

-----------------------------------------------------------------------------

\* A call that goes on keeps what is known of it if nobody else is in a call.
LEMMA SerialGoingKeeps ==
  ASSUME IInv, NEW c \in Thread, NEW new \in CallState,
         call' = [call EXCEPT ![c] = new], new.pc # "idle",
         \A d \in Thread \ {c} : call[d].pc = "idle",
         UNCHANGED count, calls' \in Nat, Knows(c)'
  PROVE  SerialInv'
<1>1. /\ call'[c] = new
      /\ \A d \in Thread \ {c} : call'[d].pc = "idle"
      /\ count' \in Nat
  BY DEF IInv, TypeOK
<1>2. count' < calls' /\ ~ raced'
  BY DEF Knows
<1>3. count' <= calls'
  BY <1>1, <1>2
<1> QED BY <1>1, <1>2, <1>3 DEF SerialInv, Alone

\* The same of a call that returns.
LEMMA SerialReturnKeeps ==
  ASSUME IInv, NEW c \in Thread,
         \A d \in Thread \ {c} : call[d].pc = "idle",
         call' = [call EXCEPT ![c] = Idle],
         count' <= calls', stream'.buffer = <<>>, ~ raced'
  PROVE  SerialInv'
<1>1. /\ call'[c] = Idle /\ Idle.pc = "idle"
      /\ \A d \in Thread \ {c} : call'[d].pc = "idle"
  BY DEF IInv, TypeOK, Idle
<1> QED BY <1>1 DEF SerialInv, Alone

\* Each step of add and search, with nobody else in a call.
LEMMA SerialKeeps ==
  ASSUME IInv, SerialInv, serial, NEW c \in Thread,
         \/ Begin(c)
         \/ NextPos(c) \/ Look(c) \/ Enter(c) \/ Rebuild(c)
         \/ OpenApp(c) \/ Write(c) \/ CloseApp(c) \/ LoadCount(c) \/ StoreCount(c)
         \/ Find(c) \/ OpenIn(c) \/ Seek(c) \/ Read(c) \/ CloseIn(c)
  PROVE  SerialInv'
<1> DEFINE me == call[c]
<1>1. /\ call \in [Thread -> CallState] /\ me \in CallState /\ count \in Nat /\ calls \in Nat
      /\ stream \in StreamState /\ heap \in Seq(Key) /\ Len(heap) \in Nat
      /\ index \in [Key -> Nat \union {NoEntry}]
  BY CallsAssumption DEF IInv, TypeOK, CallState, StreamState
<1>2. CASE Begin(c)
  <2>1. PICK k \in Key, valid \in BOOLEAN, pc \in {"next_pos", "find"} :
          call' = [call EXCEPT ![c] = [Idle EXCEPT !.pc = pc, !.key = k, !.valid = valid]]
    BY <1>2 DEF Begin
  <2> DEFINE new == [Idle EXCEPT !.pc = pc, !.key = k, !.valid = valid]
  <2>2. new \in CallState /\ new.key = k /\ new.pc = pc /\ ~ new.stale
    BY CallsAssumption DEF CallState, Idle, Adding, Reading
  <2>3. /\ \A d \in Thread : call[d].pc = "idle"
        /\ calls' = calls + 1 /\ UNCHANGED <<serial, heap, indexFiles, count, stream>>
        /\ stream.buffer = <<>> /\ count <= calls /\ ~ raced
    BY <1>2 DEF Begin, At, SerialInv
  <2>4. call'[c] = new
    BY <1>1, <2>1
  <2> HIDE DEF new
  <2>5. Knows(c)'
    BY <1>1, <2>2, <2>3, <2>4 DEF Knows, Closing
  <2>6. calls' \in Nat /\ new.pc # "idle"
    BY <1>1, <2>2, <2>3
  <2> QED BY <2>1, <2>2, <2>3, <2>5, <2>6, SerialGoingKeeps DEF new
<1>3. ASSUME call[c].pc # "idle"
      PROVE  /\ Knows(c) /\ call[c].key \in Key /\ count <= calls /\ ~ raced
             /\ \A d \in Thread \ {c} : call[d].pc = "idle"
  BY <1>3 DEF SerialInv, Alone, IInv, InCallHasKey
<1>4. ASSUME me.pc # "idle", NEW new \in CallState, call' = [call EXCEPT ![c] = new],
             new.pc # "idle", UNCHANGED <<count, calls>>, call'[c] = new => Knows(c)'
      PROVE  SerialInv'
  <2>1. call'[c] = new
    BY <1>1, <1>4
  <2> QED BY <1>1, <1>3, <1>4, <2>1, SerialGoingKeeps
<1>5. CASE NextPos(c)
  <2> DEFINE new == [me EXCEPT !.pc = "look", !.pos = Len(heap)]
  <2>1. new \in CallState /\ new.pc = "look" /\ new.pos = Len(heap) /\ new.stale = me.stale
    BY <1>1 DEF CallState, Adding
  <2>2. /\ call' = [call EXCEPT ![c] = new] /\ me.pc = "next_pos"
        /\ UNCHANGED <<heap, indexFiles, count, stream, calls>>
    BY <1>5 DEF NextPos, FileLength, At
  <2> HIDE DEF new
  <2>3. call'[c] = new => Knows(c)'
    BY <1>1, <1>3, <2>1, <2>2 DEF Knows, Closing
  <2> QED BY <1>4, <2>1, <2>2, <2>3
<1>6. ASSUME NEW pc \in Adding \union Reading, me.pc # "idle", call' = [call EXCEPT ![c].pc = pc],
             UNCHANGED <<count, calls>>,
             call'[c] = [me EXCEPT !.pc = pc] => Knows(c)'
      PROVE  SerialInv'
  <2> DEFINE new == [me EXCEPT !.pc = pc]
  <2>1. new \in CallState /\ new.pc # "idle"
    BY <1>1 DEF CallState, Adding, Reading
  <2>2. call' = [call EXCEPT ![c] = new]
    BY <1>6
  <2> QED BY <1>4, <1>6, <2>1, <2>2
<1>7. CASE Look(c)
  <2>1. me.pc = "look" /\ UNCHANGED <<heap, indexFiles, count, stream, calls>>
    BY <1>7 DEF Look, At
  <2>2. CASE index[me.key] # NoEntry
    <3>1. call' = [call EXCEPT ![c] = Idle] /\ count' <= calls' /\ stream'.buffer = <<>>
      BY <1>1, <1>3, <1>7, <2>1, <2>2 DEF Look, Return, Knows
    <3> QED BY <1>3, <2>1, <3>1, SerialReturnKeeps
  <2>3. CASE index[me.key] = NoEntry
    <3>1. call' = [call EXCEPT ![c].pc = "enter"]
      BY <1>7, <2>3 DEF Look, Go
    <3>2. call'[c] = [me EXCEPT !.pc = "enter"] => Knows(c)'
      BY <1>1, <1>3, <2>1, <2>3 DEF Knows, Closing, CallState
    <3> QED BY <1>6, <2>1, <3>1, <3>2 DEF Adding
  <2> QED BY <2>2, <2>3
<1>8. ASSUME NEW pc \in {"rebuild", "open"}, NEW exact, WriteIndex(c, exact, pc),
             me.pc \in {"enter", "rebuild"},
             UNCHANGED <<heap, count, stream, calls>>
      PROVE  SerialInv'
  <2> DEFINE new == [me EXCEPT !.pc = pc, !.stale = FALSE]
  <2>1. new \in CallState /\ new.pc = pc /\ new.stale = FALSE
    BY <1>1 DEF CallState, Adding
  <2>2. ~ raced' /\ \A d \in Thread \ {c} : call[d].pc = "idle" /\ call[d] \in CallState
    BY <1>1, <1>3, <1>8 DEF WriteIndex, Knows
  <2>3. ASSUME NEW d \in Thread \ {c}
        PROVE  call'[d].pc = "idle"
    BY <1>1, <1>8, <2>2 DEF WriteIndex, CallState
  <2>4. call'[c] = new
    BY <1>8 DEF WriteIndex
  <2> HIDE DEF new
  <2>5. Knows(c)'
    BY <1>1, <1>3, <1>8, <2>1, <2>2, <2>4 DEF Knows, Closing
  <2>6. Alone' /\ count' <= calls' /\ call'[c].pc # "idle"
    BY <1>1, <1>3, <1>8, <2>1, <2>3, <2>4 DEF Alone
  <2> QED BY <2>2, <2>3, <2>5, <2>6 DEF SerialInv
<1>20. CASE Enter(c)
  <2>1. /\ me.pc = "enter" /\ UNCHANGED <<heap, count, stream, calls>>
        /\ \E pc \in {"rebuild", "open"} : WriteIndex(c, Entered(c), pc)
    BY <1>20 DEF Enter, At
  <2> QED BY <1>8, <2>1
<1>21. CASE Rebuild(c)
  <2>1. /\ me.pc = "rebuild" /\ UNCHANGED <<heap, count, stream, calls>>
        /\ WriteIndex(c, index, "open")
    BY <1>21 DEF Rebuild, At
  <2> QED BY <1>8, <2>1
<1>9. CASE OpenApp(c)
  <2>1. /\ me.pc = "open" /\ UNCHANGED <<heap, indexFiles, count, calls>>
        /\ call' = [call EXCEPT ![c].pc = "write"] /\ stream' = Opened("app")
    BY <1>9 DEF OpenApp, At, Go
  <2>2. call'[c] = [me EXCEPT !.pc = "write"] => Knows(c)'
    BY <1>1, <1>3, <2>1 DEF Knows, Closing, CallState, Opened, StreamState
  <2> QED BY <1>6, <2>1, <2>2 DEF Adding
<1>10. CASE Write(c)
  <2>1. me.pc = "write" /\ UNCHANGED <<heap, indexFiles, count, calls>>
    BY <1>10 DEF Write, At
  <2>2. CASE me.valid
    <3>1. call' = [call EXCEPT ![c].pc = "close"] /\ stream' = Written(me.key)
      BY <1>10, <2>2 DEF Write, Go
    <3>2. call'[c] = [me EXCEPT !.pc = "close"] => Knows(c)'
      BY <1>1, <1>3, <2>1, <2>2, <3>1
         DEF Knows, Closing, CallState, Written, Usable, StreamState
    <3> QED BY <1>6, <2>1, <3>1, <3>2 DEF Adding
  <2>3. CASE ~ me.valid
    <3>1. call' = [call EXCEPT ![c] = Idle] /\ count' <= calls' /\ stream'.buffer = <<>>
      BY <1>1, <1>3, <1>10, <2>1, <2>3 DEF Write, Return, Knows
    <3> QED BY <1>3, <2>1, <3>1, SerialReturnKeeps
  <2> QED BY <2>2, <2>3
<1>11. CASE CloseApp(c)
  <2>1. /\ me.pc = "close" /\ UNCHANGED <<indexFiles, count, calls>>
        /\ call' = [call EXCEPT ![c].pc = "count"] /\ stream' = Closed
    BY <1>11 DEF CloseApp, At, Go
  <2>2. call'[c] = [me EXCEPT !.pc = "count"] => Knows(c)'
    BY <1>1, <1>3, <2>1 DEF Knows, Closing, CallState, Closed, StreamState
  <2> QED BY <1>6, <2>1, <2>2 DEF Adding
<1>12. CASE LoadCount(c)
  <2> DEFINE new == [me EXCEPT !.pc = "store", !.seen = count]
  <2>1. new \in CallState /\ new.pc = "store" /\ new.seen = count /\ new.valid = me.valid
        /\ new.stale = me.stale
    BY <1>1 DEF CallState, Adding
  <2>2. /\ call' = [call EXCEPT ![c] = new] /\ me.pc = "count"
        /\ UNCHANGED <<heap, indexFiles, count, stream, calls>>
    BY <1>12 DEF LoadCount, At
  <2> HIDE DEF new
  <2>3. call'[c] = new => Knows(c)'
    BY <1>1, <1>3, <2>1, <2>2 DEF Knows, Closing
  <2> QED BY <1>4, <2>1, <2>2, <2>3
<1>13. CASE StoreCount(c)
  <2>1. /\ me.pc = "store" /\ UNCHANGED <<indexFiles, stream, calls>>
        /\ call' = [call EXCEPT ![c] = Idle] /\ count' = me.seen + 1
    BY <1>13 DEF StoreCount, At, Return
  <2>2. count' <= calls' /\ stream'.buffer = <<>>
    BY <1>1, <1>3, <2>1 DEF Knows
  <2> QED BY <1>3, <2>1, <2>2, SerialReturnKeeps
<1>14. CASE Find(c)
  <2>1. me.pc = "find" /\ UNCHANGED <<heap, indexFiles, count, stream, calls>>
    BY <1>14 DEF Find, At
  <2>2. CASE index[me.key] = NoEntry
    <3>1. call' = [call EXCEPT ![c] = Idle] /\ count' <= calls' /\ stream'.buffer = <<>>
      BY <1>1, <1>3, <1>14, <2>1, <2>2 DEF Find, Return, Knows
    <3> QED BY <1>3, <2>1, <3>1, SerialReturnKeeps
  <2>3. CASE index[me.key] # NoEntry
    <3> DEFINE new == [me EXCEPT !.pc = "open_in", !.pos = index[me.key]]
    <3>1. index[me.key] \in Nat
      BY <1>1, <1>3, <2>1, <2>3
    <3>2. new \in CallState /\ new.pc = "open_in" /\ new.pos = index[me.key] /\ new.key = me.key
          /\ new.stale = me.stale
      BY <1>1, <3>1 DEF CallState, Reading
    <3>3. call' = [call EXCEPT ![c] = new]
      BY <1>14, <2>3 DEF Find
    <3> HIDE DEF new
    <3>4. call'[c] = new => Knows(c)'
      BY <1>1, <1>3, <2>1, <3>2 DEF Knows, Closing
    <3> QED BY <1>4, <2>1, <3>2, <3>3, <3>4
  <2> QED BY <2>2, <2>3
<1>15. CASE OpenIn(c)
  <2>1. /\ me.pc = "open_in" /\ UNCHANGED <<heap, indexFiles, count, calls>>
        /\ call' = [call EXCEPT ![c].pc = "seek"] /\ stream' = Opened("in")
    BY <1>15 DEF OpenIn, At, Go
  <2>2. call'[c] = [me EXCEPT !.pc = "seek"] => Knows(c)'
    BY <1>1, <1>3, <2>1 DEF Knows, Closing, CallState, Opened, StreamState
  <2> QED BY <1>6, <2>1, <2>2 DEF Reading
<1>16. CASE Seek(c)
  <2>1. /\ me.pc = "seek" /\ UNCHANGED <<heap, indexFiles, count, calls>>
        /\ call' = [call EXCEPT ![c].pc = "read"]
        /\ stream' = IF stream.failed THEN stream
                     ELSE IF stream.mode = "closed" THEN [stream EXCEPT !.failed = TRUE]
                     ELSE [stream EXCEPT !.at = me.pos]
    BY <1>16 DEF Seek, At, Go
  <2>2. call'[c] = [me EXCEPT !.pc = "read"] => Knows(c)'
    BY <1>1, <1>3, <2>1 DEF Knows, Closing, CallState, StreamState
  <2> QED BY <1>6, <2>1, <2>2 DEF Reading
<1>17. CASE Read(c)
  <2> DEFINE got == Usable("in") /\ stream.at < Len(heap)
             row == IF got THEN heap[stream.at + 1] ELSE Blank
             new == [me EXCEPT !.pc = "close_in", !.row = row]
  <2>1. row \in Key \union {Blank}
    BY <1>1, ElementOfSeq DEF StreamState
  <2>2. new \in CallState /\ new.pc = "close_in" /\ new.valid = me.valid
        /\ new.stale = me.stale
    <3> HIDE DEF row
    <3> QED BY <1>1, <2>1 DEF CallState, Reading
  <2>3. /\ call' = [call EXCEPT ![c] = new] /\ me.pc = "read"
        /\ UNCHANGED <<heap, indexFiles, count, calls>>
        /\ stream' = IF got THEN [stream EXCEPT !.at = @ + 1] ELSE [stream EXCEPT !.failed = TRUE]
    BY <1>17 DEF Read, At
  <2> HIDE DEF new, got
  <2>4. call'[c] = new => Knows(c)'
    BY <1>1, <1>3, <2>2, <2>3 DEF Knows, Closing, StreamState
  <2> QED BY <1>4, <2>2, <2>3, <2>4
<1>18. CASE CloseIn(c)
  <2>1. /\ me.pc = "close_in" /\ UNCHANGED <<indexFiles, count, calls>> /\ stream' = Closed
        /\ call' = [call EXCEPT ![c] = Idle]
    BY <1>18 DEF CloseIn, At, Return
  <2>2. count' <= calls' /\ stream'.buffer = <<>>
    BY <1>1, <1>3, <2>1 DEF Knows, Closed, StreamState, Closing
  <2> QED BY <1>3, <2>1, <2>2, SerialReturnKeeps
<1> QED BY <1>2, <1>5, <1>7, <1>9, <1>10, <1>11, <1>12, <1>13, <1>14, <1>15, <1>16, <1>17, <1>18,
           <1>20, <1>21

\* What is known of the sole call is invariant: `serial' never changes.
LEMMA NextSerialInv ==
  ASSUME IInv, SerialInv, [Next]_vars
  PROVE  SerialInv'
<1>1. CASE UNCHANGED vars
  BY <1>1 DEF vars, SerialInv, Alone, Knows
<1>2. CASE Next
  <2>1. PICK c \in Thread :
          \/ Begin(c)
          \/ NextPos(c) \/ Look(c) \/ Enter(c) \/ Rebuild(c)
          \/ OpenApp(c) \/ Write(c) \/ CloseApp(c) \/ LoadCount(c) \/ StoreCount(c)
          \/ Find(c) \/ OpenIn(c) \/ Seek(c) \/ Read(c) \/ CloseIn(c)
    BY <1>2 DEF Next
  <2>2. UNCHANGED serial
    BY <2>1 DEF Begin, NextPos, Look, Enter, Rebuild, OpenApp, Write, CloseApp, LoadCount, StoreCount,
                Find, OpenIn, Seek, Read, CloseIn
  <2>3. CASE serial
    BY <2>1, <2>3, SerialKeeps
  <2>4. CASE ~ serial
    BY <2>2, <2>4 DEF SerialInv
  <2> QED BY <2>3, <2>4
<1> QED BY <1>1, <1>2

\* The stream is closed and empty at first.
LEMMA InitSerialInv == Init => SerialInv
BY DEF Init, SerialInv, Alone, Idle

\* A call that is alone finds what it left.
THEOREM SerialInvariance == Spec => [](IInv /\ SerialInv)
<1>1. Init => IInv /\ SerialInv
  BY InitIInv, InitSerialInv
<1>2. IInv /\ SerialInv /\ [Next]_vars => IInv' /\ SerialInv'
  BY NextIInv, NextSerialInv
<1> QED BY <1>1, <1>2, PTL DEF Spec

-----------------------------------------------------------------------------
\* record_count of Engine.
Counted == count + Cardinality(Pending(Effective))

\* The state of Engine when no request is being served ...
ViewIdle ==
  IInv /\ SerialInv /\ serial /\ (\A c \in Thread : call[c].pc = "idle")
    => /\ HeapAfter = heap /\ OpenAfter = (stream.mode # "closed")
       /\ ReplyAfter = reply /\ Counted = count

\* ... and when c's is.
ViewOf(c) ==
  IInv /\ SerialInv /\ serial /\ call[c].pc # "idle"
    => /\ HeapAfter = IF call[c].valid /\ \/ call[c].pc \in {"rebuild", "open"} /\ stream.mode = "closed"
                                          \/ call[c].pc = "write" /\ ~ stream.failed
                      THEN Append(heap, call[c].key) ELSE heap \o stream.buffer
       /\ OpenAfter = IF call[c].pc \in Effective THEN ~ call[c].valid
                      ELSE IF call[c].pc \in {"seek", "read"} THEN stream.failed
                      ELSE IF call[c].pc = "close_in" THEN FALSE
                      ELSE stream.mode # "closed"
       /\ ReplyAfter = IF call[c].pc \in Effective
                       THEN [outcome |-> IF call[c].valid THEN "true" ELSE "throws", rows |-> {}]
                       ELSE IF call[c].pc = "close_in"
                       THEN [outcome |-> "response", rows |-> {call[c].row}]
                       ELSE reply
       /\ Counted = IF call[c].pc \in Effective /\ call[c].valid THEN count + 1 ELSE count

\* Between requests Engine sees the state as it is.
LEMMA ViewWhenIdle == ViewIdle
<1> SUFFICES ASSUME IInv, SerialInv, serial, \A c \in Thread : call[c].pc = "idle"
             PROVE  /\ HeapAfter = heap /\ OpenAfter = (stream.mode # "closed")
                    /\ ReplyAfter = reply /\ Counted = count
  BY DEF ViewIdle
<1>1. /\ InProgress(Effective) = {} /\ Pending(Effective) = {}
      /\ Pending({"rebuild", "open"}) = {} /\ Pending({"write"}) = {}
      /\ InProgress({"seek", "read"}) = {} /\ InProgress({"close_in"}) = {}
  BY DEF InProgress, Pending, Effective
<1>2. heap \in Seq(Key) /\ stream.buffer = <<>> /\ count \in Nat
  BY DEF IInv, TypeOK, SerialInv
<1>3. heap \o <<>> = heap
  BY <1>2, ConcatEmptySeq
<1>4. HeapAfter = heap
  BY <1>1, <1>2, <1>3 DEF HeapAfter
<1>5. Counted = count
  BY <1>1, <1>2, FS_EmptySet DEF Counted
<1> QED BY <1>1, <1>4, <1>5 DEF OpenAfter, ReplyAfter

\* Inside a request it sees what the rest of the call leads to.
LEMMA ViewInCall == \A c \in Thread : ViewOf(c)
<1> SUFFICES ASSUME NEW c \in Thread, IInv, SerialInv, serial, call[c].pc # "idle"
             PROVE  ViewOf(c)
  BY DEF ViewOf
<1>1. \A d \in Thread \ {c} : call[d].pc = "idle"
  BY DEF SerialInv, Alone
<1>2. ASSUME NEW pcs, "idle" \notin pcs
      PROVE  /\ InProgress(pcs) = IF call[c].pc \in pcs THEN {c} ELSE {}
             /\ Pending(pcs) = IF call[c].pc \in pcs /\ call[c].valid THEN {c} ELSE {}
  BY <1>1, <1>2 DEF InProgress, Pending
<1>3. Sole({c}) = c
  BY DEF Sole
<1>4. "idle" \notin Effective
  BY DEF Effective
<1>5. HeapAfter = IF call[c].valid /\ \/ call[c].pc \in {"rebuild", "open"} /\ stream.mode = "closed"
                                      \/ call[c].pc = "write" /\ ~ stream.failed
                  THEN Append(heap, call[c].key) ELSE heap \o stream.buffer
  <2> DEFINE willWrite == {d \in Pending({"rebuild", "open"}) : stream.mode = "closed"}
                            \union {d \in Pending({"write"}) : ~ stream.failed}
  <2>1. willWrite = IF call[c].valid /\ \/ call[c].pc \in {"rebuild", "open"} /\ stream.mode = "closed"
                                        \/ call[c].pc = "write" /\ ~ stream.failed
                    THEN {c} ELSE {}
    BY <1>2
  <2>2. HeapAfter = IF willWrite # {} THEN Append(heap, call[Sole(willWrite)].key)
                    ELSE heap \o stream.buffer
    BY DEF HeapAfter
  <2> HIDE DEF willWrite
  <2> QED BY <1>3, <2>1, <2>2
<1>6. Counted = IF call[c].pc \in Effective /\ call[c].valid THEN count + 1 ELSE count
  <2>1. Cardinality({c}) = 1 /\ Cardinality({}) = 0
    BY FS_Singleton, FS_EmptySet
  <2>2. Pending(Effective) = IF call[c].pc \in Effective /\ call[c].valid THEN {c} ELSE {}
    BY <1>2, <1>4
  <2>3. Cardinality(Pending(Effective)) = IF call[c].pc \in Effective /\ call[c].valid THEN 1 ELSE 0
    BY <2>1, <2>2
  <2>4. count \in Nat
    BY DEF IInv, TypeOK
  <2> QED BY <2>3, <2>4 DEF Counted
<1>7. OpenAfter = IF call[c].pc \in Effective THEN ~ call[c].valid
                  ELSE IF call[c].pc \in {"seek", "read"} THEN stream.failed
                  ELSE IF call[c].pc = "close_in" THEN FALSE
                  ELSE stream.mode # "closed"
  BY <1>2, <1>4 DEF OpenAfter, IInv, TypeOK
<1>8. ReplyAfter = IF call[c].pc \in Effective
                   THEN [outcome |-> IF call[c].valid THEN "true" ELSE "throws", rows |-> {}]
                   ELSE IF call[c].pc = "close_in"
                   THEN [outcome |-> "response", rows |-> {call[c].row}]
                   ELSE reply
  BY <1>2, <1>3, <1>4 DEF ReplyAfter, Effective
<1> QED BY <1>5, <1>6, <1>7, <1>8 DEF ViewOf

-----------------------------------------------------------------------------

\* A step that changes nothing that Engine sees.
LEMMA Stutters ==
  ASSUME UNCHANGED <<HeapAfter, index, Counted, OpenAfter, ReplyAfter>>
  PROVE  UNCHANGED One!vars
BY DEF One!vars, Counted, OfT

\* A call of add that throws because of the key.
LEMMA RefusesKey ==
  ASSUME NEW k \in Key, Counted < MaxCalls, index[k] # NoEntry,
         UNCHANGED <<HeapAfter, index, Counted, OpenAfter>>,
         ReplyAfter' = [outcome |-> "throws", rows |-> {}]
  PROVE  One!Insert(T, k, TRUE)
<1>1. OfT(Counted)[T] < MaxCalls /\ OfT(index)[T][k] # NoEntry
  BY DEF OfT
<1>2. One!Throws
  BY DEF One!Throws, One!Returns, One!disk, One!process, Counted, OfT
<1> QED BY <1>1, <1>2 DEF One!Insert, One!Refused, Counted, One!NoEntry, NoEntry

\* A call of add that writes the index: the record will follow, unless it
\* cannot be converted or the stream is open.
LEMMA EntersKey ==
  ASSUME NEW k \in Key, NEW valid \in BOOLEAN, Counted < MaxCalls, index[k] = NoEntry,
         index \in [Key -> Nat \union {NoEntry}], OpenAfter \in BOOLEAN,
         index' = [index EXCEPT ![k] = Len(HeapAfter)],
         HeapAfter' = IF valid /\ ~ OpenAfter THEN Append(HeapAfter, k) ELSE HeapAfter,
         Counted' = IF valid THEN Counted + 1 ELSE Counted,
         OpenAfter' = ~ valid,
         ReplyAfter' = [outcome |-> IF valid THEN "true" ELSE "throws", rows |-> {}]
  PROVE  One!Insert(T, k, valid)
<1> DEFINE opened == {t \in {T} : OpenAfter}
<1>1. /\ OfT(Counted)[T] < MaxCalls /\ OfT(index)[T] = index /\ OfT(HeapAfter)[T] = HeapAfter
      /\ (T \in opened) = OpenAfter
  BY DEF OfT
<1>2. One!NextPos(T) = Len(HeapAfter) /\ (One!Opens(T) <=> ~ OpenAfter)
  BY <1>1 DEF One!NextPos, One!Opens
<1>3. OfT(index)' = [OfT(index) EXCEPT ![T][k] = Len(HeapAfter)]
  <2>1. [OfT(index) EXCEPT ![T][k] = Len(HeapAfter)]
          = [t \in {T} |-> [index EXCEPT ![k] = Len(HeapAfter)]]
    BY DEF OfT
  <2> QED BY <2>1 DEF OfT
<1>4. CASE valid
  <2>1. OfT(HeapAfter)' = One!Appended(T, k)
    <3>1. CASE OpenAfter
      BY <1>2, <1>4, <3>1 DEF One!Appended, OfT
    <3>2. CASE ~ OpenAfter
      BY <1>2, <1>4, <3>2 DEF One!Appended, OfT
    <3> QED BY <3>1, <3>2
  <2>2. OfT(Counted)' = One!Counted(T)
    BY <1>4 DEF One!Counted, OfT, Counted
  <2>3. opened' = opened \ {T}
    BY <1>4
  <2>4. One!Returns("true")
    BY <1>4 DEF One!Returns
  <2> QED BY <1>1, <1>2, <1>3, <1>4, <2>1, <2>2, <2>3, <2>4
         DEF One!Insert, One!Refused, Counted, One!NoEntry, NoEntry, OfT
<1>5. CASE ~ valid
  <2>1. UNCHANGED <<OfT(HeapAfter), OfT(Counted)>>
    BY <1>5 DEF OfT, Counted
  <2>2. opened' = One!LeftOpen(T)
    BY <1>5 DEF One!LeftOpen
  <2>3. One!Returns("throws")
    BY <1>5 DEF One!Returns
  <2> QED BY <1>1, <1>2, <1>3, <1>5, <2>1, <2>2, <2>3
         DEF One!Insert, One!Refused, Counted, One!NoEntry, NoEntry, OfT
<1> QED BY <1>4, <1>5

\* A search that ends at the index.
LEMMA FindsNoEntry ==
  ASSUME NEW k \in Key, index[k] = NoEntry,
         UNCHANGED <<HeapAfter, index, Counted, OpenAfter>>,
         ReplyAfter' = [outcome |-> "response", rows |-> {}]
  PROVE  One!Search(T, k)
<1>1. T \in One!Matching(T) /\ OfT(index)[T][k] = NoEntry
  BY DEF One!Matching, OfT
<1>2. One!Responds({})
  BY DEF One!Responds
<1> QED BY <1>1, <1>2 DEF One!Search, One!disk, Counted, One!NoEntry, NoEntry, OfT

\* A search that reads the record.
LEMMA ReadsRow ==
  ASSUME NEW k \in Key, index[k] \in Nat, HeapAfter \in Seq(Key), OpenAfter \in BOOLEAN,
         UNCHANGED <<HeapAfter, index, Counted>>, OpenAfter' = FALSE,
         ReplyAfter' = [outcome |-> "response",
                        rows |-> {IF ~ OpenAfter /\ index[k] < Len(HeapAfter)
                                  THEN HeapAfter[index[k] + 1] ELSE Blank}]
  PROVE  One!Search(T, k)
<1> DEFINE opened == {t \in {T} : OpenAfter}
<1>1. T \in One!Matching(T) /\ OfT(index)[T][k] = index[k] /\ OfT(HeapAfter)[T] = HeapAfter
      /\ (T \in opened) = OpenAfter /\ opened' = opened \ {T}
  BY DEF One!Matching, OfT
<1>2. Len(HeapAfter) \in Nat
  OBVIOUS
<1>3. One!RowAt(T, index[k], T \in opened)
        = IF ~ OpenAfter /\ index[k] < Len(HeapAfter) THEN HeapAfter[index[k] + 1] ELSE Blank
  BY <1>1, <1>2 DEF One!RowAt
<1>4. One!Responds({One!RowAt(T, index[k], T \in opened)})
  BY <1>3 DEF One!Responds
<1>5. index[k] # NoEntry
  BY DEF NoEntry
<1> QED BY <1>1, <1>4, <1>5 DEF One!Search, One!disk, Counted, One!NoEntry, NoEntry, OfT

-----------------------------------------------------------------------------
\* The same of the next state.
LEMMA ViewsAfter == ViewIdle' /\ \A c \in Thread : ViewOf(c)'
<1>1. ViewIdle'
  BY ViewWhenIdle, PTL
<1>2. (\A c \in Thread : ViewOf(c))'
  BY ViewInCall, PTL
<1> QED BY <1>1, <1>2

\* add and search are operations of Engine.
LEMMA OperationsAreNext ==
  ASSUME NEW k \in Key,
         \/ One!Insert(T, k, TRUE) \/ One!Insert(T, k, FALSE) \/ One!Search(T, k)
  PROVE  One!Next
BY DEF One!Next

\* Each step of a call is an operation, or Engine does not see it.
LEMMA StepIsOperation ==
  ASSUME IInv, SerialInv, serial, (IInv /\ SerialInv /\ serial)', NEW c \in Thread,
         \/ Begin(c)
         \/ NextPos(c) \/ Look(c) \/ Enter(c) \/ Rebuild(c)
         \/ OpenApp(c) \/ Write(c) \/ CloseApp(c) \/ LoadCount(c) \/ StoreCount(c)
         \/ Find(c) \/ OpenIn(c) \/ Seek(c) \/ Read(c) \/ CloseIn(c)
  PROVE  OperationOrStutter
<1> DEFINE me == call[c]
<1>1. /\ call \in [Thread -> CallState] /\ me \in CallState /\ count \in Nat /\ calls \in 0..MaxCalls
      /\ stream \in StreamState /\ heap \in Seq(Key) /\ Len(heap) \in Nat
      /\ index \in [Key -> Nat \union {NoEntry}] /\ MaxCalls \in Nat
  BY CallsAssumption DEF IInv, TypeOK, CallState, StreamState
<1>2. heap \o <<>> = heap
  BY <1>1, ConcatEmptySeq
<1>3. ASSUME me.pc # "idle"
      PROVE  /\ Knows(c) /\ me.key \in Key /\ ViewOf(c)
             /\ \A d \in Thread \ {c} : call[d].pc = "idle"
  BY <1>3, ViewInCall DEF SerialInv, Alone, IInv, InCallHasKey
<1>4. ViewIdle /\ ViewIdle' /\ ViewOf(c)'
  BY ViewWhenIdle, ViewsAfter
<1>5. ASSUME me.pc # "idle", call' = [call EXCEPT ![c] = Idle]
      PROVE  \A d \in Thread : call'[d].pc = "idle"
  BY <1>1, <1>3, <1>5 DEF Idle
<1>6. CASE Begin(c)
  <2>1. /\ \A d \in Thread : call[d].pc = "idle"
        /\ call'[c].pc \in {"next_pos", "find"}
        /\ UNCHANGED <<heap, indexFiles, count, stream, reply>>
        /\ stream.buffer = <<>>
    BY <1>1, <1>6 DEF Begin, At, SerialInv, Idle
  <2> QED BY <1>1, <1>2, <1>4, <2>1, Stutters DEF ViewIdle, ViewOf, Effective, OperationOrStutter
<1>7. CASE NextPos(c)
  <2>1. /\ me.pc = "next_pos" /\ call'[c].pc = "look"
        /\ UNCHANGED <<heap, indexFiles, count, stream, reply>>
    BY <1>1, <1>7 DEF NextPos, At
  <2> QED BY <1>3, <1>4, <2>1, Stutters DEF ViewOf, Effective, OperationOrStutter
<1>8. CASE Look(c)
  <2>1. me.pc = "look" /\ UNCHANGED <<heap, indexFiles, count, stream, calls>>
    BY <1>8 DEF Look, At
  <2>2. CASE index[me.key] # NoEntry
    <3>1. call' = [call EXCEPT ![c] = Idle] /\ reply' = [outcome |-> "throws", rows |-> {}]
      BY <1>8, <2>2 DEF Look, Return
    <3>2. UNCHANGED <<HeapAfter, Counted, OpenAfter>> /\ ReplyAfter' = reply' /\ Counted = count
      BY <1>2, <1>3, <1>4, <1>5, <2>1, <3>1 DEF ViewIdle, ViewOf, Effective, Knows
    <3>3. Counted < MaxCalls
      BY <1>1, <1>3, <2>1, <3>2 DEF Knows
    <3> QED BY <1>3, <2>1, <2>2, <3>1, <3>2, <3>3, RefusesKey, OperationsAreNext
           DEF OperationOrStutter
  <2>3. CASE index[me.key] = NoEntry
    <3>1. call'[c] = [me EXCEPT !.pc = "enter"] /\ UNCHANGED reply
      BY <1>1, <1>8, <2>3 DEF Look, Go
    <3>2. call'[c].pc = "enter"
      BY <1>1, <3>1 DEF CallState
    <3> QED BY <1>3, <1>4, <2>1, <3>1, <3>2, Stutters DEF ViewOf, Effective, OperationOrStutter
  <2> QED BY <2>2, <2>3
<1>20. ASSUME NEW pc \in {"rebuild", "open"}, NEW exact, WriteIndex(c, exact, pc),
              me.pc \in {"enter", "rebuild"}
       PROVE  /\ index' = exact /\ call'[c].pc = pc
              /\ call'[c].valid = me.valid /\ call'[c].key = me.key
  <2>1. index' = exact
    BY <1>3, <1>20 DEF WriteIndex, Knows
  <2>2. call'[c] = [me EXCEPT !.pc = pc, !.stale = FALSE]
    BY <1>20 DEF WriteIndex
  <2> QED BY <1>1, <2>1, <2>2 DEF CallState
<1>9. CASE Enter(c)
  <2>1. /\ me.pc = "enter" /\ UNCHANGED <<heap, count, stream, calls, reply>>
    BY <1>9 DEF Enter, At
  <2>2. /\ call'[c].pc \in {"rebuild", "open"} /\ call'[c].valid = me.valid
        /\ call'[c].key = me.key
        /\ index' = [index EXCEPT ![me.key] = me.pos]
    BY <1>9, <1>20, <2>1 DEF Enter, Entered
  <2>3. /\ me.pos = Len(heap) /\ stream.buffer = <<>> /\ index[me.key] = NoEntry
        /\ count < calls
    BY <1>3, <2>1 DEF Knows
  <2>4. /\ HeapAfter = heap /\ Counted = count /\ OpenAfter = (stream.mode # "closed")
    BY <1>2, <1>3, <2>1, <2>3 DEF ViewOf, Effective
  <2>5. /\ HeapAfter' = IF me.valid /\ stream.mode = "closed" THEN Append(heap, me.key) ELSE heap
        /\ Counted' = IF me.valid THEN count + 1 ELSE count
        /\ OpenAfter' = ~ me.valid
        /\ ReplyAfter' = [outcome |-> IF me.valid THEN "true" ELSE "throws", rows |-> {}]
    BY <1>2, <1>4, <2>1, <2>2, <2>3 DEF ViewOf, Effective
  <2>6. me.key \in Key /\ me.valid \in BOOLEAN /\ Counted < MaxCalls
    BY <1>1, <1>3, <2>1, <2>3, <2>4 DEF CallState
  <2>7. One!Insert(T, me.key, me.valid)
    BY <1>1, <2>1, <2>2, <2>3, <2>4, <2>5, <2>6, EntersKey
  <2>8. me.valid = TRUE \/ me.valid = FALSE
    BY <2>6
  <2> QED BY <2>6, <2>7, <2>8, OperationsAreNext DEF OperationOrStutter
<1>21. CASE Rebuild(c)
  <2>1. me.pc = "rebuild" /\ UNCHANGED <<heap, count, stream, calls, reply>>
    BY <1>21 DEF Rebuild, At
  <2>2. /\ call'[c].pc = "open" /\ call'[c].valid = me.valid /\ call'[c].key = me.key
        /\ index' = index
    BY <1>20, <1>21, <2>1 DEF Rebuild
  <2>3. UNCHANGED <<HeapAfter, Counted>>
    BY <1>3, <1>4, <2>1, <2>2 DEF ViewOf, Effective
  <2>4. UNCHANGED <<OpenAfter, ReplyAfter>>
    BY <1>3, <1>4, <2>1, <2>2 DEF ViewOf, Effective
  <2> QED BY <2>2, <2>3, <2>4, Stutters DEF OperationOrStutter
<1>10. CASE OpenApp(c)
  <2>1. /\ me.pc = "open" /\ UNCHANGED <<heap, indexFiles, count, calls, reply>>
        /\ call'[c] = [me EXCEPT !.pc = "write"] /\ stream' = Opened("app")
    BY <1>1, <1>10 DEF OpenApp, At, Go
  <2>2. call'[c].pc = "write" /\ call'[c].valid = me.valid /\ call'[c].key = me.key
    BY <1>1, <2>1 DEF CallState
  <2>3. stream.buffer = <<>> /\ stream'.buffer = <<>> /\ (stream'.failed <=> stream.mode # "closed")
    BY <1>1, <1>3, <2>1 DEF Knows, Opened, StreamState
  <2>4. UNCHANGED <<HeapAfter, Counted>>
    <3>1. HeapAfter = IF me.valid /\ stream.mode = "closed" THEN Append(heap, me.key) ELSE heap
      BY <1>2, <1>3, <2>1, <2>3 DEF ViewOf
    <3>2. HeapAfter' = IF me.valid /\ stream.mode = "closed" THEN Append(heap, me.key) ELSE heap
      BY <1>2, <1>4, <2>1, <2>2, <2>3 DEF ViewOf
    <3>3. UNCHANGED Counted
      BY <1>3, <1>4, <2>1, <2>2 DEF ViewOf, Effective
    <3> QED BY <3>1, <3>2, <3>3
  <2>5. UNCHANGED <<OpenAfter, ReplyAfter>>
    BY <1>3, <1>4, <2>1, <2>2 DEF ViewOf, Effective
  <2> QED BY <2>1, <2>4, <2>5, Stutters DEF OperationOrStutter
<1>11. CASE Write(c)
  <2>1. me.pc = "write" /\ UNCHANGED <<heap, indexFiles, count, calls>>
    BY <1>11 DEF Write, At
  <2>2. /\ stream.buffer = <<>> /\ stream.mode # "closed"
        /\ ~ stream.failed => stream.mode = "app"
    BY <1>3, <2>1 DEF Knows, Closing
  <2>3. CASE me.valid
    <3>1. call'[c] = [me EXCEPT !.pc = "close"] /\ UNCHANGED reply /\ stream' = Written(me.key)
      BY <1>1, <1>11, <2>3 DEF Write, Go
    <3>2. call'[c].pc = "close" /\ call'[c].valid = me.valid
      BY <1>1, <3>1 DEF CallState
    <3>3. stream'.buffer = IF stream.failed THEN <<>> ELSE <<me.key>>
      <4>1. Append(<<>>, me.key) = <<me.key>>
        BY <1>3, <2>1
      <4>2. CASE stream.failed
        BY <1>1, <2>2, <3>1, <4>2 DEF Written, Usable, StreamState
      <4>3. CASE ~ stream.failed
        BY <1>1, <2>2, <3>1, <4>1, <4>3 DEF Written, Usable, StreamState
      <4> QED BY <4>2, <4>3
    <3>4. heap \o <<me.key>> = Append(heap, me.key)
      BY <1>1, <1>3, <2>1, AppendIsConcat
    <3>5. UNCHANGED <<HeapAfter, Counted>>
      <4>1. HeapAfter = IF stream.failed THEN heap ELSE Append(heap, me.key)
        BY <1>2, <1>3, <2>1, <2>2, <2>3 DEF ViewOf
      <4>2. HeapAfter' = heap' \o stream'.buffer
        BY <1>4, <3>2 DEF ViewOf
      <4>3. UNCHANGED Counted
        BY <1>3, <1>4, <2>1, <3>2 DEF ViewOf, Effective
      <4> QED BY <1>2, <2>1, <3>3, <3>4, <4>1, <4>2, <4>3
    <3>6. UNCHANGED <<OpenAfter, ReplyAfter>>
      BY <1>3, <1>4, <2>1, <3>1, <3>2 DEF ViewOf, Effective
    <3> QED BY <2>1, <3>5, <3>6, Stutters DEF OperationOrStutter
  <2>4. CASE ~ me.valid
    <3>1. /\ call' = [call EXCEPT ![c] = Idle] /\ UNCHANGED stream
          /\ reply' = [outcome |-> "throws", rows |-> {}]
      BY <1>11, <2>4 DEF Write, Return
    <3>2. UNCHANGED <<HeapAfter, Counted, OpenAfter, ReplyAfter>>
      BY <1>2, <1>3, <1>4, <1>5, <2>1, <2>2, <2>4, <3>1 DEF ViewIdle, ViewOf, Effective
    <3> QED BY <2>1, <3>2, Stutters DEF OperationOrStutter
  <2> QED BY <2>3, <2>4
<1>12. CASE CloseApp(c)
  <2>1. /\ me.pc = "close" /\ UNCHANGED <<indexFiles, count, calls, reply>>
        /\ call'[c] = [me EXCEPT !.pc = "count"] /\ stream' = Closed
        /\ heap' = heap \o stream.buffer
    BY <1>1, <1>12 DEF CloseApp, At, Go
  <2>2. call'[c].pc = "count" /\ call'[c].valid = me.valid
    BY <1>1, <2>1 DEF CallState
  <2>3. stream'.buffer = <<>>
    BY <1>1, <1>3, <2>1 DEF Knows, Closing, Closed, StreamState
  <2>4. heap' \o <<>> = heap'
    BY <1>1, <2>1, ConcatProperties, ConcatEmptySeq DEF StreamState
  <2>5. UNCHANGED <<HeapAfter, Counted>>
    BY <1>3, <1>4, <2>1, <2>2, <2>3, <2>4 DEF ViewOf, Effective
  <2>6. UNCHANGED <<OpenAfter, ReplyAfter>>
    BY <1>3, <1>4, <2>1, <2>2 DEF ViewOf, Effective
  <2> QED BY <2>1, <2>5, <2>6, Stutters DEF OperationOrStutter
<1>13. CASE LoadCount(c)
  <2>1. /\ me.pc = "count" /\ UNCHANGED <<heap, indexFiles, count, stream, reply>>
        /\ call'[c] = [me EXCEPT !.pc = "store", !.seen = count]
    BY <1>1, <1>13 DEF LoadCount, At
  <2>2. call'[c].pc = "store" /\ call'[c].valid = me.valid
    BY <1>1, <2>1 DEF CallState
  <2>3. UNCHANGED <<HeapAfter, Counted, OpenAfter, ReplyAfter>>
    BY <1>3, <1>4, <2>1, <2>2 DEF ViewOf, Effective
  <2> QED BY <2>1, <2>3, Stutters DEF OperationOrStutter
<1>14. CASE StoreCount(c)
  <2>1. /\ me.pc = "store" /\ UNCHANGED <<heap, indexFiles, stream>>
        /\ call' = [call EXCEPT ![c] = Idle] /\ count' = me.seen + 1
        /\ reply' = [outcome |-> "true", rows |-> {}]
    BY <1>14 DEF StoreCount, At, Return
  <2>2. me.seen = count /\ me.valid /\ stream.mode = "closed" /\ stream.buffer = <<>>
    BY <1>3, <2>1 DEF Knows
  <2>3. UNCHANGED <<HeapAfter, Counted, OpenAfter, ReplyAfter>>
    BY <1>2, <1>3, <1>4, <1>5, <2>1, <2>2 DEF ViewIdle, ViewOf, Effective
  <2> QED BY <2>1, <2>3, Stutters DEF OperationOrStutter
<1>15. CASE Find(c)
  <2>1. me.pc = "find" /\ UNCHANGED <<heap, indexFiles, count, stream>>
    BY <1>15 DEF Find, At
  <2>2. CASE index[me.key] = NoEntry
    <3>1. call' = [call EXCEPT ![c] = Idle] /\ reply' = [outcome |-> "response", rows |-> {}]
      BY <1>15, <2>2 DEF Find, Return
    <3>2. UNCHANGED <<HeapAfter, Counted, OpenAfter>> /\ ReplyAfter' = reply'
      BY <1>2, <1>3, <1>4, <1>5, <2>1, <3>1 DEF ViewIdle, ViewOf, Effective, Knows
    <3> QED BY <1>3, <2>1, <2>2, <3>1, <3>2, FindsNoEntry, OperationsAreNext
           DEF OperationOrStutter
  <2>3. CASE index[me.key] # NoEntry
    <3>1. call'[c] = [me EXCEPT !.pc = "open_in", !.pos = index[me.key]] /\ UNCHANGED reply
      BY <1>1, <1>15, <2>3 DEF Find
    <3>2. call'[c].pc = "open_in"
      BY <1>1, <3>1 DEF CallState
    <3>3. UNCHANGED <<HeapAfter, Counted, OpenAfter, ReplyAfter>>
      BY <1>3, <1>4, <2>1, <3>1, <3>2 DEF ViewOf, Effective
    <3> QED BY <2>1, <3>3, Stutters DEF OperationOrStutter
  <2> QED BY <2>2, <2>3
<1>16. CASE OpenIn(c)
  <2>1. /\ me.pc = "open_in" /\ UNCHANGED <<heap, indexFiles, count, reply>>
        /\ call'[c] = [me EXCEPT !.pc = "seek"] /\ stream' = Opened("in")
    BY <1>1, <1>16 DEF OpenIn, At, Go
  <2>2. call'[c].pc = "seek"
    BY <1>1, <2>1 DEF CallState
  <2>3. stream'.buffer = stream.buffer /\ stream'.failed = (stream.mode # "closed")
    BY <1>1, <1>3, <2>1 DEF Knows, Opened, StreamState
  <2>4. UNCHANGED HeapAfter
    <3>1. HeapAfter = heap \o stream.buffer
      BY <1>3, <2>1 DEF ViewOf
    <3>2. HeapAfter' = heap' \o stream'.buffer
      BY <1>4, <2>2 DEF ViewOf
    <3> QED BY <2>1, <2>3, <3>1, <3>2
  <2>5. UNCHANGED OpenAfter
    BY <1>3, <1>4, <2>1, <2>2, <2>3 DEF ViewOf, Effective
  <2>6. UNCHANGED <<Counted, ReplyAfter>>
    BY <1>3, <1>4, <2>1, <2>2 DEF ViewOf, Effective
  <2> QED BY <2>1, <2>4, <2>5, <2>6, Stutters DEF OperationOrStutter
<1>17. CASE Seek(c)
  <2>1. /\ me.pc = "seek" /\ UNCHANGED <<heap, indexFiles, count, reply>>
        /\ call'[c] = [me EXCEPT !.pc = "read"]
    BY <1>1, <1>17 DEF Seek, At, Go
  <2>2. call'[c].pc = "read"
    BY <1>1, <2>1 DEF CallState
  <2>3. stream.mode # "closed"
    BY <1>3, <2>1 DEF Knows, Closing
  <2>4. CASE stream.failed
    <3>1. stream' = stream
      BY <1>17, <2>4 DEF Seek
    <3>2. UNCHANGED <<HeapAfter, Counted, OpenAfter, ReplyAfter>>
      BY <1>3, <1>4, <2>1, <2>2, <3>1 DEF ViewOf, Effective
    <3> QED BY <2>1, <3>2, Stutters DEF OperationOrStutter
  <2>5. CASE ~ stream.failed
    <3>1. stream' = [stream EXCEPT !.at = me.pos]
      BY <1>17, <2>3, <2>5 DEF Seek
    <3>2. stream'.buffer = stream.buffer /\ ~ stream'.failed
      BY <1>1, <2>5, <3>1 DEF StreamState
    <3>3. UNCHANGED HeapAfter
      BY <1>3, <1>4, <2>1, <2>2, <3>2 DEF ViewOf
    <3>4. OpenAfter = FALSE /\ OpenAfter' = FALSE
      BY <1>1, <1>3, <1>4, <2>1, <2>2, <2>5, <3>2 DEF ViewOf, Effective, StreamState, IInv, TypeOK
    <3>5. UNCHANGED <<Counted, ReplyAfter>>
      BY <1>3, <1>4, <2>1, <2>2 DEF ViewOf, Effective
    <3> QED BY <2>1, <3>3, <3>4, <3>5, Stutters DEF OperationOrStutter
  <2> QED BY <2>4, <2>5
<1>18. CASE Read(c)
  <2> DEFINE got == Usable("in") /\ stream.at < Len(heap)
             row == IF got THEN heap[stream.at + 1] ELSE Blank
  <2>1. /\ me.pc = "read" /\ UNCHANGED <<heap, indexFiles, count, reply>>
        /\ call'[c] = [me EXCEPT !.pc = "close_in", !.row = row]
        /\ stream' = IF got THEN [stream EXCEPT !.at = @ + 1] ELSE [stream EXCEPT !.failed = TRUE]
    BY <1>1, <1>18 DEF Read, At
  <2>2. /\ stream.buffer = <<>> /\ index[me.key] = me.pos
        /\ ~ stream.failed => stream.mode = "in" /\ stream.at = me.pos
    BY <1>3, <2>1 DEF Knows
  <2>3. row = IF ~ stream.failed /\ index[me.key] < Len(heap)
              THEN heap[index[me.key] + 1] ELSE Blank
    BY <2>2 DEF Usable
  <2> HIDE DEF got, row
  <2>4. call'[c].pc = "close_in" /\ call'[c].row = row
    BY <1>1, <2>1 DEF CallState
  <2>5. stream'.buffer = <<>>
    BY <1>1, <2>1, <2>2 DEF StreamState
  <2>6. HeapAfter = heap /\ OpenAfter = stream.failed /\ Counted = count
    BY <1>2, <1>3, <2>1, <2>2 DEF ViewOf, Effective
  <2>7. /\ HeapAfter' = heap /\ OpenAfter' = FALSE /\ Counted' = count
        /\ ReplyAfter' = [outcome |-> "response", rows |-> {row}]
    BY <1>2, <1>4, <2>1, <2>4, <2>5 DEF ViewOf, Effective
  <2>8. me.key \in Key /\ index[me.key] \in Nat /\ stream.failed \in BOOLEAN
    BY <1>1, <1>3, <2>1, <2>2 DEF CallState, StreamState
  <2>9. One!Search(T, me.key)
    BY <1>1, <2>1, <2>3, <2>6, <2>7, <2>8, ReadsRow
  <2> QED BY <2>8, <2>9, OperationsAreNext DEF OperationOrStutter
<1>19. CASE CloseIn(c)
  <2>1. /\ me.pc = "close_in" /\ UNCHANGED <<indexFiles, count>> /\ stream' = Closed
        /\ call' = [call EXCEPT ![c] = Idle] /\ heap' = heap \o stream.buffer
        /\ reply' = [outcome |-> "response", rows |-> {me.row}]
    BY <1>19 DEF CloseIn, At, Return
  <2>2. stream.buffer = <<>> /\ stream'.mode = "closed"
    BY <1>1, <1>3, <2>1 DEF Knows, Closing, Closed, StreamState
  <2>3. UNCHANGED <<HeapAfter, Counted, OpenAfter, ReplyAfter>>
    BY <1>2, <1>3, <1>4, <1>5, <2>1, <2>2 DEF ViewIdle, ViewOf, Effective
  <2> QED BY <2>1, <2>3, Stutters DEF OperationOrStutter
<1> QED BY <1>6, <1>7, <1>8, <1>9, <1>10, <1>11, <1>12, <1>13, <1>14, <1>15, <1>16, <1>17,
           <1>18, <1>19, <1>21

\* How the requests come is chosen once.
LEMMA SerialStaysSerial ==
  ASSUME [Next]_vars, serial
  PROVE  serial'
BY DEF Next, vars, Begin, NextPos, Look, Enter, Rebuild, OpenApp, Write, CloseApp, LoadCount, StoreCount,
       Find, OpenIn, Seek, Read, CloseIn

\* Of requests that come one at a time, every step of add and search is an
\* operation of Engine or none: half-done calls never show.
THEOREM SerialRefinement == Spec => SerialImplementsEngine
<1>1. ASSUME IInv, SerialInv, (IInv /\ SerialInv)', [Next]_vars
      PROVE  [serial => OperationOrStutter]_vars
  <2> SUFFICES ASSUME serial, Next
               PROVE  OperationOrStutter
    BY <1>1
  <2>1. serial'
    BY SerialStaysSerial
  <2>2. PICK c \in Thread :
          \/ Begin(c)
          \/ NextPos(c) \/ Look(c) \/ Enter(c) \/ Rebuild(c)
          \/ OpenApp(c) \/ Write(c) \/ CloseApp(c) \/ LoadCount(c) \/ StoreCount(c)
          \/ Find(c) \/ OpenIn(c) \/ Seek(c) \/ Read(c) \/ CloseIn(c)
    BY DEF Next
  <2> QED BY <1>1, <2>1, <2>2, StepIsOperation
<1>2. (IInv /\ SerialInv) /\ (IInv /\ SerialInv)' /\ [Next]_vars
        => [serial => OperationOrStutter]_vars
  BY <1>1
<1> QED BY <1>2, SerialInvariance, PTL DEF Spec, SerialImplementsEngine

==============================================================================
