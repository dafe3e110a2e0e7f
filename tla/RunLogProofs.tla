----------------------------- MODULE RunLogProofs -----------------------------
(***************************************************************************)
(* Theorems about RunLog, for any writers, operations, streams and         *)
(* clients: the event log implements AppendOnlyLog, versions have no gaps, *)
(* and transactions wait for each other in a circle in one case only.      *)
(***************************************************************************)
EXTENDS RunLog, FiniteSetTheorems, SequenceTheorems, WellFoundedInduction, TLAPS

USE RunLogConstants

-----------------------------------------------------------------------------
(* The inductive invariant.                                                *)

RowType == [seq: Nat, event: Events]
TxType  == [pc: PCs, op: Ops \cup {NoOp}, at: Replicas \cup {None}, value: Values,
            version: Nat, row: Seq(RowType)]

\* The transactions, the streams and the locks have their types.
Typed ==
    /\ tx \in [Writers -> TxType]
    /\ runState \in [value: Values, version: Nat]
    /\ stream \in [Streams -> [value: Values, version: Nat]]
    /\ runLock \in Writers \cup {None}
    /\ stateLock \in Writers \cup {None} /\ eventLock \in Writers \cup {None}
    /\ streamLock \in [Streams -> Writers \cup {None}]

Size == Cardinality(DOMAIN events)

\* The log is numbered without a gap.
LogDense == /\ Size \in Nat /\ DOMAIN events = 1..Size
            /\ events = [n \in 1..Size |-> events[n]]

\* A transaction holds each lock from the statement that takes it to its end.
HoldsStream(t, s) ==
    /\ tx[t].pc \in {"version", "logged", "event"}
    /\ Versioned(tx[t].op) /\ tx[t].op.stream = s

LocksHeld ==
    \A t \in Writers :
        /\ stateLock = t => InFlight(t)
        /\ tx[t].pc = "value" => Versioned(tx[t].op)
        /\ \A s \in Streams : streamLock[s] = t <=> HoldsStream(t, s)
        /\ eventLock = t <=> tx[t].pc \in {"logged", "event"}

\* Who has the run's row FOR UPDATE shares it with nobody.
RowHeld ==
    \A t \in Writers :
        /\ runLock = t <=> InFlight(t) /\ tx[t].op.kind = "lifecycle"
        /\ runLock = t => \A u \in Writers \ {t} : ~SharesRun(u)

\* The version a transaction has is the next one of its stream.
VersionIsNext ==
    \A t \in Writers, s \in Streams :
        HoldsStream(t, s) => tx[t].version = stream[s].version + 1

\* Its row is the next one of the log.
RowIsNext ==
    \A t \in Writers : tx[t].pc = "event" =>
        tx[t].row[1] = [seq |-> Size + 1, event |-> EventOf(t)]

IInv == /\ Typed /\ LogDense /\ LocksHeld /\ RowHeld
        /\ VersionIsNext /\ RowIsNext /\ VersionsGapFree
-----------------------------------------------------------------------------
(* What a statement does to the transaction of its writer.                 *)

\* Only the transaction of t goes on.
OnlyTx(t) == /\ tx' \in [Writers -> TxType]
             /\ \A u \in Writers \ {t} : tx'[u] = tx[u]

\* An operation has a stream and keys, and makes a state of a state.
LEMMA OpFacts ==
    ASSUME NEW op \in Ops
    PROVE  /\ op.kind \in Kinds /\ op.stream \in Streams /\ op.keys \in SUBSET Keys
           /\ \A t \in Writers, old \in Values : Apply(t, op, old) \in Values
    BY DEF OpType, Apply, Values

\* No value is a value.
LEMMA BlankFacts == Blank \in Values
    BY DEF Blank, Values

\* A transaction starts.
LEMMA StartStep ==
    ASSUME Typed, NEW t \in Writers, NEW op \in Ops, NEW at \in Replicas,
           NEW value \in Values, NEW pc \in {"value", "version"}, Starts(t, op, at, value, pc)
    PROVE  /\ OnlyTx(t) /\ tx[t].pc = "idle"
           /\ tx'[t].pc = pc /\ tx'[t].op = op /\ tx'[t].value = value
<1> DEFINE c == [pc |-> pc, op |-> op, at |-> at, value |-> value, version |-> 0, row |-> <<>>]
<1>1. c \in TxType /\ c.pc = pc /\ c.op = op /\ c.value = value
    BY DEF TxType, PCs
<1>2. tx[t].pc = "idle" /\ tx' = [tx EXCEPT ![t] = c]
    BY DEF Starts
<1> HIDE DEF c
<1> QED BY <1>1, <1>2 DEF Typed, OnlyTx

\* It records a version.
LEMMA VersionStep ==
    ASSUME Typed, NEW t \in Writers, NEW n \in Nat,
           tx' = [tx EXCEPT ![t].pc = "version", ![t].version = n]
    PROVE  /\ OnlyTx(t) /\ tx'[t].pc = "version" /\ tx'[t].op = tx[t].op /\ tx'[t].version = n
           /\ tx'[t].value = tx[t].value
<1> DEFINE k == [tx[t] EXCEPT !.pc = "version"]
           c == [k EXCEPT !.version = n]
<1>1. tx[t] \in TxType
    BY DEF Typed
<1>2. k \in TxType /\ k.pc = "version" /\ k.op = tx[t].op /\ k.value = tx[t].value
    BY <1>1 DEF TxType, PCs
<1> HIDE DEF k
<1>3. c \in TxType /\ c.pc = "version" /\ c.op = tx[t].op /\ c.version = n /\ c.value = tx[t].value
    BY <1>2 DEF TxType
<1>4. tx' = [tx EXCEPT ![t] = c]
    BY DEF k
<1> HIDE DEF c
<1> QED BY <1>3, <1>4 DEF Typed, OnlyTx

\* It has the lock of the log.
LEMMA LoggedStep ==
    ASSUME Typed, NEW t \in Writers, tx' = [tx EXCEPT ![t].pc = "logged"]
    PROVE  /\ OnlyTx(t) /\ tx'[t].pc = "logged" /\ tx'[t].op = tx[t].op
           /\ tx'[t].version = tx[t].version /\ tx'[t].value = tx[t].value
<1> DEFINE c == [tx[t] EXCEPT !.pc = "logged"]
<1>1. /\ c \in TxType /\ c.pc = "logged"
      /\ c.op = tx[t].op /\ c.version = tx[t].version /\ c.value = tx[t].value
  <2>1. tx[t] \in TxType
      BY DEF Typed
  <2> QED BY <2>1 DEF TxType, PCs
<1>2. tx' = [tx EXCEPT ![t] = c]
    OBVIOUS
<1> HIDE DEF c
<1> QED BY <1>1, <1>2 DEF Typed, OnlyTx

\* It appends its event.
LEMMA EventStep ==
    ASSUME Typed, NEW t \in Writers, NEW row \in RowType,
           tx' = [tx EXCEPT ![t].pc = "event", ![t].row = <<row>>]
    PROVE  /\ OnlyTx(t) /\ tx'[t].pc = "event" /\ tx'[t].op = tx[t].op
           /\ tx'[t].version = tx[t].version /\ tx'[t].value = tx[t].value /\ tx'[t].row = <<row>>
<1> DEFINE k == [tx[t] EXCEPT !.pc = "event"]
           rows == <<row>>
           c == [k EXCEPT !.row = rows]
<1>1. tx[t] \in TxType
    BY DEF Typed
<1>2. /\ k \in TxType /\ k.pc = "event" /\ k.op = tx[t].op
      /\ k.version = tx[t].version /\ k.value = tx[t].value
    BY <1>1 DEF TxType, PCs
<1>3. rows \in Seq(RowType)
    OBVIOUS
<1>4. tx' = [tx EXCEPT ![t] = c]
    OBVIOUS
<1> HIDE DEF k, rows
<1>5. /\ c \in TxType /\ c.pc = "event" /\ c.op = tx[t].op
      /\ c.version = tx[t].version /\ c.value = tx[t].value /\ c.row = rows
    BY <1>2, <1>3 DEF TxType
<1> HIDE DEF c
<1>6. c \in TxType
    BY <1>5
<1>7. OnlyTx(t) /\ tx'[t] = c
    BY <1>4, <1>6 DEF Typed, OnlyTx
<1> QED BY <1>5, <1>7 DEF rows

\* It ends.
LEMMA OverStep ==
    ASSUME Typed, NEW t \in Writers, tx' = [tx EXCEPT ![t].pc = "over"]
    PROVE  OnlyTx(t) /\ tx'[t].pc = "over" /\ EventOf(t)' = EventOf(t) /\ tx'[t].op = tx[t].op
<1> DEFINE c == [tx[t] EXCEPT !.pc = "over"]
<1>1. /\ c \in TxType /\ c.pc = "over"
      /\ c.op = tx[t].op /\ c.version = tx[t].version /\ c.value = tx[t].value
  <2>1. tx[t] \in TxType
      BY DEF Typed
  <2> QED BY <2>1 DEF TxType, PCs
<1>2. tx' = [tx EXCEPT ![t] = c]
    OBVIOUS
<1> HIDE DEF c
<1> QED BY <1>1, <1>2 DEF Typed, OnlyTx, EventOf

\* The number of the next event.
LEMMA NextSeqIsNext ==
    ASSUME LogDense
    PROVE  NextSeq = Size + 1
<1> DEFINE S == (1..Size) \cup {0}
<1>1. Size \in S /\ \A y \in S : Size >= y
    BY DEF LogDense
<1>2. \A x \in S : (\A y \in S : x >= y) => x = Size
    BY <1>1 DEF LogDense
<1>3. Max(S) = Size
    BY <1>1, <1>2 DEF Max
<1> QED BY <1>3 DEF NextSeq, LogDense
-----------------------------------------------------------------------------
(* The steps.                                                              *)

\* A transaction starts.
LEMMA StartsIInv ==
    ASSUME IInv, NEW t \in Writers, NEW op \in Ops, NEW at \in Replicas,
           WriteState(t, op, at) \/ ReadForSave(t, op, at) \/ Snapshot(t, op, at)
               \/ LockRun(t, op, at) \/ Other(t, op, at)
    PROVE  IInv'
<1> USE DEF IInv
<1>1. /\ UNCHANGED <<runState, stream, versions, events, streamLock, eventLock>>
      /\ stateLock' = stateLock \/ stateLock' = t
      /\ OnlyTx(t) /\ tx[t].pc = "idle" /\ tx'[t].op = op
      /\ \/ tx'[t].pc = "value" /\ Versioned(op) /\ runLock' = runLock
         \/ tx'[t].pc = "version" /\ op.kind = "other" /\ runLock' = runLock
         \/ /\ tx'[t].pc = "version" /\ op.kind = "lifecycle"
            /\ runLock = None /\ runLock' = t /\ \A u \in Writers : ~SharesRun(u)
  <2>1. CASE WriteState(t, op, at)
    <3>1. Apply(t, op, runState.value) \in Values
        BY OpFacts DEF Typed
    <3> QED BY <2>1, <3>1, StartStep DEF WriteState, Versioned, Updates
  <2>2. CASE ReadForSave(t, op, at)
    <3>1. (IF op.stream = "run" THEN runState ELSE stream[op.stream]).value \in Values
        BY OpFacts DEF Typed
    <3> QED BY <2>2, <3>1, StartStep DEF ReadForSave, locks, Versioned
  <2>3. CASE Snapshot(t, op, at)
    <3>1. Apply(t, op, Blank) \in Values
        BY OpFacts, BlankFacts
    <3> QED BY <2>3, <3>1, StartStep DEF Snapshot, locks, Versioned
  <2>4. CASE Other(t, op, at)
      BY <2>4, StartStep, BlankFacts DEF Other, locks
  <2>5. CASE LockRun(t, op, at)
      BY <2>5, StartStep, BlankFacts DEF LockRun
  <2> QED BY <2>1, <2>2, <2>3, <2>4, <2>5
<1>2. \A u \in Writers, s \in Streams : HoldsStream(u, s)' <=> HoldsStream(u, s)
    BY <1>1 DEF HoldsStream, OnlyTx, Versioned
<1>3. Typed'
    BY <1>1 DEF Typed, OnlyTx
<1>4. LogDense' /\ VersionsGapFree'
    BY <1>1 DEF LogDense, Size, VersionsGapFree, VersionsOf
<1>5. LocksHeld'
    BY <1>1, <1>2 DEF LocksHeld, InFlight, OnlyTx
<1>6. VersionIsNext'
    BY <1>1, <1>2 DEF VersionIsNext, HoldsStream, OnlyTx
<1>7. RowIsNext'
    BY <1>1 DEF RowIsNext, EventOf, Size, OnlyTx
<1>8. RowHeld'
  <2>1. ~SharesRun(t) /\ ~SharesRun(t)' /\ ~InFlight(t) /\ InFlight(t)'
      BY <1>1 DEF SharesRun, InFlight, Versioned
  <2>2. \A u \in Writers \ {t} : /\ SharesRun(u)' <=> SharesRun(u)
                                 /\ InFlight(u)' <=> InFlight(u)
                                 /\ tx'[u].op = tx[u].op
      BY <1>1 DEF SharesRun, InFlight, OnlyTx
  <2>3. CASE runLock' = runLock /\ op.kind # "lifecycle"
      BY <1>1, <2>1, <2>2, <2>3 DEF RowHeld
  <2>4. CASE /\ op.kind = "lifecycle" /\ runLock = None /\ runLock' = t
             /\ \A u \in Writers : ~SharesRun(u)
      BY <1>1, <2>1, <2>2, <2>4 DEF RowHeld
  <2> QED BY <1>1, <2>3, <2>4 DEF Versioned
<1> QED BY <1>3, <1>4, <1>5, <1>6, <1>7, <1>8

\* It records a version.
LEMMA RecordIInv ==
    ASSUME IInv, NEW t \in Writers, RecordVersion(t)
    PROVE  IInv'
<1> USE DEF IInv
<1> DEFINE own == tx[t].op.stream
           new == stream[own].version + 1
<1>1. own \in Streams
    BY OpFacts DEF RecordVersion, Typed, TxType, NoOp
<1>2. /\ UNCHANGED <<runState, stream, versions, events, runLock, stateLock, eventLock>>
      /\ runLock = None
      /\ tx[t].pc = "value" /\ streamLock[own] = None /\ streamLock' = [streamLock EXCEPT ![own] = t]
      /\ tx' = [tx EXCEPT ![t].pc = "version", ![t].version = new]
    BY DEF RecordVersion
<1>3. new \in Nat
    BY <1>1 DEF Typed
<1>4. OnlyTx(t) /\ tx'[t].pc = "version" /\ tx'[t].op = tx[t].op /\ tx'[t].version = new
    BY <1>2, <1>3, VersionStep
<1>5. Versioned(tx'[t].op) /\ Versioned(tx[t].op)
    BY <1>2, <1>4 DEF LocksHeld
<1>6. /\ \A u \in Writers \ {t}, r \in Streams : HoldsStream(u, r)' <=> HoldsStream(u, r)
      /\ \A r \in Streams : HoldsStream(t, r)' <=> r = own
      /\ \A u \in Writers : ~HoldsStream(u, own)
    BY <1>1, <1>2, <1>4, <1>5 DEF HoldsStream, OnlyTx, LocksHeld
<1> HIDE DEF new, own
<1>7. Typed'
    BY <1>1, <1>2, <1>4 DEF Typed, OnlyTx
<1>8. LogDense' /\ VersionsGapFree'
    BY <1>2 DEF LogDense, Size, VersionsGapFree, VersionsOf
<1>9. LocksHeld'
  <2>1. streamLock'[own] = t /\ \A r \in Streams \ {own} : streamLock'[r] = streamLock[r]
      BY <1>1, <1>2 DEF Typed
  <2>2. \A u \in Writers, r \in Streams : streamLock'[r] = u <=> HoldsStream(u, r)'
    <3>1. \A r \in Streams : ~HoldsStream(t, r)
        BY <1>2 DEF HoldsStream
    <3>2. \A u \in Writers, r \in Streams : streamLock[r] = u <=> HoldsStream(u, r)
        BY DEF LocksHeld
    <3> QED BY <1>1, <1>6, <2>1, <3>1, <3>2
  <2>3. \A u \in Writers : /\ tx'[u].pc \in {"logged", "event"} <=> tx[u].pc \in {"logged", "event"}
                           /\ InFlight(u)' <=> InFlight(u)
                           /\ tx'[u].pc = "value" => tx[u].pc = "value" /\ tx'[u].op = tx[u].op
      BY <1>2, <1>4 DEF OnlyTx, InFlight
  <2>4. stateLock' = stateLock /\ eventLock' = eventLock
      BY <1>2
  <2>5. \A u \in Writers : /\ stateLock = u => InFlight(u)
                           /\ eventLock = u <=> tx[u].pc \in {"logged", "event"}
                           /\ tx[u].pc = "value" => Versioned(tx[u].op)
      BY DEF LocksHeld
  <2>6. \A u \in Writers : stateLock' = u => InFlight(u)'
      BY <2>3, <2>4, <2>5
  <2>7. \A u \in Writers : eventLock' = u <=> tx'[u].pc \in {"logged", "event"}
      BY <2>3, <2>4, <2>5
  <2>8. \A u \in Writers : tx'[u].pc = "value" => Versioned(tx'[u].op)
      BY <2>3, <2>5
  <2> QED BY <2>2, <2>6, <2>7, <2>8 DEF LocksHeld
<1>10. VersionIsNext'
  <2>1. tx'[t].version = stream[own].version + 1
      BY <1>4 DEF new, own
  <2> QED BY <1>2, <1>4, <1>6, <2>1 DEF VersionIsNext, OnlyTx
<1>11. RowIsNext'
    BY <1>2, <1>4 DEF RowIsNext, EventOf, Size, OnlyTx
<1>12. RowHeld'
  <2>1. \A u \in Writers : (InFlight(u)' <=> InFlight(u)) /\ tx'[u].op = tx[u].op
      BY <1>2, <1>4 DEF InFlight, OnlyTx
  <2>2. \A u \in Writers : runLock' # u
      BY <1>2
  <2> QED BY <1>2, <2>1, <2>2 DEF RowHeld
<1> QED BY <1>7, <1>8, <1>9, <1>10, <1>11, <1>12

\* It takes the lock of the log.
LEMMA LockLogIInv ==
    ASSUME IInv, NEW t \in Writers, LockLog(t)
    PROVE  IInv'
<1> USE DEF IInv
<1>1. /\ UNCHANGED <<runState, stream, versions, events, runLock, stateLock, streamLock>>
      /\ tx[t].pc = "version" /\ eventLock \in {None, t} /\ eventLock' = t
      /\ tx' = [tx EXCEPT ![t].pc = "logged"]
    BY DEF LockLog
<1>2. /\ OnlyTx(t) /\ tx'[t].pc = "logged" /\ tx'[t].op = tx[t].op
      /\ tx'[t].version = tx[t].version /\ tx'[t].value = tx[t].value
    BY <1>1, LoggedStep
<1>3. eventLock = None /\ \A u \in Writers : tx[u].pc \notin {"logged", "event"}
    BY <1>1 DEF LocksHeld
<1>4. \A u \in Writers, r \in Streams : HoldsStream(u, r)' <=> HoldsStream(u, r)
    BY <1>1, <1>2 DEF HoldsStream, OnlyTx
<1>5. \A u \in Writers : /\ InFlight(u)' <=> InFlight(u)
                         /\ SharesRun(u)' <=> SharesRun(u)
                         /\ tx'[u].op = tx[u].op
    BY <1>1, <1>2 DEF InFlight, SharesRun, OnlyTx
<1>6. Typed'
    BY <1>1, <1>2 DEF Typed, OnlyTx
<1>7. LogDense' /\ VersionsGapFree'
    BY <1>1 DEF LogDense, Size, VersionsGapFree, VersionsOf
<1>8. LocksHeld'
    BY <1>1, <1>2, <1>3, <1>4, <1>5 DEF LocksHeld, OnlyTx
<1>9. RowHeld'
    BY <1>1, <1>5 DEF RowHeld
<1>10. VersionIsNext'
    BY <1>1, <1>2, <1>4 DEF VersionIsNext, OnlyTx
<1>11. RowIsNext'
    BY <1>2, <1>3 DEF RowIsNext, OnlyTx
<1> QED BY <1>6, <1>7, <1>8, <1>9, <1>10, <1>11

\* It appends its event.
LEMMA AppendIInv ==
    ASSUME IInv, NEW t \in Writers, AppendEvent(t)
    PROVE  IInv'
<1> USE DEF IInv
<1> DEFINE row == [seq |-> NextSeq, event |-> EventOf(t)]
<1>1. tx[t].op \in Ops \cup {NoOp} /\ tx[t].version \in Nat /\ tx[t].value \in Values
    BY DEF Typed, TxType
<1>2. tx[t].op.kind \in Kinds /\ tx[t].op.stream \in Streams
    BY <1>1, OpFacts DEF NoOp, Kinds
<1>3. row \in RowType
    BY <1>1, <1>2, NextSeqIsNext DEF RowType, EventOf, Events, LogDense
<1>4. /\ UNCHANGED <<runState, stream, versions, events, locks>>
      /\ tx[t].pc = "logged" /\ runLock \in {None, t} /\ eventLock = t
      /\ tx' = [tx EXCEPT ![t].pc = "event", ![t].row = <<row>>]
    BY DEF AppendEvent, LocksHeld
<1>5. /\ OnlyTx(t) /\ tx'[t].pc = "event" /\ tx'[t].op = tx[t].op
      /\ tx'[t].version = tx[t].version /\ tx'[t].value = tx[t].value /\ tx'[t].row = <<row>>
    BY <1>3, <1>4, EventStep
<1>6. \A u \in Writers, r \in Streams : HoldsStream(u, r)' <=> HoldsStream(u, r)
    BY <1>4, <1>5 DEF HoldsStream, OnlyTx
<1>7. tx'[t].row[1] = [seq |-> Size + 1, event |-> EventOf(t)]
    BY <1>5, NextSeqIsNext
<1>8. EventOf(t)' = EventOf(t)
    BY <1>5 DEF EventOf
<1> HIDE DEF row
<1>9. Typed'
    BY <1>4, <1>5 DEF Typed, OnlyTx, locks
<1>10. LogDense' /\ VersionsGapFree'
    BY <1>4 DEF LogDense, Size, VersionsGapFree, VersionsOf
<1>11. LocksHeld'
    BY <1>4, <1>5, <1>6 DEF LocksHeld, InFlight, OnlyTx, locks
<1>12. VersionIsNext'
    BY <1>4, <1>5, <1>6 DEF VersionIsNext, OnlyTx
<1>13. RowIsNext'
  <2> SUFFICES ASSUME NEW u \in Writers, tx'[u].pc = "event"
               PROVE  tx'[u].row[1] = [seq |-> Size' + 1, event |-> EventOf(u)']
      BY DEF RowIsNext
  <2>1. u = t
      BY <1>4, <1>5 DEF LocksHeld, OnlyTx
  <2>2. Size' = Size
      BY <1>4 DEF Size
  <2> QED BY <1>7, <1>8, <2>1, <2>2
<1>14. RowHeld'
  <2>1. runLock' = runLock /\ \A u \in Writers : InFlight(u)' <=> InFlight(u)
      BY <1>4, <1>5 DEF InFlight, OnlyTx, locks
  <2>2. \A u \in Writers : tx'[u].op = tx[u].op /\ (u # t => (SharesRun(u)' <=> SharesRun(u)))
      BY <1>5 DEF SharesRun, OnlyTx
  <2> QED BY <1>4, <2>1, <2>2 DEF RowHeld
<1> QED BY <1>9, <1>10, <1>11, <1>12, <1>13, <1>14

\* A transaction that is over holds no lock.
LEMMA UnlockStep ==
    ASSUME Typed, LocksHeld, RowHeld, NEW t \in Writers, Unlock(t), OnlyTx(t), tx'[t].pc = "over"
    PROVE  LocksHeld' /\ RowHeld'
<1>1. /\ stateLock' = IF stateLock = t THEN None ELSE stateLock
      /\ streamLock' = [s \in Streams |-> IF streamLock[s] = t THEN None ELSE streamLock[s]]
      /\ eventLock' = IF eventLock = t THEN None ELSE eventLock
      /\ runLock' = IF runLock = t THEN None ELSE runLock
    BY DEF Unlock
<1>2. \A s \in Streams : ~HoldsStream(t, s)'
    BY DEF HoldsStream
<1>3. \A u \in Writers \ {t}, s \in Streams : HoldsStream(u, s)' <=> HoldsStream(u, s)
    BY DEF HoldsStream, OnlyTx
<1>4. LocksHeld'
    BY <1>1, <1>2, <1>3 DEF LocksHeld, InFlight, OnlyTx
<1>5. ~InFlight(t)' /\ ~SharesRun(t)'
    BY DEF InFlight, SharesRun
<1>6. \A u \in Writers \ {t} : /\ InFlight(u)' <=> InFlight(u)
                               /\ SharesRun(u)' <=> SharesRun(u)
                               /\ tx'[u].op = tx[u].op
    BY DEF InFlight, SharesRun, OnlyTx
<1>7. RowHeld'
    BY <1>1, <1>5, <1>6 DEF RowHeld
<1> QED BY <1>4, <1>7

\* The rows of the versions once e is the next one of its stream.
LEMMA NextVersion ==
    ASSUME Typed, VersionsGapFree, NEW e, e.stream \in Streams,
           e.version = stream[e.stream].version + 1,
           versions' = versions \cup {e},
           stream' = [stream EXCEPT ![e.stream] = [value |-> e.value, version |-> e.version]]
    PROVE  VersionsGapFree'
<1> SUFFICES ASSUME NEW s \in Streams
             PROVE  /\ {v.version : v \in VersionsOf(s)'} = 1..stream'[s].version
                    /\ \A v, w \in VersionsOf(s)' : v.version = w.version => v = w
                    /\ \A v \in VersionsOf(s)' : v.version = stream'[s].version
                                                     => v.value = stream'[s].value
    BY DEF VersionsGapFree
<1>1. /\ {v.version : v \in VersionsOf(s)} = 1..stream[s].version
      /\ \A v, w \in VersionsOf(s) : v.version = w.version => v = w
      /\ \A v \in VersionsOf(s) : v.version = stream[s].version => v.value = stream[s].value
    BY DEF VersionsGapFree
<1>2. CASE s # e.stream
    BY <1>1, <1>2 DEF VersionsOf, Typed
<1>3. CASE s = e.stream
  <2> DEFINE n == stream[s].version
  <2>1. n \in Nat
      BY DEF Typed
  <2>2. VersionsOf(s)' = VersionsOf(s) \cup {e}
      BY <1>3 DEF VersionsOf
  <2>3. stream'[s].version = n + 1 /\ stream'[s].value = e.value /\ e.version = n + 1
      BY <1>3 DEF Typed
  <2> HIDE DEF n
  <2>4. \A v \in VersionsOf(s) : v.version \in 1..n
      BY <1>1 DEF n
  <2>5. {v.version : v \in VersionsOf(s) \cup {e}} = 1..(n + 1)
    <3>1. {v.version : v \in VersionsOf(s) \cup {e}} = {v.version : v \in VersionsOf(s)} \cup {n + 1}
        BY <2>3
    <3>2. {v.version : v \in VersionsOf(s)} = 1..n
        BY <1>1 DEF n
    <3>3. 1..n \cup {n + 1} = 1..(n + 1)
        BY <2>1
    <3> QED BY <3>1, <3>2, <3>3
  <2>6. \A v, w \in VersionsOf(s) \cup {e} : v.version = w.version => v = w
      BY <1>1, <2>1, <2>3, <2>4
  <2>7. \A v \in VersionsOf(s) \cup {e} : v.version = n + 1 => v.value = e.value
      BY <2>1, <2>4
  <2> QED BY <2>2, <2>3, <2>5, <2>6, <2>7
<1> QED BY <1>2, <1>3

\* The log once a row is written at its end.
LEMMA NextRow ==
    ASSUME LogDense, NEW e,
           events' = [n \in DOMAIN events \cup {Size + 1} |-> IF n = Size + 1 THEN e ELSE events[n]]
    PROVE  LogDense' /\ Size' = Size + 1 /\ \A n \in 1..Size : events'[n] = events[n]
<1>1. Size \in Nat /\ DOMAIN events = 1..Size
    BY DEF LogDense
<1>2. DOMAIN events' = 1..(Size + 1)
    BY <1>1
<1>3. Size' = Size + 1
  <2> DEFINE n == Size + 1
  <2>1. n \in Int /\ n >= 1 /\ 1 \in Int
      BY <1>1
  <2>2. Size' = Cardinality(1..n)
      BY <1>2 DEF Size
  <2> HIDE DEF n
  <2>3. Cardinality(1..n) = n - 1 + 1
      BY <2>1, FS_Interval
  <2> QED BY <2>1, <2>2, <2>3 DEF n
<1>4. \A n \in 1..Size : events'[n] = events[n]
    BY <1>1
<1>5. events' = [n \in DOMAIN events' |-> events'[n]]
    BY <1>1
<1>6. LogDense'
    BY <1>1, <1>2, <1>3, <1>5 DEF LogDense
<1> QED BY <1>3, <1>4, <1>6

\* What a commit writes.
LEMMA CommitFacts ==
    ASSUME IInv, NEW t \in Writers, Commit(t)
    PROVE  /\ OnlyTx(t) /\ tx'[t].pc = "over" /\ Unlock(t) /\ tx[t].op \in Ops \cup {NoOp}
           /\ EventOf(t).stream = tx[t].op.stream /\ EventOf(t).version = tx[t].version
           /\ EventOf(t).value = tx[t].value /\ tx[t].op.stream \in Streams
           /\ tx[t].version \in Nat /\ tx[t].value \in Values
           /\ events' = [n \in DOMAIN events \cup {Size + 1} |->
                            IF n = Size + 1 THEN EventOf(t) ELSE events[n]]
           /\ eventLock = t
<1>1. tx[t].pc = "event" /\ tx' = [tx EXCEPT ![t].pc = "over"] /\ Unlock(t)
    BY DEF Commit
<1>2. OnlyTx(t) /\ tx'[t].pc = "over"
    BY <1>1, OverStep DEF IInv
<1>3. tx[t].op \in Ops \cup {NoOp} /\ tx[t].version \in Nat /\ tx[t].value \in Values
    BY DEF IInv, Typed, TxType
<1>4. tx[t].op.stream \in Streams
    BY <1>3, OpFacts DEF NoOp
<1>5. tx[t].row[1] = [seq |-> Size + 1, event |-> EventOf(t)]
    BY <1>1 DEF IInv, RowIsNext
<1>6. events' = [n \in DOMAIN events \cup {Size + 1} |->
                    IF n = Size + 1 THEN EventOf(t) ELSE events[n]]
    BY <1>5 DEF Commit
<1>7. eventLock = t
    BY <1>1 DEF IInv, LocksHeld
<1> QED BY <1>1, <1>2, <1>3, <1>4, <1>6, <1>7 DEF EventOf

\* It commits.
LEMMA CommitIInv ==
    ASSUME IInv, NEW t \in Writers, Commit(t)
    PROVE  IInv'
<1> DEFINE own == tx[t].op.stream
<1>1. /\ Typed /\ LogDense /\ LocksHeld /\ RowHeld
      /\ VersionIsNext /\ RowIsNext /\ VersionsGapFree
    BY DEF IInv
<1>2. /\ OnlyTx(t) /\ tx'[t].pc = "over" /\ Unlock(t) /\ own \in Streams
      /\ EventOf(t).stream = own /\ EventOf(t).version = tx[t].version
      /\ EventOf(t).value = tx[t].value /\ tx[t].version \in Nat /\ tx[t].value \in Values
      /\ events' = [n \in DOMAIN events \cup {Size + 1} |->
                            IF n = Size + 1 THEN EventOf(t) ELSE events[n]]
      /\ eventLock = t
    BY CommitFacts
<1>3. LogDense' /\ Size' = Size + 1
    BY <1>1, <1>2, NextRow
<1>4. LocksHeld' /\ RowHeld'
    BY <1>1, <1>2, UnlockStep
<1>5. \/ /\ Versioned(tx[t].op) /\ versions' = versions \cup {EventOf(t)}
         /\ stream' = [stream EXCEPT ![own] = [value |-> tx[t].value, version |-> tx[t].version]]
      \/ UNCHANGED <<stream, versions>>
  <2>1. tx[t].row[1] = [seq |-> Size + 1, event |-> EventOf(t)]
    <3>1. tx[t].pc = "event"
        BY DEF Commit
    <3> QED BY <1>1, <3>1 DEF RowIsNext
  <2> QED BY <2>1 DEF Commit
<1>6. Versioned(tx[t].op) => streamLock[own] = t /\ tx[t].version = stream[own].version + 1
    BY <1>1, <1>2 DEF Commit, LocksHeld, HoldsStream, VersionIsNext
<1>7. Typed'
  <2>1. runState' \in [value: Values, version: Nat]
    <3>1. runState \in [value: Values, version: Nat]
        BY <1>1 DEF Typed
    <3>2. \/ runState' = runState
          \/ runState' = [value |-> tx[t].value, version |-> runState.version + 1]
        BY DEF Commit
    <3> QED BY <1>2, <3>1, <3>2
  <2>2. stream' \in [Streams -> [value: Values, version: Nat]]
    <3> DEFINE c == [value |-> tx[t].value, version |-> tx[t].version]
    <3>1. c \in [value: Values, version: Nat]
        BY <1>2
    <3>2. stream' = stream \/ stream' = [stream EXCEPT ![own] = c]
        BY <1>5
    <3>3. stream \in [Streams -> [value: Values, version: Nat]]
        BY <1>1 DEF Typed
    <3> HIDE DEF c, own
    <3> QED BY <3>1, <3>2, <3>3
  <2>3. /\ runLock' \in Writers \cup {None}
        /\ stateLock' \in Writers \cup {None} /\ eventLock' \in Writers \cup {None}
        /\ streamLock' \in [Streams -> Writers \cup {None}]
      BY <1>1, <1>2 DEF Unlock, Typed
  <2> QED BY <1>2, <2>1, <2>2, <2>3 DEF Typed, OnlyTx
<1>8. VersionsGapFree'
  <2>1. CASE UNCHANGED <<stream, versions>>
      BY <1>1, <2>1 DEF VersionsGapFree, VersionsOf
  <2>2. CASE /\ Versioned(tx[t].op) /\ versions' = versions \cup {EventOf(t)}
             /\ stream' = [stream EXCEPT ![own] = [value |-> tx[t].value, version |-> tx[t].version]]
    <3> DEFINE e == EventOf(t)
    <3>1. /\ e.stream \in Streams /\ e.version = stream[e.stream].version + 1
          /\ versions' = versions \cup {e}
          /\ stream' = [stream EXCEPT ![e.stream] = [value |-> e.value, version |-> e.version]]
        BY <1>2, <1>6, <2>2
    <3> HIDE DEF e
    <3> QED BY <1>1, <3>1, NextVersion
  <2> QED BY <1>5, <2>1, <2>2
<1>9. VersionIsNext'
  <2> SUFFICES ASSUME NEW u \in Writers, NEW s \in Streams, HoldsStream(u, s)'
               PROVE  tx'[u].version = stream'[s].version + 1
      BY DEF VersionIsNext
  <2>1. u # t /\ tx'[u] = tx[u]
      BY <1>2 DEF HoldsStream, OnlyTx
  <2>2. HoldsStream(u, s)
      BY <2>1 DEF HoldsStream
  <2>3. streamLock[s] = u /\ tx[u].version = stream[s].version + 1
      BY <1>1, <2>2 DEF LocksHeld, VersionIsNext
  <2>4. stream'[s] = stream[s]
      BY <1>1, <1>5, <1>6, <2>1, <2>3 DEF Typed
  <2> QED BY <2>1, <2>3, <2>4
<1>10. RowIsNext'
  <2>1. \A u \in Writers : tx'[u].pc # "event"
      BY <1>1, <1>2 DEF LocksHeld, OnlyTx
  <2> QED BY <2>1 DEF RowIsNext
<1> QED BY <1>3, <1>4, <1>7, <1>8, <1>9, <1>10 DEF IInv

\* It is rolled back.
LEMMA RollbackIInv ==
    ASSUME IInv, NEW t \in Writers, Rollback(t)
    PROVE  IInv'
<1>1. /\ Typed /\ LogDense /\ LocksHeld /\ RowHeld
      /\ VersionIsNext /\ RowIsNext /\ VersionsGapFree
    BY DEF IInv
<1>2. /\ OnlyTx(t) /\ tx'[t].pc = "over" /\ Unlock(t)
      /\ UNCHANGED <<runState, stream, versions, events>>
    BY <1>1, OverStep DEF Rollback
<1>3. \A u \in Writers, s \in Streams :
          HoldsStream(u, s)' => HoldsStream(u, s) /\ tx'[u] = tx[u]
    BY <1>2 DEF HoldsStream, OnlyTx
<1>4. LocksHeld' /\ RowHeld'
    BY <1>1, <1>2, UnlockStep
<1>5. Typed'
    BY <1>1, <1>2 DEF Typed, OnlyTx, Unlock
<1>6. LogDense' /\ VersionsGapFree'
    BY <1>1, <1>2 DEF LogDense, Size, VersionsGapFree, VersionsOf
<1>7. VersionIsNext'
    BY <1>1, <1>2, <1>3 DEF VersionIsNext
<1>8. RowIsNext'
    BY <1>1, <1>2 DEF RowIsNext, EventOf, Size, OnlyTx
<1> QED BY <1>4, <1>5, <1>6, <1>7, <1>8 DEF IInv

\* Every step.
LEMMA NextIInv ==
    ASSUME IInv, [Next]_vars
    PROVE  IInv'
<1>1. ASSUME NEW t \in Writers, NEW op \in Ops, NEW at \in Replicas,
             WriteState(t, op, at) \/ ReadForSave(t, op, at) \/ Snapshot(t, op, at)
                 \/ LockRun(t, op, at) \/ Other(t, op, at)
      PROVE  IInv'
    BY <1>1, StartsIInv
<1>2. ASSUME NEW t \in Writers,
             RecordVersion(t) \/ LockLog(t) \/ AppendEvent(t) \/ Commit(t) \/ Rollback(t)
      PROVE  IInv'
    BY <1>2, RecordIInv, LockLogIInv, AppendIInv, CommitIInv, RollbackIInv
<1>3. CASE UNCHANGED <<runState, stream, versions, events, locks, tx>>
    BY <1>3 DEF IInv, Typed, LogDense, Size, LocksHeld, HoldsStream, InFlight, RowHeld,
                SharesRun, VersionIsNext, RowIsNext, EventOf, VersionsGapFree, VersionsOf, locks
<1>4. ASSUME NEW c \in Clients, NEW at \in Replicas, NEW after \in Afters, ListEvents(c, at, after)
      PROVE  IInv'
    BY <1>3, <1>4 DEF ListEvents
<1>5. ASSUME NEW c \in Clients, Subscribe(c) \/ Disconnect(c)
      PROVE  IInv'
    BY <1>3, <1>5 DEF Subscribe, Disconnect
<1>6. CASE UNCHANGED vars
    BY <1>3, <1>6 DEF vars, locks
<1> QED BY <1>1, <1>2, <1>4, <1>5, <1>6 DEF Next

\* The first state.
LEMMA InitIInv ==
    ASSUME Init
    PROVE  IInv
<1>1. DOMAIN events = {} /\ Size = 0
    BY FS_EmptySet DEF Init, Size
<1>2. LogDense
    BY <1>1 DEF LogDense, Init
<1>3. NoTx \in TxType /\ NoTx.pc = "idle"
  <2>1. <<>> \in Seq(RowType)
      OBVIOUS
  <2> QED BY <2>1, BlankFacts DEF NoTx, TxType, PCs
<1>4. tx = [t \in Writers |-> NoTx]
    BY DEF Init
<1>5. tx \in [Writers -> TxType] /\ \A t \in Writers : tx[t].pc = "idle"
  <2> HIDE DEF NoTx
  <2> QED BY <1>3, <1>4
<1>6. Typed
    BY <1>5, BlankFacts DEF Typed, Init
<1>7. LocksHeld
    BY <1>5 DEF LocksHeld, HoldsStream, InFlight, Init
<1>8. VersionIsNext /\ RowIsNext /\ RowHeld
    BY <1>5 DEF VersionIsNext, RowIsNext, HoldsStream, RowHeld, InFlight, Init
<1>9. VersionsGapFree
    BY DEF VersionsGapFree, VersionsOf, Init
<1> QED BY <1>2, <1>6, <1>7, <1>8, <1>9 DEF IInv
-----------------------------------------------------------------------------
(* The theorems.                                                           *)

\* The locks are held as the statements take them, and the next version and the
\* next event are what the transaction that holds the lock has.
THEOREM RunLogInvariant == Spec => []IInv
<1>1. Init => IInv
    BY InitIInv
<1>2. IInv /\ [Next]_vars => IInv'
    BY NextIInv
<1> QED BY <1>1, <1>2, PTL DEF Spec

\* The versions of a stream are numbered without a gap and the stream shows the
\* last of them, whoever saves, snapshots, puts and patches (recordStateVersion).
THEOREM VersionsHaveNoGaps == Spec => []VersionsGapFree
<1>1. IInv => VersionsGapFree
    BY DEF IInv
<1> QED BY <1>1, RunLogInvariant, PTL

\* Transactions that write states and events of a run wait for each other in a
\* circle in one case only: who has the run's row waits for the log, a handler of
\* a step that has the log waits for that row.  The holder of a stream's row waits
\* only for the log, that of the state's row for a stream's and for the run's.
THEOREM CircularWaitIsOfTheRow == Spec => []OneWaitingCycle
<1>1. ASSUME IInv PROVE OneWaitingCycle
  <2>1. Typed /\ LocksHeld /\ RowHeld
      BY <1>1 DEF IInv
  <2>2. \A t \in {runLock, stateLock, eventLock} \cup {streamLock[s] : s \in Streams} :
            t = None \/ InFlight(t)
    <3>1. (stateLock = None \/ InFlight(stateLock)) /\ (runLock = None \/ InFlight(runLock))
        BY <2>1 DEF Typed, LocksHeld, RowHeld
    <3>2. eventLock = None \/ InFlight(eventLock)
        BY <2>1 DEF Typed, LocksHeld, InFlight
    <3>3. \A s \in Streams : streamLock[s] = None \/ InFlight(streamLock[s])
        BY <2>1 DEF Typed, LocksHeld, InFlight, HoldsStream
    <3> QED BY <3>1, <3>2, <3>3
  <2>3. ASSUME NEW u \in Writers, InFlight(u), \A t \in Writers : InFlight(t) => Waits(t)
        PROVE  RowAgainstLog
    <3>1. \A t \in Writers : tx[t].pc # "event"
        BY <2>3 DEF InFlight, Waits
    <3>2. \A t \in Writers : runLock = t => tx[t].pc \in {"version", "logged"}
        BY <2>1, <3>1 DEF LocksHeld, RowHeld, InFlight, Versioned
    <3>3. CASE eventLock = None
      <4>1. \A t \in Writers : tx[t].pc \notin {"version", "logged"}
          BY <2>1, <2>3, <3>3 DEF Typed, LocksHeld, InFlight, Waits
      <4>2. runLock = None
          BY <2>1, <3>2, <4>1 DEF Typed
      <4>3. tx[u].pc = "value" /\ tx[u].op.stream \in Streams
        <5>1. tx[u].op \in Ops \cup {NoOp}
            BY <2>1 DEF Typed, TxType
        <5> QED BY <2>3, <3>1, <4>1, <5>1, OpFacts DEF InFlight, NoOp
      <4>4. streamLock[tx[u].op.stream] = None
          BY <2>1, <3>1, <4>1, <4>3, SMTT(30) DEF Typed, LocksHeld, HoldsStream
      <4> QED BY <2>3, <4>2, <4>3, <4>4 DEF Waits
    <3>4. CASE eventLock # None
      <4>1. eventLock \in Writers /\ tx[eventLock].pc = "logged"
          BY <2>1, <3>1, <3>4 DEF Typed, LocksHeld
      <4>2. runLock \in Writers /\ runLock # eventLock
          BY <2>1, <2>3, <4>1 DEF Typed, InFlight, Waits
      <4>3. tx[runLock].pc = "version"
          BY <2>1, <3>2, <4>1, <4>2 DEF LocksHeld
      <4>4. tx[eventLock].op.kind = "other"
        <5>1. ~SharesRun(eventLock) /\ InFlight(eventLock)
            BY <2>1, <4>1, <4>2 DEF RowHeld, InFlight
        <5>2. tx[eventLock].op.kind # "lifecycle"
            BY <2>1, <4>1, <4>2, <5>1 DEF RowHeld
        <5> QED BY <4>1, <5>1, <5>2 DEF SharesRun, Versioned
      <4> QED BY <4>1, <4>2, <4>3, <4>4 DEF RowAgainstLog
    <3> QED BY <3>3, <3>4
  <2> QED BY <2>2, <2>3 DEF OneWaitingCycle
<1> QED BY <1>1, RunLogInvariant, PTL

\* What is longer and agrees as far as the old one goes extends it.
LEMMA Longer ==
    ASSUME NEW T, NEW s \in Seq(T), NEW r \in Seq(T), Len(r) = Len(s) + 1,
           \A n \in 1..Len(s) : r[n] = s[n]
    PROVE  Log!IsStrictPrefix(s, r)
<1>1. Len(s) \in Nat /\ Len(s) <= Len(r) /\ s # r
    OBVIOUS
<1>2. SubSeq(s, 1, Len(s)) = [n \in 1..Len(s) |-> s[n]]
    OBVIOUS
<1>3. SubSeq(r, 1, Len(s)) = [n \in 1..Len(s) |-> r[n]]
    OBVIOUS
<1>4. SubSeq(s, 1, Len(s)) = SubSeq(r, 1, Len(s))
    BY <1>2, <1>3
<1> QED BY <1>1, <1>4 DEF Log!IsStrictPrefix, Log!IsPrefix

\* A function of 1..k is a sequence of k elements.
LEMMA FunctionIsSeq ==
    ASSUME NEW T, NEW k \in Nat, NEW f, f = [n \in 1..k |-> f[n]], \A n \in 1..k : f[n] \in T
    PROVE  f \in Seq(T) /\ Len(f) = k
<1>1. f \in Seq(T)
  <2>1. [n \in 1..k |-> f[n]] \in [1..k -> T]
      OBVIOUS
  <2>2. f \in [1..k -> T]
      BY <2>1, Zenon
  <2> QED BY <2>2, SeqDef
<1>2. DOMAIN f = 1..k /\ DOMAIN f = 1..Len(f) /\ Len(f) \in Nat
    BY <1>1, LenProperties
<1> QED BY <1>1, <1>2

\* The rows of events are only ever added to at their end: what a reader has of
\* the log stays its beginning (appendEvent).
THEOREM LogGrowsAtEnd == Spec => LogIsAppendOnly
<1> DEFINE rows == [n \in 1..Cardinality(DOMAIN events) |-> events[n]]
<1>1. Init => Log!Init
  <2> SUFFICES ASSUME Init PROVE rows = <<>>
      BY DEF Log!Init
  <2>1. Cardinality(DOMAIN events) = 0
      BY FS_EmptySet DEF Init
  <2> QED BY <2>1
<1>2. ASSUME IInv, [Next]_vars
      PROVE  [Log!Next]_rows
  <2>0. IInv'
      BY <1>2, NextIInv
  <2>1. ASSUME NEW t \in Writers, Commit(t)
        PROVE  Log!IsStrictPrefix(rows, rows')
    <3>1. /\ events' = [n \in DOMAIN events \cup {Size + 1} |->
                            IF n = Size + 1 THEN EventOf(t) ELSE events[n]]
          /\ LogDense /\ LogDense'
        BY <1>2, <2>0, <2>1, CommitFacts DEF IInv
    <3>2. Size' = Size + 1 /\ \A n \in 1..Size : events'[n] = events[n]
        BY <3>1, NextRow
    <3>3. rows = events /\ rows' = events' /\ Size \in Nat
        BY <3>1 DEF LogDense, Size
    <3>4. /\ events = [n \in 1..Size |-> events[n]]
          /\ events' = [n \in 1..(Size + 1) |-> events'[n]]
        BY <3>1, <3>2 DEF LogDense
    <3> DEFINE T == {events[n] : n \in 1..Size} \cup {events'[n] : n \in 1..(Size + 1)}
               k == Size
               a == events
               b == events'
    <3> HIDE DEF rows
    <3>5. /\ k \in Nat /\ a = [n \in 1..k |-> a[n]] /\ b = [n \in 1..(k + 1) |-> b[n]]
          /\ \A n \in 1..k : a[n] \in T /\ b[n] = a[n]
          /\ \A n \in 1..(k + 1) : b[n] \in T
        BY <3>2, <3>3, <3>4
    <3> HIDE DEF T, k, a, b
    <3>6. a \in Seq(T) /\ Len(a) = k /\ b \in Seq(T) /\ Len(b) = k + 1
      <4>1. k + 1 \in Nat
          BY <3>5
      <4> QED BY <3>5, <4>1, FunctionIsSeq
    <3>7. Log!IsStrictPrefix(a, b)
        BY <3>5, <3>6, Longer
    <3> QED BY <3>3, <3>7 DEF a, b
  <2>2. ASSUME UNCHANGED events
        PROVE  rows' = rows
      BY <2>2
  <2>3. (\E t \in Writers : Commit(t)) \/ UNCHANGED events
    <3>1. ASSUME NEW t \in Writers, NEW op \in Ops, NEW at \in Replicas,
                 WriteState(t, op, at) \/ ReadForSave(t, op, at) \/ Snapshot(t, op, at)
                     \/ LockRun(t, op, at) \/ Other(t, op, at)
          PROVE  UNCHANGED events
        BY <3>1 DEF WriteState, ReadForSave, Snapshot, LockRun, Other
    <3>2. ASSUME NEW t \in Writers,
                 RecordVersion(t) \/ LockLog(t) \/ AppendEvent(t) \/ Rollback(t)
          PROVE  UNCHANGED events
        BY <3>2 DEF RecordVersion, LockLog, AppendEvent, Rollback
    <3>3. ASSUME NEW c \in Clients, NEW at \in Replicas, NEW after \in Afters,
                 ListEvents(c, at, after)
          PROVE  UNCHANGED events
        BY <3>3 DEF ListEvents
    <3>4. ASSUME NEW c \in Clients, Subscribe(c) \/ Disconnect(c)
          PROVE  UNCHANGED events
        BY <3>4 DEF Subscribe, Disconnect
    <3>5. CASE UNCHANGED vars
        BY <3>5 DEF vars
    <3> QED BY <1>2, <3>1, <3>2, <3>3, <3>4, <3>5 DEF Next
  <2> QED BY <2>1, <2>2, <2>3 DEF Log!Next
<1>3. IInv /\ [Next]_vars => [Log!Next]_rows
    BY <1>2
<1> QED BY <1>1, <1>3, RunLogInvariant, PTL DEF Spec, LogIsAppendOnly, Log!Spec
-----------------------------------------------------------------------------
(* The state, the log and the history.                                     *)

\* Who updates the state holds its row from the upsert to its end, and has what
\* the update makes of the state as it is.
UpdatesLocked ==
    \A t \in Writers :
        /\ stateLock = t <=> InFlight(t) /\ tx[t].op.kind \in Updates
        /\ stateLock = t => tx[t].value = Apply(t, tx[t].op, runState.value)

\* The event at n is that of the n-th transaction that committed.
HistoryIsLog ==
    /\ history \in Seq(Writers) /\ Len(history) = Size
    /\ \A n \in 1..Size : tx[history[n]].pc = "over" /\ events[n] = EventOf(history[n])

\* The events of a stream ascend, up to its version.
EventsAscend ==
    /\ \A n \in 1..Size : Versioned(events[n]) => events[n].version <= stream[events[n].stream].version
    /\ \A m, n \in 1..Size :
          m < n /\ Versioned(events[m]) /\ Versioned(events[n]) /\ events[m].stream = events[n].stream
              => events[m].version < events[n].version

\* The last update of the log is the state.
LastIsState ==
    \A n \in 1..Size :
        events[n].kind \in Updates /\ (\A m \in 1..Size : n < m => events[m].kind \notin Updates)
            => events[n].value = runState.value

\* The states of the run, from the first to the one that it has.
IsReplay(f) ==
    f = [i \in 0..Len(history) |->
            IF i = 0 THEN [value |-> Blank, version |-> 0]
                     ELSE Redo(history[i], tx[history[i]].op, f[i - 1])]

Replayed == \E f : IsReplay(f) /\ f[Len(history)] = runState

HInv == UpdatesLocked /\ HistoryIsLog /\ EventsAscend /\ LastIsState /\ Replayed

\* What is said of the log stays true while its writers are over.
LEMMA LogKept ==
    ASSUME Typed, HInv, NEW t \in Writers, OnlyTx(t), tx[t].pc # "over",
           UNCHANGED <<runState, stream, events, history>>
    PROVE  HistoryIsLog' /\ EventsAscend' /\ LastIsState' /\ Replayed'
<1>1. \A n \in 1..Size : tx'[history[n]] = tx[history[n]]
  <2>1. \A n \in 1..Size : history[n] \in Writers
      BY DEF HInv, HistoryIsLog
  <2> QED BY <2>1 DEF HInv, HistoryIsLog, OnlyTx
<1>2. Size' = Size
    BY DEF Size
<1>3. HistoryIsLog'
    BY <1>1, <1>2 DEF HInv, HistoryIsLog, EventOf
<1>4. EventsAscend' /\ LastIsState'
    BY <1>2 DEF HInv, EventsAscend, LastIsState
<1>5. Replayed'
  <2>1. PICK f : IsReplay(f) /\ f[Len(history)] = runState
      BY DEF HInv, Replayed
  <2>2. Len(history) = Size
      BY DEF HInv, HistoryIsLog
  <2>3. history' = history /\ \A i \in 1..Len(history) : tx'[history[i]] = tx[history[i]]
      BY <1>1, <2>2
  <2>4. Size \in Nat /\ \A i \in 0..Len(history) : i # 0 => i \in 1..Len(history)
      BY <2>2, LenProperties DEF HInv, HistoryIsLog
  <2>5. IsReplay(f)'
      BY <2>1, <2>3, <2>4 DEF IsReplay
  <2> QED BY <2>1, <2>5 DEF Replayed
<1> QED BY <1>3, <1>4, <1>5

\* The event that a transaction appends.
LEMMA AppendedRow ==
    ASSUME IInv, NEW t \in Writers
    PROVE  /\ EventOf(t) \in Events /\ NextSeq = Size + 1 /\ Size \in Nat
           /\ [seq |-> NextSeq, event |-> EventOf(t)] \in RowType
<1>1. tx[t].op \in Ops \cup {NoOp} /\ tx[t].version \in Nat /\ tx[t].value \in Values
    BY DEF IInv, Typed, TxType
<1>2. tx[t].op.kind \in Kinds /\ tx[t].op.stream \in Streams
    BY <1>1, OpFacts DEF NoOp, Kinds
<1>3. EventOf(t) \in Events
    BY <1>1, <1>2 DEF EventOf, Events
<1>4. NextSeq = Size + 1 /\ Size \in Nat
    BY NextSeqIsNext DEF IInv, LogDense
<1> QED BY <1>3, <1>4 DEF RowType

\* A transaction that starts is in its first or second place.
LEMMA StartsOnly ==
    ASSUME IInv, NEW t \in Writers, NEW op \in Ops, NEW at \in Replicas,
           WriteState(t, op, at) \/ ReadForSave(t, op, at) \/ Snapshot(t, op, at)
               \/ LockRun(t, op, at) \/ Other(t, op, at)
    PROVE  OnlyTx(t) /\ UNCHANGED <<events, client>> /\ tx[t].pc = "idle" /\ tx'[t].pc # "event"
<1>0. Typed
    BY DEF IInv
<1>1. CASE WriteState(t, op, at)
  <2>1. Apply(t, op, runState.value) \in Values
      BY <1>0, OpFacts DEF Typed
  <2> QED BY <1>0, <1>1, <2>1, StartStep DEF WriteState
<1>2. CASE ReadForSave(t, op, at)
  <2>1. (IF op.stream = "run" THEN runState ELSE stream[op.stream]).value \in Values
      BY <1>0, OpFacts DEF Typed
  <2> QED BY <1>0, <1>2, <2>1, StartStep DEF ReadForSave
<1>3. CASE Snapshot(t, op, at)
  <2>1. Apply(t, op, Blank) \in Values
      BY OpFacts, BlankFacts
  <2> QED BY <1>0, <1>3, <2>1, StartStep DEF Snapshot
<1>4. CASE Other(t, op, at)
    BY <1>0, <1>4, BlankFacts, StartStep DEF Other
<1>5. CASE LockRun(t, op, at)
    BY <1>0, <1>5, BlankFacts, StartStep DEF LockRun
<1> QED BY <1>1, <1>2, <1>3, <1>4, <1>5

\* A transaction starts; one that updates locks the state.
LEMMA StartsHInv ==
    ASSUME IInv, HInv, NEW t \in Writers, NEW op \in Ops, NEW at \in Replicas,
           WriteState(t, op, at) \/ ReadForSave(t, op, at) \/ Snapshot(t, op, at)
               \/ LockRun(t, op, at) \/ Other(t, op, at)
    PROVE  HInv'
<1> DEFINE made == Apply(t, op, runState.value)
<1>0. Typed
    BY DEF IInv
<1>1. /\ UNCHANGED <<runState, stream, events, history>>
      /\ OnlyTx(t) /\ tx[t].pc = "idle" /\ tx'[t].op = op
      /\ tx'[t].pc \in {"value", "version"}
      /\ \/ op.kind \in Updates /\ stateLock = None /\ stateLock' = t /\ tx'[t].value = made
         \/ op.kind \notin Updates /\ stateLock' = stateLock
  <2>1. CASE WriteState(t, op, at)
    <3>1. made \in Values
        BY <1>0, OpFacts DEF Typed
    <3> HIDE DEF made
    <3>2. Starts(t, op, at, made, "value")
        BY <2>1 DEF WriteState, made
    <3>3. OnlyTx(t) /\ tx[t].pc = "idle" /\ tx'[t].pc = "value" /\ tx'[t].op = op /\ tx'[t].value = made
        BY <1>0, <3>1, <3>2, StartStep
    <3> QED BY <2>1, <3>3 DEF WriteState
  <2>2. CASE ReadForSave(t, op, at)
    <3> DEFINE saved == (IF op.stream = "run" THEN runState ELSE stream[op.stream]).value
    <3>1. saved \in Values
        BY <1>0, OpFacts DEF Typed
    <3>2. Starts(t, op, at, saved, "value")
        BY <2>2 DEF ReadForSave
    <3> HIDE DEF saved
    <3>3. OnlyTx(t) /\ tx[t].pc = "idle" /\ tx'[t].pc = "value" /\ tx'[t].op = op
        BY <1>0, <3>1, <3>2, StartStep
    <3> QED BY <2>2, <3>3 DEF ReadForSave, locks, Updates
  <2>3. CASE Snapshot(t, op, at)
    <3>1. Apply(t, op, Blank) \in Values
        BY OpFacts, BlankFacts
    <3>2. OnlyTx(t) /\ tx[t].pc = "idle" /\ tx'[t].pc = "value" /\ tx'[t].op = op
        BY <1>0, <2>3, <3>1, StartStep DEF Snapshot
    <3> QED BY <2>3, <3>2 DEF Snapshot, locks, Updates
  <2>4. CASE Other(t, op, at)
    <3>1. OnlyTx(t) /\ tx[t].pc = "idle" /\ tx'[t].pc = "version" /\ tx'[t].op = op
        BY <1>0, <2>4, BlankFacts, StartStep DEF Other
    <3> QED BY <2>4, <3>1 DEF Other, locks, Updates
  <2>5. CASE LockRun(t, op, at)
    <3>1. OnlyTx(t) /\ tx[t].pc = "idle" /\ tx'[t].pc = "version" /\ tx'[t].op = op
        BY <1>0, <2>5, BlankFacts, StartStep DEF LockRun
    <3> QED BY <2>5, <3>1 DEF LockRun, Updates
  <2> QED BY <2>1, <2>2, <2>3, <2>4, <2>5
<1> HIDE DEF made
<1>2. HistoryIsLog' /\ EventsAscend' /\ LastIsState' /\ Replayed'
    BY <1>0, <1>1, LogKept
<1>3. UpdatesLocked'
  <2>1. ~InFlight(t) /\ InFlight(t)'
      BY <1>1 DEF InFlight
  <2>2. \A u \in Writers \ {t} : tx'[u] = tx[u] /\ (InFlight(u)' <=> InFlight(u))
      BY <1>1 DEF OnlyTx, InFlight
  <2>3. runState' = runState /\ tx'[t].op = op
      BY <1>1
  <2>4. UpdatesLocked /\ None \notin Writers
      BY DEF HInv
  <2>5. CASE op.kind \in Updates /\ stateLock = None /\ stateLock' = t /\ tx'[t].value = made
      BY <2>1, <2>2, <2>3, <2>4, <2>5 DEF UpdatesLocked, made
  <2>6. CASE op.kind \notin Updates /\ stateLock' = stateLock
      BY <2>1, <2>2, <2>3, <2>4, <2>6 DEF UpdatesLocked
  <2> QED BY <1>1, <2>5, <2>6
<1> QED BY <1>2, <1>3 DEF HInv

\* It goes on: it keeps its operation, its value and its locks.
LEMMA GoesOnHInv ==
    ASSUME IInv, HInv, NEW t \in Writers, RecordVersion(t) \/ LockLog(t) \/ AppendEvent(t)
    PROVE  HInv' /\ OnlyTx(t) /\ tx'[t].op = tx[t].op
<1>0. Typed
    BY DEF IInv
<1>1. /\ UNCHANGED <<runState, stream, events, history, stateLock>>
      /\ OnlyTx(t) /\ tx[t].pc \in {"value", "version", "logged"}
      /\ tx'[t].pc \in {"version", "logged", "event"}
      /\ tx'[t].op = tx[t].op /\ tx'[t].value = tx[t].value
  <2>1. CASE RecordVersion(t)
    <3> DEFINE new == stream[tx[t].op.stream].version + 1
    <3>1. tx[t].op.stream \in Streams
        BY <1>0, OpFacts DEF Typed, TxType, NoOp
    <3>2. new \in Nat
        BY <1>0, <3>1 DEF Typed
    <3>3. tx' = [tx EXCEPT ![t].pc = "version", ![t].version = new] /\ tx[t].pc = "value"
        BY <2>1 DEF RecordVersion
    <3> HIDE DEF new
    <3>4. OnlyTx(t) /\ tx'[t].pc = "version" /\ tx'[t].op = tx[t].op /\ tx'[t].value = tx[t].value
        BY <1>0, <3>2, <3>3, VersionStep
    <3> QED BY <2>1, <3>3, <3>4 DEF RecordVersion
  <2>2. CASE AppendEvent(t)
    <3> DEFINE row == [seq |-> NextSeq, event |-> EventOf(t)]
    <3>1. row \in RowType
        BY AppendedRow
    <3>2. tx' = [tx EXCEPT ![t].pc = "event", ![t].row = <<row>>] /\ tx[t].pc = "logged"
        BY <2>2 DEF AppendEvent
    <3> HIDE DEF row
    <3>3. OnlyTx(t) /\ tx'[t].pc = "event" /\ tx'[t].op = tx[t].op /\ tx'[t].value = tx[t].value
        BY <1>0, <3>1, <3>2, EventStep
    <3> QED BY <2>2, <3>2, <3>3 DEF AppendEvent, locks
  <2>3. CASE LockLog(t)
    <3>1. tx' = [tx EXCEPT ![t].pc = "logged"] /\ tx[t].pc = "version"
        BY <2>3 DEF LockLog
    <3>2. OnlyTx(t) /\ tx'[t].pc = "logged" /\ tx'[t].op = tx[t].op /\ tx'[t].value = tx[t].value
        BY <1>0, <3>1, LoggedStep
    <3> QED BY <2>3, <3>1, <3>2 DEF LockLog
  <2> QED BY <2>1, <2>2, <2>3
<1>2. HistoryIsLog' /\ EventsAscend' /\ LastIsState' /\ Replayed'
    BY <1>0, <1>1, LogKept
<1>3. UpdatesLocked'
    BY <1>1 DEF HInv, UpdatesLocked, InFlight, OnlyTx
<1> QED BY <1>1, <1>2, <1>3 DEF HInv

\* It is rolled back.
LEMMA RollbackHInv ==
    ASSUME IInv, HInv, NEW t \in Writers, Rollback(t)
    PROVE  HInv'
<1>0. Typed
    BY DEF IInv
<1>1. /\ UNCHANGED <<runState, stream, events, history>> /\ InFlight(t)
      /\ stateLock' = (IF stateLock = t THEN None ELSE stateLock)
      /\ OnlyTx(t) /\ tx'[t].pc = "over"
    BY <1>0, OverStep DEF Rollback, Unlock, InFlight
<1>2. HistoryIsLog' /\ EventsAscend' /\ LastIsState' /\ Replayed'
    BY <1>0, <1>1, LogKept DEF InFlight
<1>3. UpdatesLocked'
    BY <1>1 DEF HInv, UpdatesLocked, InFlight, OnlyTx
<1> QED BY <1>2, <1>3 DEF HInv

\* One more update, or none, of the states of the run.
LEMMA ReplayedOnce ==
    ASSUME HInv, IInv, NEW t \in Writers, history' = Append(history, t),
           \A n \in 1..Size : tx'[history[n]] = tx[history[n]],
           tx'[t].op = tx[t].op, runState' = Redo(t, tx[t].op, runState)
    PROVE  Replayed'
<1> DEFINE k == Len(history)
           Blanked == [value |-> Blank, version |-> 0]
<1>1. /\ k \in Nat /\ k = Size /\ Len(history') = k + 1 /\ history'[k + 1] = t
      /\ \A i \in 1..k : history'[i] = history[i] /\ tx'[history'[i]].op = tx[history[i]].op
    BY DEF HInv, HistoryIsLog
<1>2. PICK f : IsReplay(f) /\ f[k] = runState
    BY DEF HInv, Replayed
<1> HIDE DEF k, Blanked
<1>3. /\ f[0] = Blanked
      /\ \A i \in 1..k : f[i] = Redo(history[i], tx[history[i]].op, f[i - 1])
  <2>1. \A i \in 0..k : f[i] = IF i = 0 THEN Blanked ELSE Redo(history[i], tx[history[i]].op, f[i - 1])
      BY <1>2 DEF IsReplay, k, Blanked
  <2>2. 0 \in 0..k /\ \A i \in 1..k : i \in 0..k /\ i # 0
      BY <1>1
  <2> QED BY <2>1, <2>2
<1>g. PICK g : g = [i \in 0..k + 1 |-> IF i = k + 1 THEN runState' ELSE f[i]]
    OBVIOUS
<1> DEFINE step(i) == IF i = 0 THEN Blanked ELSE Redo(history'[i], tx'[history'[i]].op, g[i - 1])
<1>4. \A i \in 0..k + 1 : g[i] = step(i)
  <2> SUFFICES ASSUME NEW i \in 0..k + 1 PROVE g[i] = step(i)
      OBVIOUS
  <2>1. CASE i = 0
    <3>1. 0 # k + 1 /\ 0 \in 0..k + 1
        BY <1>1
    <3> QED BY <1>3, <1>g, <2>1, <3>1
  <2>2. CASE i \in 1..k
    <3>1. i # k + 1 /\ i - 1 # k + 1 /\ i - 1 \in 0..k + 1 /\ i # 0
        BY <1>1, <2>2
    <3>2. g[i] = f[i] /\ g[i - 1] = f[i - 1]
        BY <1>g, <2>2, <3>1
    <3>3. history'[i] = history[i] /\ tx'[history'[i]].op = tx[history[i]].op
        BY <1>1, <2>2
    <3> QED BY <1>3, <2>2, <3>1, <3>2, <3>3
  <2>3. CASE i = k + 1
    <3>1. i # 0 /\ i - 1 = k /\ k # k + 1 /\ k \in 0..k + 1
        BY <1>1, <2>3
    <3>2. g[i] = runState' /\ g[i - 1] = runState
        BY <1>2, <1>g, <2>3, <3>1
    <3>3. history'[i] = t /\ tx'[t].op = tx[t].op
        BY <1>1, <2>3
    <3> QED BY <3>1, <3>2, <3>3
  <2> QED BY <1>1, <2>1, <2>2, <2>3
<1>5. g = [i \in 0..k + 1 |-> step(i)]
  <2>1. g = [i \in 0..k + 1 |-> g[i]]
      BY <1>g
  <2> QED BY <1>4, <2>1
<1>6. g[k + 1] = runState'
    BY <1>1, <1>g
<1>7. IsReplay(g)'
    BY <1>1, <1>5 DEF IsReplay, Blanked
<1> QED BY <1>1, <1>6, <1>7 DEF Replayed

\* An event of the log has the type of one.
LEMMA EventTyped ==
    ASSUME Typed, NEW t \in Writers
    PROVE  EventOf(t) \in Events
<1>1. tx[t].op \in Ops \cup {NoOp} /\ tx[t].version \in Nat /\ tx[t].value \in Values
    BY DEF Typed, TxType
<1>2. tx[t].op.kind \in Kinds /\ tx[t].op.stream \in Streams
    BY <1>1, OpFacts DEF NoOp, Kinds
<1> QED BY <1>1, <1>2 DEF EventOf, Events

\* It commits.
LEMMA CommitHInv ==
    ASSUME IInv, HInv, NEW t \in Writers, Commit(t)
    PROVE  HInv'
<1> DEFINE op  == tx[t].op
           e   == EventOf(t)
           own == op.stream
           l   == Size
<1>1. /\ OnlyTx(t) /\ tx'[t].pc = "over" /\ Unlock(t) /\ own \in Streams
      /\ e.stream = own /\ e.version = tx[t].version /\ e.value = tx[t].value /\ e.kind = op.kind
      /\ events' = [n \in DOMAIN events \cup {l + 1} |-> IF n = l + 1 THEN e ELSE events[n]]
    BY CommitFacts DEF EventOf
<1>2. /\ tx[t].pc = "event" /\ tx' = [tx EXCEPT ![t].pc = "over"] /\ history' = Append(history, t)
      /\ runState' = IF op.kind \in Updates
                     THEN [value |-> tx[t].value, version |-> runState.version + 1] ELSE runState
      /\ \/ /\ Versioned(op)
            /\ stream' = [stream EXCEPT ![own] = [value |-> tx[t].value, version |-> tx[t].version]]
         \/ ~Versioned(op) /\ stream' = stream
    BY DEF Commit
<1>3. EventOf(t)' = e /\ tx'[t].op = op
    BY <1>2, OverStep DEF IInv
<1>4. Typed /\ UpdatesLocked /\ HistoryIsLog /\ EventsAscend /\ LastIsState
    BY DEF IInv, HInv
<1>5. /\ l \in Nat /\ DOMAIN events = 1..l /\ Size' = l + 1
      /\ \A n \in 1..l : events'[n] = events[n]
      /\ events'[l + 1] = e
    BY <1>1, NextRow DEF IInv, LogDense
<1>6. \A n \in 1..l : /\ history[n] \in Writers \ {t} /\ tx'[history[n]] = tx[history[n]]
                      /\ events[n] \in Events
  <2> SUFFICES ASSUME NEW n \in 1..l
               PROVE  /\ history[n] \in Writers \ {t} /\ tx'[history[n]] = tx[history[n]]
                      /\ events[n] \in Events
      OBVIOUS
  <2>1. history[n] \in Writers /\ tx[history[n]].pc = "over" /\ events[n] = EventOf(history[n])
      BY <1>4, ElementOfSeq DEF HistoryIsLog
  <2> QED BY <1>1, <1>2, <1>4, <2>1, EventTyped DEF OnlyTx
<1>7. UpdatesLocked'
  <2>1. stateLock' = IF stateLock = t THEN None ELSE stateLock
      BY <1>1 DEF Unlock
  <2>2. ~InFlight(t)' /\ InFlight(t)
      BY <1>1, <1>2 DEF InFlight
  <2>3. \A u \in Writers \ {t} : tx'[u] = tx[u] /\ (InFlight(u)' <=> InFlight(u))
      BY <1>1 DEF OnlyTx, InFlight
  <2>4. \A u \in Writers \ {t} : stateLock = u => runState' = runState
      BY <1>2, <1>4, <2>2 DEF UpdatesLocked
  <2> QED BY <1>4, <2>1, <2>2, <2>3, <2>4 DEF UpdatesLocked
<1>8. HistoryIsLog'
  <2>1. /\ history' \in Seq(Writers) /\ Len(history') = l + 1 /\ history'[l + 1] = t
        /\ \A n \in 1..l : history'[n] = history[n]
      BY <1>2, <1>4, <1>5 DEF HistoryIsLog
  <2>2. ASSUME NEW n \in 1..l + 1
        PROVE  tx'[history'[n]].pc = "over" /\ events'[n] = EventOf(history[n])'
    <3>1. CASE n = l + 1
        BY <1>1, <1>3, <1>5, <2>1, <3>1 DEF EventOf
    <3>2. CASE n \in 1..l
        BY <1>4, <1>5, <1>6, <2>1, <3>2 DEF HistoryIsLog, EventOf
    <3> QED BY <1>5, <3>1, <3>2
  <2> QED BY <1>5, <2>1, <2>2 DEF HistoryIsLog
<1>9. Versioned(op) => e.version = stream[own].version + 1 /\ stream'[own].version = e.version
    BY <1>1, <1>2 DEF IInv, VersionIsNext, HoldsStream, Typed
<1>10. \A s \in Streams : s # own => stream'[s] = stream[s]
    BY <1>2 DEF IInv, Typed
<1>11. \A s \in Streams : stream[s].version \in Nat
    BY <1>4 DEF Typed
<1>12. Versioned(e) <=> Versioned(op)
    BY <1>1 DEF Versioned
<1>13. \A n \in 1..l : /\ events[n].stream \in Streams /\ events[n].version \in Nat
                       /\ Versioned(events[n]) => events[n].version <= stream[events[n].stream].version
    BY <1>4, <1>6 DEF EventsAscend, Events
<1> HIDE DEF e, op, own, l
<1>14. EventsAscend'
  <2>1. ASSUME NEW n \in 1..l + 1, Versioned(events'[n])
        PROVE  events'[n].version <= stream'[events'[n].stream].version
    <3>1. CASE n = l + 1
        BY <1>1, <1>5, <1>9, <1>11, <1>12, <2>1, <3>1
    <3>2. CASE n \in 1..l
      <4>1. PICK x \in Events : x = events[n] /\ x = events'[n]
          BY <1>5, <1>6, <3>2
      <4>2. x.stream \in Streams /\ x.version \in Nat /\ Versioned(x)
          BY <2>1, <4>1 DEF Events
      <4>3. x.version <= stream[x.stream].version
          BY <1>13, <3>2, <4>1, <4>2
      <4>4. stream[x.stream].version \in Nat /\ stream[own].version \in Nat
          BY <1>1, <1>11, <4>2
      <4>5. CASE x.stream # own
        <5>1. stream'[x.stream] = stream[x.stream]
            BY <1>10, <4>2, <4>5
        <5> QED BY <4>1, <4>3, <5>1
      <4>6. CASE x.stream = own
        <5>1. stream' = stream \/ stream'[own].version = stream[own].version + 1
            BY <1>2, <1>9
        <5> QED BY <4>1, <4>2, <4>3, <4>4, <4>6, <5>1
      <4> QED BY <4>5, <4>6
    <3> QED BY <1>5, <3>1, <3>2
  <2>2. ASSUME NEW m \in 1..l + 1, NEW n \in 1..l + 1, m < n,
               Versioned(events'[m]), Versioned(events'[n]), events'[m].stream = events'[n].stream
        PROVE  events'[m].version < events'[n].version
    <3>1. m \in 1..l /\ events'[m] = events[m]
        BY <1>5, <2>2
    <3>2. CASE n = l + 1
      <4>1. PICK x \in Events : x = events[m] /\ x = events'[m]
          BY <1>6, <3>1
      <4>2. x.version \in Nat /\ Versioned(x) /\ events'[n] = e /\ x.stream = own
          BY <1>1, <1>5, <2>2, <3>2, <4>1 DEF Events
      <4>3. x.version <= stream[x.stream].version
          BY <1>13, <3>1, <4>1, <4>2
      <4>4. e.version = stream[own].version + 1 /\ stream[own].version \in Nat
          BY <1>1, <1>9, <1>11, <1>12, <2>2, <4>2
      <4> QED BY <4>1, <4>2, <4>3, <4>4
    <3>3. CASE n \in 1..l
        BY <1>4, <1>5, <2>2, <3>1, <3>3 DEF EventsAscend, l
    <3> QED BY <1>5, <3>2, <3>3
  <2> QED BY <1>5, <2>1, <2>2 DEF EventsAscend
<1>15. LastIsState'
  <2> SUFFICES ASSUME NEW n \in 1..l + 1, events'[n].kind \in Updates,
                      \A m \in 1..l + 1 : n < m => events'[m].kind \notin Updates
               PROVE  events'[n].value = runState'.value
      BY <1>5 DEF LastIsState
  <2>1. CASE n = l + 1
      BY <1>1, <1>2, <1>5, <2>1
  <2>2. CASE n \in 1..l
    <3>1. op.kind \notin Updates
      <4>1. l + 1 \in 1..l + 1 /\ n < l + 1
          BY <1>5, <2>2
      <4>2. events'[l + 1].kind \notin Updates
          BY <4>1
      <4> QED BY <1>1, <1>5, <4>2
    <3>2. runState' = runState
        BY <1>2, <3>1
    <3>3. events[n].kind \in Updates /\ \A m \in 1..l : n < m => events[m].kind \notin Updates
        BY <1>5, <2>2
    <3> QED BY <1>4, <1>5, <2>2, <3>2, <3>3 DEF LastIsState, l
  <2> QED BY <1>5, <2>1, <2>2
<1>16. Replayed'
  <2>1. runState' = Redo(t, op, runState)
    <3>1. op.kind \in Updates => tx[t].value = Apply(t, op, runState.value)
        BY <1>2, <1>4 DEF UpdatesLocked, InFlight, op
    <3> QED BY <1>2, <3>1 DEF Redo
  <2> QED BY <1>2, <1>3, <1>6, <2>1, ReplayedOnce DEF op, l
<1> QED BY <1>7, <1>8, <1>14, <1>15, <1>16 DEF HInv
-----------------------------------------------------------------------------
(* The event stream.                                                       *)

ClientType == [pc: {"off", "listed", "live"}, at: Replicas \cup {None}, got: Seq(RowType)]

\* What was announced is of a transaction that has its event.
GotWritten ==
    \A c \in Clients : \A i \in DOMAIN client[c].got :
        /\ client[c].got[i].event.writer \in Writers
        /\ tx[client[c].got[i].event.writer].pc \in {"event", "over"}

\* A row of the log, or the one that is about to be.
Real(r) == OfLog(r) \/ \E t \in Writers : tx[t].pc = "event" /\ r = tx[t].row[1]

\* StreamAscends, with the row that may still be committed.
RealAscends ==
    \A c \in Clients : \A i, j \in DOMAIN client[c].got :
        i < j /\ Real(client[c].got[i]) /\ Real(client[c].got[j])
            => client[c].got[i].seq < client[c].got[j].seq

CInv == client \in [Clients -> ClientType] /\ GotWritten /\ RealAscends

\* A step that tells no client keeps what is said of them, if it makes no row
\* real and no writer pending again.
LEMMA UntoldCInv ==
    ASSUME CInv, UNCHANGED client,
           \A t \in Writers : tx[t].pc \in {"event", "over"} => tx'[t].pc \in {"event", "over"},
           \A r \in RowType : Real(r)' => Real(r)
    PROVE  CInv'
<1>1. client' \in [Clients -> ClientType]
    BY DEF CInv
<1>2. GotWritten'
    BY DEF CInv, GotWritten
<1>3. \A c \in Clients : \A i \in DOMAIN client[c].got : client[c].got[i] \in RowType
  <2> SUFFICES ASSUME NEW c \in Clients, NEW i \in DOMAIN client[c].got PROVE client[c].got[i] \in RowType
      OBVIOUS
  <2>1. client[c].got \in Seq(RowType)
      BY DEF CInv, ClientType
  <2> QED BY <2>1, ElementOfSeq, LenProperties
<1>4. RealAscends'
  <2> SUFFICES ASSUME NEW c \in Clients, NEW i \in DOMAIN client[c].got, NEW j \in DOMAIN client[c].got,
                      i < j, Real(client[c].got[i])', Real(client[c].got[j])'
               PROVE  client[c].got[i].seq < client[c].got[j].seq
      BY DEF RealAscends
  <2>1. PICK r \in RowType : r = client[c].got[i]
      BY <1>3
  <2>2. PICK s \in RowType : s = client[c].got[j]
      BY <1>3
  <2>3. Real(r)' /\ Real(s)'
      BY <2>1, <2>2
  <2> QED BY <2>1, <2>2, <2>3 DEF CInv, RealAscends
<1> QED BY <1>1, <1>2, <1>4 DEF CInv

\* A transaction starts, takes its version or is rolled back.
LEMMA QuietCInv ==
    ASSUME IInv, CInv, NEW t \in Writers, OnlyTx(t), UNCHANGED <<events, client>>,
           \/ tx[t].pc \in {"idle", "value", "version"} /\ tx'[t].pc # "event"
           \/ tx'[t].pc = "over"
    PROVE  CInv'
<1>1. \A u \in Writers : tx'[u].pc = "event" => tx[u].pc = "event" /\ tx'[u] = tx[u]
    BY DEF OnlyTx
<1>2. \A r \in RowType : Real(r)' => Real(r)
    BY <1>1 DEF Real, OfLog
<1>3. \A u \in Writers : tx[u].pc \in {"event", "over"} => tx'[u].pc \in {"event", "over"}
    BY DEF OnlyTx
<1> QED BY <1>2, <1>3, UntoldCInv

\* It commits: its row becomes one of the log.
LEMMA CommitCInv ==
    ASSUME IInv, CInv, NEW t \in Writers, Commit(t)
    PROVE  CInv'
<1>1. /\ OnlyTx(t) /\ tx'[t].pc = "over"
      /\ events' = [n \in DOMAIN events \cup {Size + 1} |-> IF n = Size + 1 THEN EventOf(t) ELSE events[n]]
    BY CommitFacts
<1>2. /\ tx[t].pc = "event" /\ UNCHANGED client
      /\ tx[t].row[1] = [seq |-> Size + 1, event |-> EventOf(t)]
    BY DEF Commit, IInv, RowIsNext
<1>3. \A r \in RowType : Real(r)' => Real(r)
  <2> SUFFICES ASSUME NEW r \in RowType, Real(r)' PROVE Real(r)
      OBVIOUS
  <2>1. r = [seq |-> r.seq, event |-> r.event]
      BY DEF RowType
  <2>2. CASE OfLog(r)'
    <3>1. CASE r.seq = Size + 1
      <4>1. r.event = EventOf(t)
          BY <1>1, <2>2, <3>1 DEF OfLog
      <4> QED BY <1>2, <2>1, <3>1, <4>1 DEF Real
    <3>2. CASE r.seq # Size + 1
        BY <1>1, <2>2, <3>2 DEF OfLog, Real
    <3> QED BY <3>1, <3>2
  <2>3. CASE \E u \in Writers : tx'[u].pc = "event" /\ r = tx'[u].row[1]
      BY <1>1, <2>3 DEF OnlyTx, Real
  <2>4. OfLog(r)' \/ \E u \in Writers : tx'[u].pc = "event" /\ r = tx'[u].row[1]
      BY DEF Real
  <2> QED BY <2>2, <2>3, <2>4
<1>4. \A u \in Writers : tx[u].pc \in {"event", "over"} => tx'[u].pc \in {"event", "over"}
    BY <1>1 DEF OnlyTx
<1> QED BY <1>2, <1>3, <1>4, UntoldCInv

\* What a client has got, once a row is announced to it or not.
LEMMA NotifiedStep ==
    ASSUME CInv, NEW t \in Writers, NEW row \in RowType, NEW c \in Clients,
           client' = Notified(t, row)
    PROVE  /\ client' \in [Clients -> ClientType]
           /\ \/ client'[c].got = client[c].got
              \/ /\ Len(client[c].got) \in Nat /\ DOMAIN client[c].got = 1..Len(client[c].got)
                 /\ DOMAIN client'[c].got = 1..(Len(client[c].got) + 1)
                 /\ \A i \in DOMAIN client[c].got : client'[c].got[i] = client[c].got[i]
                 /\ client'[c].got[Len(client[c].got) + 1] = row
<1>1. \A d \in Clients :
          /\ client[d] \in ClientType
          /\ [client[d] EXCEPT !.got = Append(@, row)] \in ClientType
          /\ [client[d] EXCEPT !.got = Append(@, row)].got = Append(client[d].got, row)
  <2> SUFFICES ASSUME NEW d \in Clients
               PROVE  /\ client[d] \in ClientType
                      /\ [client[d] EXCEPT !.got = Append(@, row)] \in ClientType
                      /\ [client[d] EXCEPT !.got = Append(@, row)].got = Append(client[d].got, row)
      OBVIOUS
  <2> DEFINE got == Append(client[d].got, row)
  <2>1. client[d] \in ClientType
      BY DEF CInv
  <2>2. got \in Seq(RowType)
      BY <2>1 DEF ClientType
  <2> HIDE DEF got
  <2>3. [client[d] EXCEPT !.got = got] \in ClientType /\ [client[d] EXCEPT !.got = got].got = got
      BY <2>1, <2>2 DEF ClientType
  <2> QED BY <2>1, <2>3 DEF got
<1> DEFINE told(d) == [client[d] EXCEPT !.got = Append(@, row)]
<1>2. client' = [d \in Clients |-> IF client[d].pc = "live" /\ client[d].at = tx[t].at
                                   THEN told(d) ELSE client[d]]
    BY DEF Notified
<1>3. /\ \A d \in Clients : told(d) \in ClientType /\ client[d] \in ClientType
      /\ told(c).got = Append(client[c].got, row)
    BY <1>1
<1> HIDE DEF told
<1>4. client' \in [Clients -> ClientType]
    BY <1>2, <1>3
<1>5. client'[c].got = client[c].got \/ client'[c].got = Append(client[c].got, row)
    BY <1>2, <1>3
<1>6. client[c].got \in Seq(RowType)
    BY <1>3 DEF ClientType
<1>7. CASE client'[c].got = Append(client[c].got, row)
  <2> DEFINE s == client[c].got
  <2>1. s \in Seq(RowType) /\ client'[c].got = Append(s, row)
      BY <1>6, <1>7
  <2> HIDE DEF s
  <2>2. /\ Len(s) \in Nat /\ DOMAIN s = 1..Len(s)
        /\ DOMAIN Append(s, row) = 1..(Len(s) + 1)
        /\ \A i \in 1..Len(s) : Append(s, row)[i] = s[i]
        /\ Append(s, row)[Len(s) + 1] = row
      BY <2>1
  <2> QED BY <1>4, <2>1, <2>2 DEF s
<1> QED BY <1>4, <1>5, <1>7

\* It announces its event: nothing else is real beyond the log.
LEMMA AppendCInv ==
    ASSUME IInv, CInv, NEW t \in Writers, AppendEvent(t)
    PROVE  CInv'
<1> DEFINE row == [seq |-> NextSeq, event |-> EventOf(t)]
           l   == Size
<1>1. row \in RowType /\ row.seq = l + 1 /\ row.event.writer = t /\ l \in Nat
    BY AppendedRow DEF EventOf
<1>2. /\ UNCHANGED events /\ client' = Notified(t, row) /\ tx[t].pc = "logged" /\ eventLock = t
      /\ tx' = [tx EXCEPT ![t].pc = "event", ![t].row = <<row>>]
    BY DEF AppendEvent, IInv, LocksHeld
<1> HIDE DEF row
<1>3. OnlyTx(t) /\ tx'[t].pc = "event" /\ tx'[t].row[1] = row
  <2>1. Typed /\ tx' = [tx EXCEPT ![t].pc = "event", ![t].row = <<row>>]
      BY <1>2 DEF IInv
  <2>2. OnlyTx(t) /\ tx'[t].pc = "event" /\ tx'[t].row = <<row>>
      BY <1>1, <2>1, EventStep
  <2> QED BY <2>2
<1>4. \A u \in Writers : tx[u].pc # "event"
    BY <1>2 DEF IInv, LocksHeld
<1>5. \A u \in Writers : tx'[u].pc = "event" => u = t
    BY <1>3, <1>4 DEF OnlyTx
<1>6. \A r : OfLog(r) => r.seq \in 1..l
    BY DEF OfLog, IInv, LogDense
<1>7. \A c \in Clients : \A i \in DOMAIN client[c].got : client[c].got[i] # row
    BY <1>1, <1>2 DEF CInv, GotWritten
<1>8. \A r : Real(r)' => OfLog(r) \/ r = row
    BY <1>2, <1>3, <1>5 DEF Real, OfLog
<1>9. ASSUME NEW c \in Clients, NEW i \in DOMAIN client[c].got, NEW r, r = client[c].got[i], Real(r)'
      PROVE  OfLog(r) /\ Real(r) /\ r.seq \in 1..l
    BY <1>6, <1>7, <1>8, <1>9 DEF Real
<1>10. \A c \in Clients :
          /\ client' \in [Clients -> ClientType]
          /\ \/ client'[c].got = client[c].got
             \/ /\ Len(client[c].got) \in Nat /\ DOMAIN client[c].got = 1..Len(client[c].got)
                /\ DOMAIN client'[c].got = 1..(Len(client[c].got) + 1)
                /\ \A i \in DOMAIN client[c].got : client'[c].got[i] = client[c].got[i]
                /\ client'[c].got[Len(client[c].got) + 1] = row
    BY <1>1, <1>2, NotifiedStep
<1>11. \A c \in Clients : \A i \in DOMAIN client'[c].got :
           \/ i \in DOMAIN client[c].got /\ client'[c].got[i] = client[c].got[i]
           \/ /\ client'[c].got[i] = row /\ \A j \in DOMAIN client'[c].got : j <= i
  <2> SUFFICES ASSUME NEW c \in Clients, NEW i \in DOMAIN client'[c].got
               PROVE  \/ i \in DOMAIN client[c].got /\ client'[c].got[i] = client[c].got[i]
                      \/ /\ client'[c].got[i] = row /\ \A j \in DOMAIN client'[c].got : j <= i
      OBVIOUS
  <2>1. CASE client'[c].got = client[c].got
      BY <2>1
  <2>2. CASE client'[c].got # client[c].got
    <3> DEFINE k == Len(client[c].got)
    <3>1. /\ k \in Nat /\ DOMAIN client[c].got = 1..k /\ DOMAIN client'[c].got = 1..(k + 1)
          /\ client'[c].got[k + 1] = row
          /\ \A n \in 1..k : client'[c].got[n] = client[c].got[n]
        BY <1>10, <2>2
    <3> HIDE DEF k
    <3> QED BY <3>1
  <2> QED BY <2>1, <2>2
<1>12. GotWritten'
  <2> SUFFICES ASSUME NEW c \in Clients, NEW i \in DOMAIN client'[c].got
               PROVE  /\ client'[c].got[i].event.writer \in Writers
                      /\ tx'[client'[c].got[i].event.writer].pc \in {"event", "over"}
      BY DEF GotWritten
  <2>1. CASE client'[c].got[i] = row
      BY <1>1, <1>3, <2>1
  <2>2. CASE i \in DOMAIN client[c].got /\ client'[c].got[i] = client[c].got[i]
      BY <1>3, <2>2 DEF CInv, GotWritten, OnlyTx
  <2> QED BY <1>11, <2>1, <2>2
<1>13. RealAscends'
  <2> SUFFICES ASSUME NEW c \in Clients, NEW i \in DOMAIN client'[c].got, NEW j \in DOMAIN client'[c].got,
                      i < j, Real(client[c].got[i])', Real(client[c].got[j])'
               PROVE  client'[c].got[i].seq < client'[c].got[j].seq
      BY DEF RealAscends
  <2>1. PICK r : r = client'[c].got[i]
      OBVIOUS
  <2>2. PICK s : s = client'[c].got[j]
      OBVIOUS
  <2>3. Real(r)' /\ Real(s)'
      BY <2>1, <2>2
  <2>4. i \in DOMAIN client[c].got /\ r = client[c].got[i]
    <3>1. i \in Int /\ j \in Int
        BY <1>10, LenProperties DEF ClientType
    <3>2. ~(j <= i)
        BY <3>1
    <3> QED BY <1>11, <2>1, <3>2
  <2>5. OfLog(r) /\ Real(r) /\ r.seq \in 1..l
      BY <1>9, <2>3, <2>4
  <2>6. CASE s = row
      BY <1>1, <2>1, <2>2, <2>5, <2>6
  <2>7. CASE j \in DOMAIN client[c].got /\ s = client[c].got[j]
    <3>1. Real(s)
        BY <1>9, <2>3, <2>7
    <3>2. r.seq < s.seq
        BY <2>4, <2>5, <2>7, <3>1 DEF CInv, RealAscends
    <3> QED BY <2>1, <2>2, <3>2
  <2> QED BY <1>11, <2>2, <2>6, <2>7
<1>14. client' \in [Clients -> ClientType]
  <2>1. CASE Clients = {}
    <3>1. client' = [c \in Clients |-> client'[c]]
        BY <1>2 DEF Notified
    <3> QED BY <2>1, <3>1
  <2>2. CASE Clients # {}
      BY <1>10, <2>2
  <2> QED BY <2>1, <2>2
<1> QED BY <1>12, <1>13, <1>14 DEF CInv

\* The rows that a list of events returns are those of the log, in its order.
LEMMA RowsFacts ==
    ASSUME IInv, HInv, NEW after \in Afters
    PROVE  /\ Rows(after) \in Seq(RowType)
           /\ \A i \in DOMAIN Rows(after) :
                 /\ i \in Nat /\ Rows(after)[i].seq = after + i /\ after \in Nat
                 /\ Rows(after)[i].event.writer \in Writers
                 /\ tx[Rows(after)[i].event.writer].pc \in {"event", "over"}
<1> DEFINE l == Size
           k == IF after < l THEN l - after ELSE 0
<1>1. l \in Nat /\ after \in Nat /\ k \in Nat /\ \A i \in 1..k : after + i \in 1..l
    BY DEF IInv, LogDense
<1>2. Max(DOMAIN events \cup {0}) = l
  <2>1. Max(DOMAIN events \cup {0}) + 1 = l + 1
      BY NextSeqIsNext DEF NextSeq, IInv
  <2>2. Max(DOMAIN events \cup {0}) \in DOMAIN events \cup {0}
    <3>1. l \in (1..l) \cup {0} /\ \A y \in (1..l) \cup {0} : l >= y
        BY <1>1
    <3>2. DOMAIN events = 1..l
        BY DEF IInv, LogDense
    <3> QED BY <3>1, <3>2 DEF Max
  <2>3. Max(DOMAIN events \cup {0}) \in Nat
      BY <1>1, <2>2 DEF IInv, LogDense
  <2> QED BY <1>1, <2>1, <2>3
<1>3. Rows(after) = [i \in 1..k |-> [seq |-> after + i, event |-> events[after + i]]]
    BY <1>2 DEF Rows
<1>4. \A n \in 1..l : /\ events[n] \in Events
                       /\ tx[events[n].writer].pc = "over"
  <2> SUFFICES ASSUME NEW n \in 1..l PROVE events[n] \in Events /\ tx[events[n].writer].pc = "over"
      OBVIOUS
  <2>1. /\ history[n] \in Writers /\ tx[history[n]].pc = "over" /\ events[n] = EventOf(history[n])
      BY ElementOfSeq DEF HInv, HistoryIsLog
  <2> QED BY <2>1, EventTyped DEF EventOf, IInv
<1> HIDE DEF l, k
<1>5. \A i \in 1..k : [seq |-> after + i, event |-> events[after + i]] \in RowType
    BY <1>1, <1>4 DEF RowType
<1>6. Rows(after) \in [1..k -> RowType]
    BY <1>3, <1>5
<1>7. Rows(after) \in Seq(RowType) /\ DOMAIN Rows(after) = 1..k
    BY <1>1, <1>6, SeqDef
<1>8. \A i \in 1..k : Rows(after)[i].seq = after + i /\ Rows(after)[i].event = events[after + i]
    BY <1>3
<1>9. \A i \in 1..k : /\ events[after + i].writer \in Writers
                       /\ tx[events[after + i].writer].pc = "over"
    BY <1>1, <1>4 DEF Events
<1>10. ASSUME NEW i \in 1..k
       PROVE  /\ i \in Nat /\ Rows(after)[i].seq = after + i
              /\ Rows(after)[i].event.writer \in Writers
              /\ tx[Rows(after)[i].event.writer].pc \in {"event", "over"}
  <2>1. PICK e : e = events[after + i]
      OBVIOUS
  <2>2. e.writer \in Writers /\ tx[e.writer].pc = "over"
      BY <1>9, <2>1
  <2>3. i \in Nat
      BY <1>1
  <2> QED BY <1>8, <2>1, <2>2, <2>3
<1> QED BY <1>1, <1>7, <1>10

\* A client lists, subscribes or goes away.
LEMMA ClientCInv ==
    ASSUME IInv, HInv, CInv, NEW c \in Clients,
           \/ \E at \in Replicas, after \in Afters : ListEvents(c, at, after)
           \/ Subscribe(c) \/ Disconnect(c)
    PROVE  CInv'
<1>1. UNCHANGED <<events, tx>>
    BY DEF ListEvents, Subscribe, Disconnect
<1>2. \A r : Real(r)' <=> Real(r)
    BY <1>1 DEF Real, OfLog
<1>3. /\ client' \in [Clients -> ClientType]
      /\ \A d \in Clients \ {c} : client'[d] = client[d]
      /\ \/ client'[c].got = client[c].got
         \/ client'[c].got = <<>>
         \/ \E after \in Afters : client'[c].got = Rows(after)
  <2>1. ASSUME NEW at \in Replicas, NEW after \in Afters, ListEvents(c, at, after)
        PROVE  /\ client' \in [Clients -> ClientType] /\ client'[c].got = Rows(after)
               /\ \A d \in Clients \ {c} : client'[d] = client[d]
    <3> DEFINE got == Rows(after)
               x == [pc |-> "listed", at |-> at, got |-> got]
    <3>1. got \in Seq(RowType)
        BY RowsFacts
    <3> HIDE DEF got
    <3>2. x \in ClientType /\ x.got = got
        BY <3>1 DEF ClientType
    <3>3. client' = [client EXCEPT ![c] = x]
        BY <2>1 DEF ListEvents, got
    <3> HIDE DEF x
    <3> QED BY <3>2, <3>3 DEF CInv, got
  <2>2. CASE Subscribe(c)
    <3>1. client[c] \in ClientType /\ client' = [client EXCEPT ![c].pc = "live"]
        BY <2>2 DEF Subscribe, CInv
    <3>2. [client[c] EXCEPT !.pc = "live"] \in ClientType
          /\ [client[c] EXCEPT !.pc = "live"].got = client[c].got
        BY <3>1 DEF ClientType
    <3> QED BY <3>1, <3>2 DEF CInv
  <2>3. CASE Disconnect(c)
    <3> DEFINE x == [pc |-> "off", at |-> None, got |-> <<>>]
    <3>1. x \in ClientType /\ x.got = <<>>
        BY EmptySeq DEF ClientType
    <3>2. client' = [client EXCEPT ![c] = x]
        BY <2>3 DEF Disconnect
    <3> HIDE DEF x
    <3> QED BY <3>1, <3>2 DEF CInv
  <2> QED BY <2>1, <2>2, <2>3
<1>4. GotWritten'
  <2> SUFFICES ASSUME NEW d \in Clients, NEW i \in DOMAIN client'[d].got
               PROVE  /\ client'[d].got[i].event.writer \in Writers
                      /\ tx[client'[d].got[i].event.writer].pc \in {"event", "over"}
      BY <1>1 DEF GotWritten
  <2>1. CASE client'[d].got = client[d].got
      BY <2>1 DEF CInv, GotWritten
  <2>2. CASE d = c /\ client'[c].got = <<>>
      BY <2>2
  <2>3. CASE d = c /\ \E after \in Afters : client'[c].got = Rows(after)
      BY <2>3, RowsFacts
  <2> QED BY <1>3, <2>1, <2>2, <2>3
<1>5. RealAscends'
  <2> SUFFICES ASSUME NEW d \in Clients, NEW i \in DOMAIN client'[d].got, NEW j \in DOMAIN client'[d].got,
                      i < j, Real(client[d].got[i])', Real(client[d].got[j])'
               PROVE  client'[d].got[i].seq < client'[d].got[j].seq
      BY DEF RealAscends
  <2>1. CASE client'[d].got = client[d].got
    <3>1. PICK r : r = client'[d].got[i]
        OBVIOUS
    <3>2. PICK s : s = client'[d].got[j]
        OBVIOUS
    <3>3. Real(r) /\ Real(s)
      <4>1. Real(r)' /\ Real(s)'
          BY <3>1, <3>2
      <4> QED BY <1>2, <4>1
    <3> QED BY <2>1, <3>1, <3>2, <3>3 DEF CInv, RealAscends
  <2>2. CASE d = c /\ client'[c].got = <<>>
      BY <2>2
  <2>3. CASE d = c /\ \E after \in Afters : client'[c].got = Rows(after)
      BY <2>3, RowsFacts
  <2> QED BY <1>3, <2>1, <2>2, <2>3
<1> QED BY <1>3, <1>4, <1>5 DEF CInv

\* Every step keeps what is said of the state, the log, the history and the clients.
LEMMA NextSInv ==
    ASSUME IInv, HInv, CInv, [Next]_vars
    PROVE  HInv' /\ CInv'
<1>1. ASSUME NEW t \in Writers, NEW op \in Ops, NEW at \in Replicas,
             WriteState(t, op, at) \/ ReadForSave(t, op, at) \/ Snapshot(t, op, at)
                 \/ LockRun(t, op, at) \/ Other(t, op, at)
      PROVE  HInv' /\ CInv'
  <2>1. HInv'
      BY <1>1, StartsHInv
  <2>2. OnlyTx(t) /\ UNCHANGED <<events, client>> /\ tx[t].pc = "idle" /\ tx'[t].pc # "event"
      BY <1>1, StartsOnly
  <2> QED BY <2>1, <2>2, QuietCInv
<1>2. ASSUME NEW t \in Writers, RecordVersion(t)
      PROVE  HInv' /\ CInv'
  <2>1. HInv' /\ OnlyTx(t)
      BY <1>2, GoesOnHInv
  <2>2. UNCHANGED <<events, client>> /\ tx[t].pc = "value" /\ tx'[t].pc # "event"
    <3>1. tx[t].op.stream \in Streams
        BY OpFacts DEF IInv, Typed, TxType, NoOp
    <3>2. stream[tx[t].op.stream].version + 1 \in Nat /\ Typed
        BY <3>1 DEF IInv, Typed
    <3>3. tx'[t].pc = "version"
        BY <1>2, <3>2, VersionStep DEF RecordVersion
    <3> QED BY <1>2, <3>3 DEF RecordVersion
  <2> QED BY <2>1, <2>2, QuietCInv
<1>3. ASSUME NEW t \in Writers, AppendEvent(t) \/ Commit(t)
      PROVE  HInv' /\ CInv'
    BY <1>3, GoesOnHInv, CommitHInv, AppendCInv, CommitCInv
<1>4. ASSUME NEW t \in Writers, Rollback(t)
      PROVE  HInv' /\ CInv'
  <2>1. OnlyTx(t) /\ UNCHANGED <<events, client>> /\ tx'[t].pc = "over"
      BY <1>4, OverStep DEF Rollback, IInv
  <2> QED BY <1>4, <2>1, RollbackHInv, QuietCInv
<1>5. ASSUME UNCHANGED <<runState, stream, versions, events, locks, tx, history>>
      PROVE  HInv'
  <2>1. UpdatesLocked' /\ HistoryIsLog' /\ EventsAscend' /\ LastIsState'
      BY <1>5 DEF HInv, UpdatesLocked, HistoryIsLog, EventsAscend, LastIsState, InFlight, Size, EventOf, locks
  <2>2. Replayed'
      BY <1>5 DEF HInv, Replayed, IsReplay
  <2> QED BY <2>1, <2>2 DEF HInv
<1>6. ASSUME NEW c \in Clients,
             \/ \E at \in Replicas, after \in Afters : ListEvents(c, at, after)
             \/ Subscribe(c) \/ Disconnect(c)
      PROVE  HInv' /\ CInv'
  <2>1. CInv'
      BY <1>6, ClientCInv
  <2>2. HInv'
      BY <1>5, <1>6 DEF ListEvents, Subscribe, Disconnect
  <2> QED BY <2>1, <2>2
<1>7. CASE UNCHANGED vars
  <2>1. HInv'
      BY <1>5, <1>7 DEF vars, locks
  <2>2. CInv'
      BY <1>7, UntoldCInv DEF vars, Real, OfLog
  <2> QED BY <2>1, <2>2
<1>8. ASSUME NEW t \in Writers, LockLog(t)
      PROVE  HInv' /\ CInv'
  <2>1. HInv' /\ OnlyTx(t)
      BY <1>8, GoesOnHInv
  <2>2. UNCHANGED <<events, client>> /\ tx[t].pc = "version" /\ tx'[t].pc # "event"
    <3>1. tx'[t].pc = "logged"
        BY <1>8, LoggedStep DEF LockLog, IInv
    <3> QED BY <1>8, <3>1 DEF LockLog
  <2> QED BY <2>1, <2>2, QuietCInv
<1> QED BY <1>1, <1>2, <1>3, <1>4, <1>6, <1>7, <1>8 DEF Next
-----------------------------------------------------------------------------
(* The theorems about the state, the log and the event stream.             *)

\* What is said of the state, the log and the clients holds at first.
LEMMA InitSInv ==
    ASSUME Init
    PROVE  HInv /\ CInv
<1>1. DOMAIN events = {} /\ Size = 0 /\ history = <<>> /\ Len(history) = 0
    BY FS_EmptySet DEF Init, Size
<1>2. \A t \in Writers : tx[t].pc = "idle" /\ tx[t].op = NoOp
    BY DEF Init, NoTx
<1>3. UpdatesLocked
    BY <1>2 DEF UpdatesLocked, InFlight, Init
<1>4. HistoryIsLog
    BY <1>1, EmptySeq DEF HistoryIsLog
<1>5. EventsAscend /\ LastIsState
    BY <1>1 DEF EventsAscend, LastIsState
<1>6. Replayed
  <2> DEFINE f == [i \in 0..0 |-> [value |-> Blank, version |-> 0]]
             g == [i \in 0..0 |-> IF i = 0 THEN [value |-> Blank, version |-> 0]
                                  ELSE Redo(history[i], tx[history[i]].op, f[i - 1])]
  <2>1. f = g
      OBVIOUS
  <2>2. IsReplay(f) /\ f[Len(history)] = runState
      BY <1>1, <2>1 DEF IsReplay, Init
  <2> HIDE DEF f
  <2> QED BY <2>2 DEF Replayed
<1>7. client = [c \in Clients |-> [pc |-> "off", at |-> None, got |-> <<>>]]
    BY DEF Init
<1>8. client \in [Clients -> ClientType] /\ \A c \in Clients : client[c].got = <<>>
    BY <1>7, EmptySeq DEF ClientType
<1>9. GotWritten /\ RealAscends
    BY <1>8 DEF GotWritten, RealAscends
<1> QED BY <1>3, <1>4, <1>5, <1>6, <1>8, <1>9 DEF HInv, CInv

\* The inductive invariant of the state, the log and the event stream: an update
\* holds the state it read, the log is the history of the commits, and a client has
\* what is of the log, or may become so, in order.
THEOREM StoryInvariant == Spec => [](HInv /\ CInv)
<1>1. Init => HInv /\ CInv
    BY InitSInv
<1>2. IInv /\ (HInv /\ CInv) /\ [Next]_vars => (HInv /\ CInv)'
    BY NextSInv
<1> QED BY <1>1, <1>2, RunLogInvariant, PTL DEF Spec

\* Only one sequence of states is the replay of a history: two agree up to any
\* place, for they would have to differ first somewhere.
LEMMA ReplayUnique ==
    ASSUME HInv, NEW f, NEW g, IsReplay(f), IsReplay(g)
    PROVE  f[Len(history)] = g[Len(history)]
<1> DEFINE k == Len(history)
           D == {i \in 0..k : f[i] # g[i]}
<1>1. k \in Nat
    BY LenProperties DEF HInv, HistoryIsLog
<1>2. ASSUME NEW i \in D
      PROVE  i - 1 \in D
  <2>1. i \in 0..k /\ f[i] # g[i]
      OBVIOUS
  <2>2. i # 0
      BY <1>1, <2>1 DEF IsReplay
  <2>3. /\ f[i] = Redo(history[i], tx[history[i]].op, f[i - 1])
        /\ g[i] = Redo(history[i], tx[history[i]].op, g[i - 1])
      BY <2>1, <2>2 DEF IsReplay
  <2>4. f[i - 1] # g[i - 1] /\ i - 1 \in 0..k
      BY <1>1, <2>1, <2>2, <2>3
  <2> QED BY <2>4
<1>3. D = {}
  <2> SUFFICES ASSUME D # {} PROVE FALSE
      OBVIOUS
  <2>1. D \subseteq Nat
      BY <1>1
  <2> DEFINE R == OpToRel(<, Nat)
  <2>2. IsWellFoundedOn(R, Nat)
      BY NatLessThanWellFounded
  <2>3. \E i \in D : \A j \in D : ~ (<<j, i>> \in R)
    <3> HIDE DEF R, D
    <3> QED BY <2>1, <2>2, WFMin
  <2>4. PICK i \in D : \A j \in D : ~ (<<j, i>> \in R)
      BY <2>3
  <2>5. i - 1 \in D /\ i \in Nat /\ i - 1 \in Nat
    <3>1. i - 1 \in D
        BY <1>2
    <3> HIDE DEF D
    <3> QED BY <2>1, <3>1
  <2>6. ~(i - 1 < i)
    <3> HIDE DEF D
    <3> QED BY <2>4, <2>5 DEF OpToRel
  <2> HIDE DEF D
  <2> QED BY <2>5, <2>6
<1> QED BY <1>1, <1>3

\* No update of the state is lost: the state is what the committed puts and
\* patches make of the first one, in the order of their commits.
THEOREM NoUpdateIsLost == Spec => []StateIsReplay
<1>1. ASSUME HInv PROVE StateIsReplay
  <2>1. PICK f : IsReplay(f) /\ f[Len(history)] = runState
      BY <1>1 DEF HInv, Replayed
  <2>2. IsReplay(Replay)
      BY <2>1 DEF Replay, IsReplay
  <2>3. Replay[Len(history)] = f[Len(history)]
      BY <1>1, <2>1, <2>2, ReplayUnique
  <2> QED BY <2>1, <2>3 DEF StateIsReplay
<1> QED BY <1>1, StoryInvariant, PTL

\* The maximum of places is one of them and none is larger.
LEMMA MaxIsGreatest ==
    ASSUME NEW k \in Nat, NEW S \in SUBSET (1..k), S # {}
    PROVE  Max(S) \in S /\ \A y \in S : Max(S) >= y
<1> DEFINE Bounds == {u \in Nat : \A x \in S : x <= u}
           R == OpToRel(<, Nat)
<1>1. IsWellFoundedOn(R, Nat)
    BY NatLessThanWellFounded
<1>2. Bounds \subseteq Nat /\ k \in Bounds
    OBVIOUS
<1>3. \E u \in Bounds : \A v \in Bounds : ~ (<<v, u>> \in R)
  <2> HIDE DEF R, Bounds
  <2> QED BY <1>1, <1>2, WFMin
<1>4. PICK u \in Bounds : \A v \in Bounds : ~ (<<v, u>> \in R)
    BY <1>3
<1>5. \A v \in Bounds : ~(v < u)
    BY <1>4 DEF OpToRel
<1>6. u \in S
  <2> SUFFICES ASSUME u \notin S PROVE FALSE
      OBVIOUS
  <2>1. \A x \in S : x \in Nat /\ 1 <= x /\ x <= u /\ x # u
      OBVIOUS
  <2>2. u - 1 \in Nat /\ \A x \in S : x <= u - 1
    <3>1. PICK x \in S : TRUE
        OBVIOUS
    <3>2. u \in Nat /\ x \in Nat /\ 1 <= x /\ x <= u
        BY <2>1
    <3>3. \A y \in S : y <= u - 1
        BY <2>1, <3>2
    <3> QED BY <3>2, <3>3
  <2>3. u - 1 \in Bounds /\ u - 1 < u
      BY <2>2
  <2> QED BY <1>5, <2>3
<1>7. \E x \in S : \A y \in S : x >= y
    BY <1>6
<1> QED BY <1>7 DEF Max

\* The log, the versions and the state tell one story.
THEOREM LogIsTheStory == Spec => []LogTellsState
<1>1. ASSUME IInv, HInv PROVE LogTellsState
  <2>1. Size \in Nat /\ DOMAIN events = 1..Size
      BY <1>1 DEF IInv, LogDense
  <2>2. [n \in DOMAIN events |-> events[n].writer] = history
    <3>1. /\ history \in Seq(Writers) /\ Len(history) = Size
          /\ \A n \in 1..Size : events[n] = EventOf(history[n])
        BY <1>1 DEF HInv, HistoryIsLog
    <3>2. history = [n \in 1..Size |-> history[n]]
        BY <3>1
    <3>3. \A t : EventOf(t).writer = t
        BY DEF EventOf
    <3>4. \A n \in 1..Size : events[n].writer = history[n]
        BY <3>1, <3>3
    <3> QED BY <2>1, <3>2, <3>4
  <2>3. \A m, n \in DOMAIN events :
            m < n /\ Versioned(events[m]) /\ Versioned(events[n]) /\ events[m].stream = events[n].stream
                => events[m].version < events[n].version
      BY <1>1, <2>1 DEF HInv, EventsAscend
  <2>4. ASSUME NEW updates, updates = {n \in DOMAIN events : events[n].kind \in Updates},
               updates # {}
        PROVE  events[Max(updates)].value = runState.value
    <3>1. updates \in SUBSET (1..Size)
        BY <2>1, <2>4
    <3>2. Max(updates) \in updates /\ \A y \in updates : Max(updates) >= y
        BY <2>1, <2>4, <3>1, MaxIsGreatest
    <3>3. PICK x : x = Max(updates)
        OBVIOUS
    <3>4. x \in 1..Size /\ events[x].kind \in Updates
        BY <2>1, <2>4, <3>2, <3>3
    <3>5. ASSUME NEW m \in 1..Size, x < m
          PROVE  events[m].kind \notin Updates
      <4>1. m \in updates => x >= m
          BY <3>2, <3>3
      <4> QED BY <2>1, <2>4, <3>4, <3>5, <4>1
    <3>6. events[x].value = runState.value
        BY <1>1, <3>4, <3>5 DEF HInv, LastIsState
    <3> QED BY <3>3, <3>6
  <2> QED BY <2>2, <2>3, <2>4 DEF LogTellsState
<1> QED BY <1>1, RunLogInvariant, StoryInvariant, PTL

\* What a connection is sent of the log comes in the order of the log, and once.
THEOREM StreamsAscend == Spec => []StreamAscends
<1>1. HInv /\ CInv => StreamAscends
    BY DEF CInv, RealAscends, Real, StreamAscends
<1> QED BY <1>1, StoryInvariant, PTL

\* The variables have their types.
THEOREM RunLogTyped == Spec => []TypeOK
<1>1. Init => versions \subseteq Events
    BY DEF Init
<1>2. ASSUME IInv, versions \subseteq Events, [Next]_vars
      PROVE  (versions \subseteq Events)'
  <2>1. ASSUME NEW t \in Writers, Commit(t)
        PROVE  versions' \subseteq Events
    <3>1. tx[t].row[1].event = EventOf(t)
      <4>1. tx[t].pc = "event"
          BY <2>1 DEF Commit
      <4>2. tx[t].row[1] = [seq |-> Size + 1, event |-> EventOf(t)]
          BY <1>2, <4>1 DEF IInv, RowIsNext
      <4> QED BY <4>2
    <3>2. EventOf(t) \in Events
        BY <1>2, EventTyped DEF IInv
    <3>3. versions' \subseteq versions \cup {EventOf(t)}
        BY <2>1, <3>1 DEF Commit
    <3> QED BY <1>2, <3>2, <3>3
  <2>2. (\A t \in Writers : ~Commit(t)) => UNCHANGED versions
      BY <1>2, ZenonT(30) DEF Next, vars, WriteState, ReadForSave, Snapshot, LockRun, Other,
                              RecordVersion, LockLog, AppendEvent, Rollback,
                              ListEvents, Subscribe, Disconnect
  <2> QED BY <1>2, <2>1, <2>2
<1>3. ASSUME IInv, HInv, CInv, versions \subseteq Events PROVE TypeOK
  <2>1. \A n \in DOMAIN events : n \in Nat /\ events[n] \in Events
    <3> SUFFICES ASSUME NEW n \in DOMAIN events PROVE n \in Nat /\ events[n] \in Events
        OBVIOUS
    <3>1. n \in 1..Size /\ Size \in Nat
        BY <1>3 DEF IInv, LogDense
    <3>2. PICK t : t = history[n]
        OBVIOUS
    <3>3. events[n] = EventOf(t) /\ t \in Writers
        BY <1>3, <3>1, <3>2 DEF HInv, HistoryIsLog
    <3>4. EventOf(t) \in Events
        BY <1>3, <3>3, EventTyped DEF IInv
    <3> QED BY <3>1, <3>3, <3>4
  <2> QED BY <1>3, <2>1 DEF TypeOK, IInv, Typed, TxType, HInv, HistoryIsLog, CInv, ClientType, RowType
<1> QED BY <1>1, <1>2, <1>3, RunLogInvariant, StoryInvariant, PTL DEF Spec
=============================================================================
