-------------------------------- MODULE RunLog --------------------------------
(***************************************************************************)
(* The state of one run, its versions, its event log and the clients that  *)
(* stream it.  Writers are transactions: what they write is private until  *)
(* the commit, the locks they take are held until the commit.              *)
(*                                                                         *)
(* A put or a patch locks the row of run_state, then the row of a stream,  *)
(* then the event log.  A save reads its value without a lock, then locks  *)
(* the stream.  Handlers of the run's lifecycle start by locking its row   *)
(* FOR UPDATE.  An insert that refers to the run (a version, an event)     *)
(* shares that row FOR KEY SHARE, and waits for who has it FOR UPDATE.     *)
(* Listeners are called when an event is inserted, before the commit, and  *)
(* only in the process of the writer.                                      *)
(***************************************************************************)
EXTENDS Naturals, FiniteSetsExt, SequencesExt

CONSTANTS
    Writers,    \* BOUND: transactions, each runs once
    Ops,        \* what they may do, see OpType
    Keys,       \* the keys of the state
    Streams,    \* the names of the streams; "run" is that of the state
    Clients,    \* connections to GET /runs/:runId/events
    Replicas,   \* server processes
    None,
    Afters      \* BOUND: the values of ?after=

Updates == {"put", "patch"}
Kinds   == Updates \cup {"save", "snapshot", "lifecycle", "other"}
OpType  == [kind: Kinds, stream: Streams, keys: SUBSET Keys]

ASSUME RunLogConstants ==
    /\ Ops \subseteq OpType /\ "run" \in Streams
    /\ None \notin Writers /\ Afters \subseteq Nat

VARIABLES
    runState,   \* run_state
    stream,     \* state_streams: current_version, current_value_json
    versions,   \* state_versions
    events,     \* the committed rows of events: a function of seq
    runLock,    \* who holds the run's row FOR UPDATE
    stateLock, streamLock, eventLock,   \* who holds them
    tx,         \* the transaction of each writer and what it has written
    client,     \* what each connection was sent
    history     \* the writers that committed, in that order

locks == <<runLock, stateLock, streamLock, eventLock>>
vars == <<runState, stream, versions, events, locks, tx, client, history>>

Values == [Keys -> Writers \cup {None}]
Blank  == [k \in Keys |-> None]

\* idle, value: it has its value, version: and its version,
\* logged: and the event log, event: and its event
PCs    == {"idle", "value", "version", "logged", "event", "over"}
Events == [writer: Writers, kind: Kinds, stream: Streams, version: Nat, value: Values]
NoOp   == [kind |-> "other", stream |-> "run", keys |-> {}]
NoTx   == [pc |-> "idle", op |-> NoOp, at |-> None, value |-> Blank, version |-> 0, row |-> <<>>]

Init ==
    /\ runState = [value |-> Blank, version |-> 0]
    /\ stream = [s \in Streams |-> [value |-> Blank, version |-> 0]]
    /\ versions = {}
    /\ events = <<>>
    /\ runLock = None
    /\ stateLock = None /\ streamLock = [s \in Streams |-> None] /\ eventLock = None
    /\ tx = [t \in Writers |-> NoTx]
    /\ client = [c \in Clients |-> [pc |-> "off", at |-> None, got |-> <<>>]]
    /\ history = <<>>
-----------------------------------------------------------------------------
(* The statements of a transaction.                                        *)

\* What an operation of t makes of a state.
Apply(t, op, old) ==
    [k \in Keys |-> IF k \in op.keys THEN t ELSE IF op.kind = "patch" THEN old[k] ELSE None]

Starts(t, op, at, value, pc) ==
    /\ tx[t].pc = "idle"
    /\ tx' = [tx EXCEPT ![t] = [pc |-> pc, op |-> op, at |-> at, value |-> value,
                                version |-> 0, row |-> <<>>]]

\* Fault: the state is read, merged and written back in statements of their own.
WriteStateUnlocked(t, op, at) ==
    /\ op.kind \in Updates
    /\ Starts(t, op, at, Apply(t, op, runState.value), "value")
    /\ UNCHANGED <<runState, stream, versions, events, locks, client, history>>

\* Fault: the upsert runs outside of the transaction.
WriteStateAtOnce(t, op, at) ==
    /\ op.kind \in Updates /\ stateLock = None
    /\ Starts(t, op, at, Apply(t, op, runState.value), "value")
    /\ runState' = [value |-> Apply(t, op, runState.value), version |-> runState.version + 1]
    /\ UNCHANGED <<stream, versions, events, locks, client, history>>

\* Fault: the update is announced before it is recorded.
WriteStateAfterLog(t, op, at) ==
    /\ op.kind \in Updates
    /\ stateLock = None /\ stateLock' = t
    /\ eventLock = None /\ eventLock' = t
    /\ Starts(t, op, at, Apply(t, op, runState.value), "value")
    /\ UNCHANGED <<runState, stream, versions, events, runLock, streamLock, client, history>>

\* put, patch: the upsert of run_state.
WriteState(t, op, at) ==
    /\ op.kind \in Updates
    /\ stateLock = None /\ stateLock' = t
    /\ Starts(t, op, at, Apply(t, op, runState.value), "value")
    /\ UNCHANGED <<runState, stream, versions, events, runLock, streamLock, eventLock, client,
                   history>>

\* save: the state, or a stream, as it is committed now.
ReadForSave(t, op, at) ==
    /\ op.kind = "save"
    /\ LET saved == IF op.stream = "run" THEN runState ELSE stream[op.stream] IN
       /\ saved.version > 0
       /\ Starts(t, op, at, saved.value, "value")
    /\ UNCHANGED <<runState, stream, versions, events, locks, client, history>>

\* snapshots: the value is in the request.
Snapshot(t, op, at) ==
    /\ op.kind = "snapshot"
    /\ Starts(t, op, at, Apply(t, op, Blank), "value")
    /\ UNCHANGED <<runState, stream, versions, events, locks, client, history>>

Versioned(op) == op.kind \notin {"lifecycle", "other"}

\* Who has the run's row FOR KEY SHARE: its version or its event is inserted.
SharesRun(t) == \/ tx[t].pc \in {"version", "logged"} /\ Versioned(tx[t].op)
                \/ tx[t].pc = "event"

\* begin, cancel, fail, children, a request of a grant: select ... for update.
LockRun(t, op, at) ==
    /\ op.kind = "lifecycle"
    /\ runLock = None /\ runLock' = t
    /\ \A u \in Writers : ~SharesRun(u)
    /\ Starts(t, op, at, Blank, "version")
    /\ UNCHANGED <<runState, stream, versions, events, stateLock, streamLock, eventLock, client,
                   history>>

\* A handler of a step: it locks nothing of the run before the event log.
Other(t, op, at) ==
    /\ op.kind = "other"
    /\ Starts(t, op, at, Blank, "version")
    /\ UNCHANGED <<runState, stream, versions, events, locks, client, history>>

\* Fault: the stream is selected, not locked.
RecordVersionUnlocked(t) ==
    /\ tx[t].pc = "value"
    /\ tx' = [tx EXCEPT ![t].pc = "version", ![t].version = stream[tx[t].op.stream].version + 1]
    /\ UNCHANGED <<runState, stream, versions, events, locks, client, history>>

\* recordStateVersion: the upsert of the stream locks its row, the insert of
\* the version shares that of the run.
RecordVersion(t) ==
    LET s == tx[t].op.stream IN
    /\ tx[t].pc = "value"
    /\ streamLock[s] = None /\ streamLock' = [streamLock EXCEPT ![s] = t]
    /\ runLock = None
    /\ tx' = [tx EXCEPT ![t].pc = "version", ![t].version = stream[s].version + 1]
    /\ UNCHANGED <<runState, stream, versions, events, runLock, stateLock, eventLock, client,
                   history>>

NextSeq == Max(DOMAIN events \cup {0}) + 1

EventOf(t) == [writer |-> t, kind |-> tx[t].op.kind, stream |-> tx[t].op.stream,
               version |-> tx[t].version, value |-> tx[t].value]

\* The listeners of the writer's own process.
Notified(t, row) ==
    [c \in Clients |-> IF client[c].pc = "live" /\ client[c].at = tx[t].at
                       THEN [client[c] EXCEPT !.got = Append(@, row)] ELSE client[c]]

\* Fault: max(seq) is read without the advisory lock.
LockLogNot(t) ==
    /\ tx[t].pc = "version"
    /\ tx' = [tx EXCEPT ![t].pc = "logged"]
    /\ UNCHANGED <<runState, stream, versions, events, locks, client, history>>

\* appendEvent: the advisory lock, which its holder may take again.
LockLog(t) ==
    /\ tx[t].pc = "version"
    /\ eventLock \in {None, t} /\ eventLock' = t
    /\ tx' = [tx EXCEPT ![t].pc = "logged"]
    /\ UNCHANGED <<runState, stream, versions, events, runLock, stateLock, streamLock, client,
                   history>>

\* appendEvent: the number and the insert, which shares the row of the run.
AppendEvent(t) ==
    LET row == [seq |-> NextSeq, event |-> EventOf(t)] IN
    /\ tx[t].pc = "logged"
    /\ runLock \in {None, t}
    /\ tx' = [tx EXCEPT ![t].pc = "event", ![t].row = <<row>>]
    /\ client' = Notified(t, row)
    /\ UNCHANGED <<runState, stream, versions, events, locks, history>>

Unlock(t) ==
    /\ runLock' = IF runLock = t THEN None ELSE runLock
    /\ stateLock' = IF stateLock = t THEN None ELSE stateLock
    /\ streamLock' = [s \in Streams |-> IF streamLock[s] = t THEN None ELSE streamLock[s]]
    /\ eventLock' = IF eventLock = t THEN None ELSE eventLock

Commit(t) ==
    LET op  == tx[t].op
        row == tx[t].row[1]
    IN
    /\ tx[t].pc = "event"
    /\ tx' = [tx EXCEPT ![t].pc = "over"]
    /\ runState' = IF op.kind \in Updates
                   THEN [value |-> tx[t].value, version |-> runState.version + 1] ELSE runState
    /\ IF Versioned(op)
       THEN /\ stream' = [stream EXCEPT ![op.stream] =
                             [value |-> tx[t].value, version |-> tx[t].version]]
            /\ versions' = versions \cup {row.event}
       ELSE UNCHANGED <<stream, versions>>
    /\ events' = [n \in DOMAIN events \cup {row.seq} |-> IF n = row.seq THEN row.event ELSE events[n]]
    /\ history' = Append(history, t)
    /\ Unlock(t)
    /\ UNCHANGED client

InFlight(t) == tx[t].pc \in {"value", "version", "logged", "event"}

\* A statement fails, the commit fails, the server dies, or the database ends
\* a transaction of a circle.
Rollback(t) ==
    /\ InFlight(t)
    /\ tx' = [tx EXCEPT ![t].pc = "over"]
    /\ Unlock(t)
    /\ UNCHANGED <<runState, stream, versions, events, client, history>>
-----------------------------------------------------------------------------
(* The event stream: first what is in the table, then what is announced.   *)

Rows(after) ==
    LET last == Max(DOMAIN events \cup {0}) IN
    [i \in 1..(IF after < last THEN last - after ELSE 0) |->
        [seq |-> after + i, event |-> events[after + i]]]

\* Fault: the listener is added before the list is read.
ListEventsLate(c, at, after) ==
    \/ /\ client[c].pc = "off"
       /\ client' = [client EXCEPT ![c] = [pc |-> "live", at |-> at, got |-> <<>>]]
       /\ UNCHANGED <<runState, stream, versions, events, locks, tx, history>>
    \/ /\ client[c].pc = "live"
       /\ client' = [client EXCEPT ![c].got = @ \o Rows(after)]
       /\ UNCHANGED <<runState, stream, versions, events, locks, tx, history>>

ListEvents(c, at, after) ==
    /\ client[c].pc = "off"
    /\ client' = [client EXCEPT ![c] = [pc |-> "listed", at |-> at, got |-> Rows(after)]]
    /\ UNCHANGED <<runState, stream, versions, events, locks, tx, history>>

Subscribe(c) ==
    /\ client[c].pc = "listed"
    /\ client' = [client EXCEPT ![c].pc = "live"]
    /\ UNCHANGED <<runState, stream, versions, events, locks, tx, history>>

Disconnect(c) ==
    /\ client[c].pc # "off"
    /\ client' = [client EXCEPT ![c] = [pc |-> "off", at |-> None, got |-> <<>>]]
    /\ UNCHANGED <<runState, stream, versions, events, locks, tx, history>>

Next ==
    \/ \E t \in Writers :
          \/ \E op \in Ops, at \in Replicas :
                WriteState(t, op, at) \/ ReadForSave(t, op, at) \/ Snapshot(t, op, at)
                    \/ LockRun(t, op, at) \/ Other(t, op, at)
          \/ RecordVersion(t) \/ LockLog(t) \/ AppendEvent(t) \/ Commit(t) \/ Rollback(t)
    \/ \E c \in Clients :
          \/ \E at \in Replicas, after \in Afters : ListEvents(c, at, after)
          \/ Subscribe(c) \/ Disconnect(c)

Spec == Init /\ [][Next]_vars
-----------------------------------------------------------------------------
TypeOK ==
    /\ runState \in [value: Values, version: Nat]
    /\ stream \in [Streams -> [value: Values, version: Nat]]
    /\ versions \subseteq Events
    /\ \A n \in DOMAIN events : n \in Nat /\ events[n] \in Events
    /\ runLock \in Writers \cup {None}
    /\ stateLock \in Writers \cup {None} /\ eventLock \in Writers \cup {None}
    /\ streamLock \in [Streams -> Writers \cup {None}]
    /\ tx \in [Writers -> [pc: PCs, op: Ops \cup {NoOp}, at: Replicas \cup {None}, value: Values,
                           version: Nat, row: Seq([seq: Nat, event: Events])]]
    /\ client \in [Clients -> [pc: {"off", "listed", "live"}, at: Replicas \cup {None},
                               got: Seq([seq: Nat, event: Events])]]
    /\ history \in Seq(Writers)

\* docs/testing.md, "state versions are monotonic per stream": they are
\* numbered without a gap, and a stream shows the last of them.
VersionsOf(s) == {v \in versions : v.stream = s}

VersionsGapFree ==
    \A s \in Streams :
        /\ {v.version : v \in VersionsOf(s)} = 1..stream[s].version
        /\ \A v, w \in VersionsOf(s) : v.version = w.version => v = w
        /\ \A v \in VersionsOf(s) : v.version = stream[s].version => v.value = stream[s].value

\* No update of the state is lost: it is what the committed puts and patches
\* make of it, one after the other in the order of their commits.
Redo(t, op, old) ==
    IF op.kind \in Updates
    THEN [value |-> Apply(t, op, old.value), version |-> old.version + 1] ELSE old

Replay[i \in 0..Len(history)] ==
    IF i = 0 THEN [value |-> Blank, version |-> 0]
             ELSE Redo(history[i], tx[history[i]].op, Replay[i - 1])

StateIsReplay == runState = Replay[Len(history)]

\* A reader of the log, of the versions and of the state is told one story:
\* events come in the order of commits, those of a stream in the order of its
\* versions, and the last update that was announced is the state.
LogTellsState ==
    /\ [n \in DOMAIN events |-> events[n].writer] = history
    /\ \A m, n \in DOMAIN events :
          m < n /\ Versioned(events[m]) /\ Versioned(events[n]) /\ events[m].stream = events[n].stream
              => events[m].version < events[n].version
    /\ LET updates == {n \in DOMAIN events : events[n].kind \in Updates} IN
       updates # {} => events[Max(updates)].value = runState.value

\* What a connection is sent of the log comes in the order of the log and once,
\* whatever commits between its list and its subscription.
OfLog(r) == r.seq \in DOMAIN events /\ events[r.seq] = r.event

StreamAscends ==
    \A c \in Clients : \A i, j \in DOMAIN client[c].got :
        i < j /\ OfLog(client[c].got[i]) /\ OfLog(client[c].got[j])
            => client[c].got[i].seq < client[c].got[j].seq

\* README.md, "per-run event logs are gap-free and strictly ordered under
\* concurrent writers": the rows are a sequence that only grows at its end.
Log == INSTANCE AppendOnlyLog WITH log <- [n \in 1..Cardinality(DOMAIN events) |-> events[n]]

LogIsAppendOnly == Log!Spec

\* README.md, "current state = latest version in a stream".  A save that read
\* the state before an update and records it after breaks it.
CurrentIsLatest ==
    \A v \in VersionsOf("run") : v.version = stream["run"].version => v.value = runState.value

\* No lock outlives its transaction, and transactions wait in a circle in one
\* case: one has the row of the run and waits for the event log, a handler of a
\* step has the log and its insert waits for that row.  Otherwise one of them
\* waits for nobody, so writers of state alone never wait in a circle.
Waits(t) == \/ tx[t].pc = "value"   /\ (streamLock[tx[t].op.stream] # None \/ runLock # None)
            \/ tx[t].pc = "version" /\ eventLock \notin {None, t}
            \/ tx[t].pc = "logged"  /\ runLock \notin {None, t}

RowAgainstLog ==
    \E t, u \in Writers :
        /\ runLock = t   /\ tx[t].pc = "version"
        /\ eventLock = u /\ tx[u].pc = "logged" /\ tx[u].op.kind = "other"

OneWaitingCycle ==
    /\ \A t \in {runLock, stateLock, eventLock} \cup {streamLock[s] : s \in Streams} :
          t = None \/ InFlight(t)
    /\ (\E t \in Writers : InFlight(t)) =>
          RowAgainstLog \/ \E t \in Writers : InFlight(t) /\ ~Waits(t)
=============================================================================
