--------------------------------- MODULE Gates --------------------------------
(***************************************************************************)
(* The gates of one run and the notifications of its channels: workflow    *)
(* invocations that open a gate and poll it, approvers that resolve it,    *)
(* and the webhooks each handler sends after its transaction.  What a      *)
(* decision does to grants is in Grants, what else ends a run in           *)
(* RunLifecycle.                                                           *)
(***************************************************************************)
EXTENDS Naturals, FiniteSetsExt, SequencesExt

CONSTANTS
    Gates,      \* names of gates
    Callers,    \* invocations of the workflow, each blocks on one gate at a time
    Approvers,  \* who decides gates and cancels the run
    Stored,     \* the channels the run was created with
    Inline,     \* the channels a gate may be opened with
    Wants,      \* a channel -> the events it lists, {} for all
    None,
    MaxCalls,   \* BOUND: of gate() by each caller
    MaxFaults   \* BOUND: handlers that die

Decisions  == {"approved", "rejected", "canceled"}
EventTypes == {"gate.created", "gate.resolved", "run.completed", "run.cancelled"}
Channels   == Stored \cup Inline
GateRow    == [status: Decisions \cup {"pending"}, channels: SUBSET Inline]

ASSUME GatesConstants ==
    /\ Callers \cap Approvers = {}
    /\ None \notin Callers \cup Approvers \cup Gates \cup GateRow
    /\ IsFiniteSet(Stored) /\ IsFiniteSet(Inline)
    /\ \A ch \in Channels : Wants[ch] \subseteq EventTypes
    /\ MaxCalls \in [Callers -> Nat] /\ MaxFaults \in Nat

VARIABLES
    runStatus,
    gates,      \* name -> its row, None when there is none
    gateLock,   \* name -> who holds its advisory lock
    events,     \* of the log, those that channels may want
    deliveries, \* channel_deliveries
    handler,    \* the request each process has at the server
    caller,     \* what each invocation does
    heard,      \* the events that endpoints were told of
    answers,    \* the decisions that gate() returned
    faults

vars == <<runStatus, gates, gateLock, events, deliveries, handler, caller, heard, answers, faults>>
db   == <<runStatus, gates, gateLock, events, deliveries>>

Procs == Callers \cup Approvers
Event == [type: EventTypes, gate: Gates \cup {None}]

\* read: it read the status of the run, insert: it holds the lock and inserts,
\* send: its transaction is over, it sends what it queued and answers
Off  == [pc |-> "off", gate |-> None, queue |-> <<>>, status |-> None]
Rest == [pc |-> "idle", gate |-> None, calls |-> 0]

Init ==
    /\ runStatus = "running"
    /\ gates = [n \in Gates |-> None]
    /\ gateLock = [n \in Gates |-> None]
    /\ events = <<>> /\ deliveries = <<>>
    /\ handler = [p \in Procs |-> Off]
    /\ caller = [c \in Callers |-> Rest]
    /\ heard = {} /\ answers = [n \in Gates |-> {}]
    /\ faults = 0
-----------------------------------------------------------------------------
(* Channels.                                                               *)

WantsEvent(ch, type) == Wants[ch] = {} \/ type \in Wants[ch]

\* A channel that is stored and inline is told twice.
Recipients(type, inline) ==
    {<<"stored", ch>> : ch \in {s \in Stored : WantsEvent(s, type)}}
        \cup {<<"inline", ch>> : ch \in {i \in inline : WantsEvent(i, type)}}

Rows(type, gate, inline) ==
    [i \in 1 .. Cardinality(Recipients(type, inline)) |->
        [type |-> type, gate |-> gate, to |-> SetToSeq(Recipients(type, inline))[i], status |-> "pending"]]

\* What p commits: the event, and a row for each channel, which p sends next.
Announce(p, type, gate, inline, status) ==
    LET rows == Rows(type, gate, inline)
    IN  /\ events' = Append(events, [type |-> type, gate |-> gate])
        /\ deliveries' = deliveries \o rows
        /\ handler' = [handler EXCEPT ![p] =
               [pc |-> "send", gate |-> gate, status |-> status,
                queue |-> [i \in DOMAIN rows |-> Len(deliveries) + i]]]
-----------------------------------------------------------------------------
(* POST /runs/:runId/gates/begin, from gate().                             *)

Calls(c, n) ==
    /\ caller[c].pc = "idle" /\ caller[c].calls < MaxCalls[c]
    /\ caller' = [caller EXCEPT ![c] = [pc |-> "begin", gate |-> n, calls |-> @.calls + 1]]

\* The status is read without a lock.
BeginRead(c, n) ==
    /\ Calls(c, n) /\ runStatus # "cancelled"
    /\ handler' = [handler EXCEPT ![c] = [Off EXCEPT !.pc = "read", !.gate = n]]
    /\ UNCHANGED <<db, heard, answers, faults>>

BeginRefused(c, n) ==
    /\ runStatus = "cancelled"
    /\ caller[c].pc = "idle"
    /\ caller' = [caller EXCEPT ![c] = [@ EXCEPT !.pc = "cancelled", !.gate = n]]
    /\ UNCHANGED <<db, handler, heard, answers, faults>>

\* The gate is there: it is returned as it is.
BeginJoin(c) ==
    LET n == handler[c].gate
    IN  /\ handler[c].pc = "read" /\ gateLock[n] = None /\ gates[n] # None
        /\ handler' = [handler EXCEPT ![c].pc = "send", ![c].status = gates[n].status]
        /\ UNCHANGED <<db, caller, heard, answers, faults>>

\* Fault: the webhooks are sent by the transaction.
BeginInsertSending(c) ==
    LET n == handler[c].gate
    IN  /\ handler[c].pc = "read" /\ gateLock[n] = None /\ gates[n] = None
        /\ gateLock' = [gateLock EXCEPT ![n] = c]
        /\ handler' = [handler EXCEPT ![c].pc = "insert"]
        /\ heard' = heard \cup {[type |-> "gate.created", gate |-> n]}
        /\ UNCHANGED <<runStatus, gates, events, deliveries, caller, answers, faults>>

\* Fault: a gate that is there is written over.
BeginUpserting(c) ==
    LET n == handler[c].gate
    IN  /\ handler[c].pc = "read" /\ gateLock[n] = None
        /\ gateLock' = [gateLock EXCEPT ![n] = c]
        /\ handler' = [handler EXCEPT ![c].pc = "insert"]
        /\ UNCHANGED <<runStatus, gates, events, deliveries, caller, heard, answers, faults>>

\* It is not: the transaction inserts it, and holds the lock until its commit.
BeginInsert(c) ==
    LET n == handler[c].gate
    IN  /\ handler[c].pc = "read" /\ gateLock[n] = None /\ gates[n] = None
        /\ gateLock' = [gateLock EXCEPT ![n] = c]
        /\ handler' = [handler EXCEPT ![c].pc = "insert"]
        /\ UNCHANGED <<runStatus, gates, events, deliveries, caller, heard, answers, faults>>

BeginCommit(c, inline) ==
    LET n == handler[c].gate
    IN  /\ handler[c].pc = "insert"
        /\ gateLock' = [gateLock EXCEPT ![n] = None]
        /\ gates' = [gates EXCEPT ![n] = [status |-> "pending", channels |-> inline]]
        /\ Announce(c, "gate.created", n, inline, "pending")
        /\ UNCHANGED <<runStatus, caller, heard, answers, faults>>
-----------------------------------------------------------------------------
(* What ends a gate or the run.                                            *)

\* Fault: a decision may be made again.
ResolveAgain(a, n, d) ==
    /\ handler[a].pc = "off" /\ gates[n] # None
    /\ gates' = [gates EXCEPT ![n].status = d]
    /\ Announce(a, "gate.resolved", n, gates[n].channels, d)
    /\ UNCHANGED <<runStatus, gateLock, caller, heard, answers, faults>>

\* POST /runs/:runId/gates/:gateId/resolve, whatever the status of the run.
Resolve(a, n, d) ==
    /\ handler[a].pc = "off"
    /\ gates[n] # None /\ gates[n].status = "pending"
    /\ gates' = [gates EXCEPT ![n].status = d]
    /\ Announce(a, "gate.resolved", n, gates[n].channels, d)
    /\ UNCHANGED <<runStatus, gateLock, caller, heard, answers, faults>>

\* POST /runs/:runId/cancel
Cancel(a) ==
    /\ handler[a].pc = "off"
    /\ runStatus = "running" /\ runStatus' = "cancelled"
    /\ Announce(a, "run.cancelled", None, {}, None)
    /\ UNCHANGED <<gates, gateLock, caller, heard, answers, faults>>

\* POST /runs/:runId/complete, of an invocation that has its decision.
Complete(c) ==
    /\ caller[c].pc = "decided" /\ handler[c].pc = "off"
    /\ runStatus = "running" /\ runStatus' = "completed"
    /\ Announce(c, "run.completed", None, {}, None)
    /\ UNCHANGED <<gates, gateLock, caller, heard, answers, faults>>
-----------------------------------------------------------------------------
(* dispatchChannelDeliveries, and the answer to the request.               *)

\* Fault: an endpoint that refuses is not recorded.
TellUnrecorded(p, ok) ==
    LET row == Head(handler[p].queue)
    IN  /\ handler[p].pc = "send" /\ handler[p].queue # <<>>
        /\ heard' = heard \cup {[type |-> deliveries[row].type, gate |-> deliveries[row].gate]}
        /\ deliveries' = IF ok THEN [deliveries EXCEPT ![row].status = "delivered"] ELSE deliveries
        /\ handler' = [handler EXCEPT ![p].queue = Tail(@)]
        /\ UNCHANGED <<runStatus, gates, gateLock, events, caller, answers, faults>>

\* The endpoint of the next channel answers, or the connection fails.
Tell(p, ok) ==
    LET row == Head(handler[p].queue)
    IN  /\ handler[p].pc = "send" /\ handler[p].queue # <<>>
        /\ heard' = heard \cup {[type |-> deliveries[row].type, gate |-> deliveries[row].gate]}
        /\ deliveries' = [deliveries EXCEPT ![row].status = IF ok THEN "delivered" ELSE "failed"]
        /\ handler' = [handler EXCEPT ![p].queue = Tail(@)]
        /\ UNCHANGED <<runStatus, gates, gateLock, events, caller, answers, faults>>

\* The invocation c learns the status of its gate.
Learn(c, status) ==
    LET n == caller[c].gate
    IN  IF status = "pending"
        THEN /\ caller' = [caller EXCEPT ![c].pc = "wait"]
             /\ UNCHANGED answers
        ELSE /\ caller' = [caller EXCEPT ![c].pc = "decided"]
             /\ answers' = [answers EXCEPT ![n] = @ \cup {status}]

Reply(p) ==
    /\ handler[p].pc = "send" /\ handler[p].queue = <<>>
    /\ handler' = [handler EXCEPT ![p] = Off]
    /\ IF p \in Callers /\ caller[p].pc = "begin"
       THEN Learn(p, handler[p].status)
       ELSE UNCHANGED <<caller, answers>>
    /\ UNCHANGED <<db, heard, faults>>

\* The server of p dies or a statement fails: a transaction that is open is
\* rolled back, what was not sent is not sent any more, gate() throws.
HandlerDies(p) ==
    /\ faults < MaxFaults /\ faults' = faults + 1
    /\ handler[p].pc # "off"
    /\ handler' = [handler EXCEPT ![p] = Off]
    /\ gateLock' = [n \in Gates |-> IF gateLock[n] = p THEN None ELSE gateLock[n]]
    /\ caller' = IF p \in Callers /\ caller[p].pc = "begin"
                 THEN [caller EXCEPT ![p].pc = "thrown"] ELSE caller
    /\ UNCHANGED <<runStatus, gates, events, deliveries, heard, answers>>
-----------------------------------------------------------------------------
(* The loop of gate().                                                     *)

\* Fault: the status of the run is not looked at.
PollGateOnly(c) ==
    LET n == caller[c].gate
    IN  /\ caller[c].pc = "wait" /\ gates[n].status # "pending"
        /\ Learn(c, gates[n].status)
        /\ UNCHANGED <<db, handler, heard, faults>>

\* GET /runs/:runId/gates/:gateId, one statement.
Poll(c) ==
    LET n == caller[c].gate
    IN  /\ caller[c].pc = "wait"
        /\ \/ /\ runStatus = "cancelled"
              /\ caller' = [caller EXCEPT ![c].pc = "cancelled"] /\ UNCHANGED answers
           \/ /\ runStatus # "cancelled" /\ gates[n].status # "pending"
              /\ Learn(c, gates[n].status)
        /\ UNCHANGED <<db, handler, heard, faults>>

TimesOut(c) ==
    /\ caller[c].pc = "wait"
    /\ caller' = [caller EXCEPT ![c].pc = "thrown"]
    /\ UNCHANGED <<db, handler, heard, answers, faults>>

\* The workflow is invoked again and comes to the gate again.
CallAgain(c) ==
    /\ caller[c].pc \in {"thrown", "decided"} /\ handler[c].pc = "off"
    /\ caller' = [caller EXCEPT ![c].pc = "idle", ![c].gate = None]
    /\ UNCHANGED <<db, handler, heard, answers, faults>>
-----------------------------------------------------------------------------
BeginStep(c) ==
    \/ BeginJoin(c)
    \/ BeginInsert(c)
    \/ \E inline \in SUBSET Inline : BeginCommit(c, inline)

Next ==
    \/ \E c \in Callers :
        \/ \E n \in Gates : BeginRead(c, n) \/ BeginRefused(c, n)
        \/ BeginStep(c)
        \/ Complete(c)
        \/ Poll(c)
        \/ TimesOut(c)
        \/ CallAgain(c)
    \/ \E a \in Approvers :
        \/ \E n \in Gates, d \in Decisions : Resolve(a, n, d)
        \/ Cancel(a)
    \/ \E p \in Procs :
        \/ \E ok \in BOOLEAN : Tell(p, ok)
        \/ Reply(p)
        \/ HandlerDies(p)

Spec == Init /\ [][Next]_vars

\* Handlers go on, endpoints answer or the connection breaks, and gate() polls.
FairSpec ==
    /\ Spec
    /\ \A c \in Callers : WF_vars(BeginStep(c)) /\ WF_vars(Poll(c))
    /\ \A p \in Procs : WF_vars(Reply(p)) /\ WF_vars(\E ok \in BOOLEAN : Tell(p, ok))
-----------------------------------------------------------------------------
(* Properties.                                                             *)

\* The rows, the handlers and the callers have their types.
TypeOK ==
    /\ runStatus \in {"running", "completed", "cancelled"}
    /\ gates \in [Gates -> GateRow \cup {None}]
    /\ gateLock \in [Gates -> Callers \cup {None}]
    /\ events \in Seq(Event) /\ heard \subseteq Event
    /\ \A p \in Procs :
        /\ handler[p].pc \in {"off", "read", "insert", "send"}
        /\ \A i \in DOMAIN handler[p].queue : handler[p].queue[i] \in DOMAIN deliveries
    /\ \A c \in Callers :
        /\ caller[c].pc \in {"idle", "begin", "wait", "decided", "cancelled", "thrown"}
        /\ caller[c].pc = "wait" => gates[caller[c].gate] # None

\* Concurrent first begins of a gate never insert it twice, which would abort
\* one of them on unique(run_id, name) (app.ts:1573-1574).
NoInsertCollides ==
    \A c \in Callers : handler[c].pc = "insert" =>
        /\ gates[handler[c].gate] = None
        /\ \A d \in Callers \ {c} : ~(handler[d].pc = "insert" /\ handler[d].gate = handler[c].gate)

\* Every invocation that ever gets a decision for a gate gets the same one,
\* across timeouts, dead handlers and conflicting approvers: gates "resolve
\* exactly once ... and replay their decision on resume" (README.md:213).
AnswersAgree == \A n \in Gates : Cardinality(answers[n]) <= 1

\* The same, and more: a decision is made once, from "pending", and stays; a
\* begin in whatever process leaves it alone; and what is learned is that one.
Status(n) == IF gates[n] = None THEN None ELSE gates[n].status

Register == INSTANCE WriteOnce WITH state <- [n \in Gates |-> Status(n)], learned <- answers

DecidesOnce == Register!Spec

\* The log of a gate is created, then resolved, each once, as its row says.
EventsOf(n) == {i \in DOMAIN events : events[i].gate = n}
CreatedAt(i) == events[i].type = "gate.created"
ResolvedAt(i) == events[i].type = "gate.resolved"

LogTellsGate ==
    \A n \in Gates :
        \/ gates[n] = None /\ EventsOf(n) = {}
        \/ /\ gates[n] # None /\ gates[n].status = "pending"
           /\ \E i \in DOMAIN events : EventsOf(n) = {i} /\ CreatedAt(i)
        \/ /\ gates[n] # None /\ gates[n].status # "pending"
           /\ \E i, j \in DOMAIN events :
                i < j /\ EventsOf(n) = {i, j} /\ CreatedAt(i) /\ ResolvedAt(j)

\* Endpoints hear only of what was committed.
HeardIsCommitted == heard \subseteq ToSet(events)

\* As long as no handler dies, a delivery that is not settled is in the queue
\* of one: what was answered is recorded, won or lost.
UnsettledIsQueued ==
    faults = 0 => \A i \in DOMAIN deliveries :
        deliveries[i].status = "pending" <=> \E p \in Procs : i \in ToSet(handler[p].queue)

\* gate() does not wait for ever once its gate is decided or its run cancelled.
WaiterReleased ==
    \A c \in Callers :
        (caller[c].pc = "wait" /\ (runStatus = "cancelled" \/ gates[caller[c].gate].status # "pending"))
            ~> caller[c].pc # "wait"

\* "Channel deliveries are ... recorded win-or-lose" (docs/testing.md:42).
DeliveriesSettle ==
    \A e \in Event :
        (\E i \in DOMAIN deliveries : deliveries[i].type = e.type /\ deliveries[i].gate = e.gate)
            ~> (\A i \in DOMAIN deliveries : (deliveries[i].type = e.type /\ deliveries[i].gate = e.gate)
                                                => deliveries[i].status # "pending")
=============================================================================
