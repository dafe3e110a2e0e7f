------------------------------ MODULE GatesProofs ------------------------------
(***************************************************************************)
(* Theorems about Gates, for any number of gates, invocations, approvers   *)
(* and channels, any calls and any handlers that die.                      *)
(***************************************************************************)
EXTENDS Gates, FiniteSetTheorems, SequenceTheorems, TLAPS

USE GatesConstants

-----------------------------------------------------------------------------
(* The inductive invariant.                                                *)

HandlerPCs == {"off", "read", "insert", "send"}
CallerType == [pc: {"idle", "begin", "wait", "decided", "cancelled", "thrown"},
               gate: Gates \cup {None}, calls: Nat]

\* The rows of gates, who locks them, what callers do and were answered.
RowsTyped ==
    /\ gates \in [Gates -> GateRow \cup {None}]
    /\ gateLock \in [Gates -> Callers \cup {None}]
    /\ caller \in [Callers -> CallerType]
    /\ answers \in [Gates -> SUBSET Decisions]

\* A request has a place, a gate, a queue and an answer.
IsRequest(h) == /\ h = [pc |-> h.pc, gate |-> h.gate, queue |-> h.queue, status |-> h.status]
                /\ h.pc \in HandlerPCs

HandlersTyped == /\ handler = [p \in Procs |-> handler[p]]
                 /\ \A p \in Procs : IsRequest(handler[p])

\* An invocation that has not been answered is at the gate it called.
CallerWaits ==
    \A c \in Callers :
        /\ handler[c].pc \in {"read", "insert"} => caller[c].pc = "begin"
        /\ caller[c].pc = "begin" => caller[c].gate \in Gates /\ handler[c].gate = caller[c].gate
        /\ caller[c].pc = "wait" => caller[c].gate \in Gates /\ gates[caller[c].gate] # None

\* The lock of a gate is held exactly while an invocation inserts it.
LockedToInsert ==
    \A c \in Callers, n \in Gates :
        gateLock[n] = c <=> handler[c].pc = "insert" /\ handler[c].gate = n

\* What is inserted is not there.
InsertsMissing ==
    \A c \in Callers : handler[c].pc = "insert" => gates[handler[c].gate] = None

\* What an invocation is about to be answered is the decision, or an older "pending".
AnswerIsTrue ==
    \A c \in Callers : caller[c].pc = "begin" /\ handler[c].pc = "send" =>
        /\ gates[caller[c].gate] # None
        /\ handler[c].status \in {"pending", gates[caller[c].gate].status}

\* What was answered is the decision that the row has.
AnswersAreDecision ==
    \A n \in Gates : \A d \in answers[n] :
        gates[n] # None /\ gates[n].status = d /\ d # "pending"

IInv == /\ RowsTyped /\ HandlersTyped /\ CallerWaits /\ LockedToInsert /\ InsertsMissing
        /\ AnswerIsTrue /\ AnswersAreDecision
-----------------------------------------------------------------------------
(* What a step does to the requests.                                       *)

\* Only the request of p changes.
OnlyHandler(p) == HandlersTyped' /\ \A q \in Procs \ {p} : handler'[q] = handler[q]

LEMMA OffIsRequest == IsRequest(Off)
    BY DEF IsRequest, Off, HandlerPCs

\* A request is replaced by another one.
LEMMA ReplaceStep ==
    ASSUME HandlersTyped, NEW p \in Procs, NEW h, IsRequest(h), handler' = [handler EXCEPT ![p] = h]
    PROVE  OnlyHandler(p) /\ handler'[p] = h
    BY DEF HandlersTyped, OnlyHandler

\* An invocation comes to a gate.
LEMMA ReadStep ==
    ASSUME HandlersTyped, NEW c \in Callers, NEW n \in Gates,
           handler' = [handler EXCEPT ![c] = [Off EXCEPT !.pc = "read", !.gate = n]]
    PROVE  /\ OnlyHandler(c) /\ handler'[c].pc = "read" /\ handler'[c].gate = n
           /\ handler'[c].queue = <<>>
<1> DEFINE k == [pc |-> "read", gate |-> None, queue |-> <<>>, status |-> None]
           h == [pc |-> "read", gate |-> n, queue |-> <<>>, status |-> None]
<1>1. [Off EXCEPT !.pc = "read"] = k
    BY DEF Off
<1>2. [k EXCEPT !.gate = n] = h
    OBVIOUS
<1>3. IsRequest(h) /\ h.pc = "read" /\ h.gate = n /\ h.queue = <<>>
    BY DEF IsRequest, HandlerPCs
<1> HIDE DEF h, k
<1> QED BY <1>1, <1>2, <1>3, ReplaceStep DEF Procs

\* A request goes on to another place.
LEMMA GotoStep ==
    ASSUME HandlersTyped, NEW p \in Procs, NEW pc \in HandlerPCs,
           handler' = [handler EXCEPT ![p].pc = pc]
    PROVE  /\ OnlyHandler(p) /\ handler'[p].pc = pc
           /\ handler'[p].gate = handler[p].gate /\ handler'[p].status = handler[p].status
           /\ handler'[p].queue = handler[p].queue
<1> DEFINE h == [pc |-> pc, gate |-> handler[p].gate, queue |-> handler[p].queue,
                 status |-> handler[p].status]
<1>1. [handler[p] EXCEPT !.pc = pc] = h
    BY DEF HandlersTyped, IsRequest
<1>2. /\ IsRequest(h) /\ h.pc = pc /\ h.gate = handler[p].gate /\ h.status = handler[p].status
      /\ h.queue = handler[p].queue
    BY DEF IsRequest
<1> HIDE DEF h
<1>3. handler' = [handler EXCEPT ![p] = h]
    BY <1>1
<1> QED BY <1>2, <1>3, ReplaceStep

\* A request has its answer.
LEMMA AnswerStep ==
    ASSUME HandlersTyped, NEW p \in Procs, NEW status,
           handler' = [handler EXCEPT ![p].pc = "send", ![p].status = status]
    PROVE  /\ OnlyHandler(p) /\ handler'[p].pc = "send"
           /\ handler'[p].gate = handler[p].gate /\ handler'[p].status = status
           /\ handler'[p].queue = handler[p].queue
<1> DEFINE k == [pc |-> "send", gate |-> handler[p].gate, queue |-> handler[p].queue,
                 status |-> handler[p].status]
           h == [pc |-> "send", gate |-> handler[p].gate, queue |-> handler[p].queue,
                 status |-> status]
<1>1. [handler[p] EXCEPT !.pc = "send"] = k /\ [k EXCEPT !.status = status] = h
    BY DEF HandlersTyped, IsRequest
<1>2. /\ IsRequest(h) /\ h.pc = "send" /\ h.gate = handler[p].gate /\ h.status = status
      /\ h.queue = handler[p].queue
    BY DEF IsRequest, HandlerPCs
<1> HIDE DEF h, k
<1>3. handler' = [handler EXCEPT ![p] = h]
    BY <1>1 DEF HandlersTyped
<1> QED BY <1>2, <1>3, ReplaceStep

\* Its queue is the rows that p inserts.
QueuesRows(p, type, gate, inline) ==
    handler'[p].queue = [i \in DOMAIN Rows(type, gate, inline) |-> Len(deliveries) + i]

\* A request commits what it announces.
LEMMA AnnounceStep ==
    ASSUME HandlersTyped, NEW p \in Procs, NEW type, NEW gate, NEW inline, NEW status,
           Announce(p, type, gate, inline, status)
    PROVE  /\ OnlyHandler(p) /\ handler'[p].pc = "send"
           /\ handler'[p].gate = gate /\ handler'[p].status = status
           /\ QueuesRows(p, type, gate, inline)
<1> DEFINE rows == Rows(type, gate, inline)
           queue == [i \in DOMAIN rows |-> Len(deliveries) + i]
           h == [pc |-> "send", gate |-> gate, status |-> status, queue |-> queue]
<1>1. handler' = [handler EXCEPT ![p] = h]
    BY DEF Announce
<1> HIDE DEF queue
<1>2. IsRequest(h) /\ h.pc = "send" /\ h.gate = gate /\ h.status = status /\ h.queue = queue
    BY DEF IsRequest, HandlerPCs
<1> HIDE DEF h
<1>3. OnlyHandler(p) /\ handler'[p] = h
    BY <1>1, <1>2, ReplaceStep
<1> QED BY <1>2, <1>3 DEF queue, QueuesRows

\* A request tells an endpoint.
LEMMA TellStep ==
    ASSUME HandlersTyped, NEW p \in Procs, NEW ok \in BOOLEAN, Tell(p, ok)
    PROVE  /\ OnlyHandler(p) /\ handler'[p].pc = handler[p].pc
           /\ handler'[p].gate = handler[p].gate /\ handler'[p].status = handler[p].status
           /\ handler'[p].queue = Tail(handler[p].queue)
<1> DEFINE rest == Tail(handler[p].queue)
           h == [pc |-> handler[p].pc, gate |-> handler[p].gate, queue |-> rest,
                 status |-> handler[p].status]
<1>0. handler' = [handler EXCEPT ![p].queue = rest]
    BY DEF Tell
<1> HIDE DEF rest
<1>1. [handler[p] EXCEPT !.queue = rest] = h
    BY DEF HandlersTyped, IsRequest
<1>2. /\ IsRequest(h) /\ h.pc = handler[p].pc
      /\ h.gate = handler[p].gate /\ h.status = handler[p].status /\ h.queue = rest
    BY DEF IsRequest, HandlersTyped
<1> HIDE DEF h
<1>3. handler' = [handler EXCEPT ![p] = h]
    BY <1>0, <1>1
<1>4. OnlyHandler(p) /\ handler'[p] = h
    BY <1>2, <1>3, ReplaceStep
<1> QED BY <1>2, <1>4 DEF rest
-----------------------------------------------------------------------------
(* What a step does to the invocations.                                    *)

\* Only the invocation c goes on.
OnlyCaller(c) == /\ caller' \in [Callers -> CallerType]
                 /\ \A d \in Callers \ {c} : caller'[d] = caller[d]

\* It calls a gate.
LEMMA CallsStep ==
    ASSUME RowsTyped, NEW c \in Callers, NEW n \in Gates, Calls(c, n)
    PROVE  OnlyCaller(c) /\ caller'[c].pc = "begin" /\ caller'[c].gate = n
    BY DEF Calls, RowsTyped, CallerType, OnlyCaller

\* It goes on to another place.
LEMMA CallerGoto ==
    ASSUME RowsTyped, NEW c \in Callers,
           NEW pc \in {"idle", "begin", "wait", "decided", "cancelled", "thrown"},
           caller' = [caller EXCEPT ![c].pc = pc]
    PROVE  OnlyCaller(c) /\ caller'[c].pc = pc /\ caller'[c].gate = caller[c].gate
    BY DEF RowsTyped, CallerType, OnlyCaller

\* It is told that the run is cancelled.
LEMMA RefusedStep ==
    ASSUME RowsTyped, NEW c \in Callers, NEW n \in Gates, BeginRefused(c, n)
    PROVE  OnlyCaller(c) /\ caller'[c].pc = "cancelled"
    BY DEF BeginRefused, RowsTyped, CallerType, OnlyCaller

\* The workflow is invoked again.
LEMMA AgainStep ==
    ASSUME RowsTyped, NEW c \in Callers, CallAgain(c)
    PROVE  OnlyCaller(c) /\ caller'[c].pc = "idle"
<1> DEFINE k == [caller[c] EXCEPT !.pc = "idle"]
<1>1. k \in CallerType /\ k.pc = "idle"
    BY DEF RowsTyped, CallerType
<1>2. [k EXCEPT !.gate = None] \in CallerType /\ [k EXCEPT !.gate = None].pc = "idle"
    BY <1>1 DEF CallerType
<1>3. caller' = [caller EXCEPT ![c] = [k EXCEPT !.gate = None]]
    BY DEF CallAgain, RowsTyped
<1> HIDE DEF k
<1> QED BY <1>2, <1>3 DEF RowsTyped, OnlyCaller

\* It learns the status of its gate.
LEMMA LearnStep ==
    ASSUME RowsTyped, NEW c \in Callers, caller[c].gate \in Gates,
           NEW status \in Decisions \cup {"pending"}, Learn(c, status)
    PROVE  /\ OnlyCaller(c) /\ caller'[c].gate = caller[c].gate
           /\ \/ status = "pending" /\ caller'[c].pc = "wait" /\ answers' = answers
              \/ /\ status # "pending" /\ caller'[c].pc = "decided"
                 /\ answers' = [answers EXCEPT ![caller[c].gate] = @ \cup {status}]
    BY CallerGoto DEF Learn

\* Nothing is answered but the decision.
LEMMA AnswersStep ==
    ASSUME RowsTyped, AnswersAreDecision, NEW n \in Gates, gates[n] # None,
           gates' = gates, gates[n].status # "pending",
           answers' = [answers EXCEPT ![n] = @ \cup {gates[n].status}]
    PROVE  AnswersAreDecision' /\ answers' \in [Gates -> SUBSET Decisions]
<1>1. gates[n].status \in Decisions
    BY DEF RowsTyped, GateRow
<1>2. answers' \in [Gates -> SUBSET Decisions]
    BY <1>1 DEF RowsTyped
<1>3. \A m \in Gates : \A d \in answers'[m] : d \in answers[m] \/ (m = n /\ d = gates[n].status)
    BY DEF RowsTyped
<1> QED BY <1>2, <1>3 DEF AnswersAreDecision
-----------------------------------------------------------------------------
(* The steps.                                                              *)

\* An invocation calls, is refused, gives up or is invoked again.
LEMMA CallerSteps ==
    ASSUME IInv, NEW c \in Callers,
           \/ \E n \in Gates : BeginRead(c, n) \/ BeginRefused(c, n)
           \/ TimesOut(c) \/ CallAgain(c)
    PROVE  IInv'
<1> USE DEF IInv
<1>1. /\ UNCHANGED <<gates, gateLock, answers>>
      /\ OnlyCaller(c) /\ caller'[c].pc # "wait"
      /\ handler[c].pc \notin {"read", "insert"}
      /\ HandlersTyped' /\ \A d \in Callers \ {c} : handler'[d] = handler[d]
      /\ \/ /\ handler'[c].pc = "read" /\ caller'[c].pc = "begin"
            /\ caller'[c].gate \in Gates /\ handler'[c].gate = caller'[c].gate
         \/ handler'[c] = handler[c] /\ caller'[c].pc # "begin"
  <2>1. CASE \E n \in Gates : BeginRead(c, n)
    <3>1. PICK n \in Gates : BeginRead(c, n)
        BY <2>1
    <3>2. OnlyHandler(c) /\ handler'[c].pc = "read" /\ handler'[c].gate = n
        BY <3>1, ReadStep DEF BeginRead
    <3>3. OnlyCaller(c) /\ caller'[c].pc = "begin" /\ caller'[c].gate = n
        BY <3>1, CallsStep DEF BeginRead
    <3> QED BY <3>1, <3>2, <3>3 DEF BeginRead, Calls, CallerWaits, OnlyHandler, Procs, db
  <2>2. CASE \E n \in Gates : BeginRefused(c, n)
      BY <2>2, RefusedStep DEF BeginRefused, CallerWaits, db, HandlersTyped, IsRequest
  <2>3. CASE TimesOut(c)
      BY <2>3, CallerGoto DEF TimesOut, CallerWaits, db, HandlersTyped, IsRequest
  <2>4. CASE CallAgain(c)
      BY <2>4, AgainStep DEF CallAgain, CallerWaits, db, HandlersTyped, IsRequest
  <2> QED BY <2>1, <2>2, <2>3, <2>4
<1>2. RowsTyped'
    BY <1>1 DEF RowsTyped, OnlyCaller
<1>3. CallerWaits'
    BY <1>1 DEF CallerWaits, OnlyCaller
<1>4. LockedToInsert'
    BY <1>1 DEF LockedToInsert, OnlyCaller
<1>5. InsertsMissing' /\ AnswersAreDecision'
    BY <1>1 DEF InsertsMissing, AnswersAreDecision, OnlyCaller
<1>6. AnswerIsTrue'
    BY <1>1 DEF AnswerIsTrue, OnlyCaller
<1> QED BY <1>1, <1>2, <1>3, <1>4, <1>5, <1>6

\* An invocation finds its gate.
LEMMA JoinStep ==
    ASSUME IInv, NEW c \in Callers, BeginJoin(c)
    PROVE  IInv'
<1> USE DEF IInv
<1>1. /\ handler[c].pc = "read" /\ gates[handler[c].gate] # None
      /\ UNCHANGED <<gates, gateLock, caller, answers>>
      /\ OnlyHandler(c) /\ handler'[c].pc = "send" /\ handler'[c].gate = handler[c].gate
      /\ handler'[c].status = gates[handler[c].gate].status
    BY AnswerStep DEF BeginJoin, db, Procs
<1>2. RowsTyped'
    BY <1>1 DEF RowsTyped
<1>3. CallerWaits' /\ LockedToInsert' /\ InsertsMissing' /\ AnswersAreDecision'
    BY <1>1 DEF CallerWaits, LockedToInsert, InsertsMissing, AnswersAreDecision, OnlyHandler, Procs
<1>4. AnswerIsTrue'
    BY <1>1 DEF AnswerIsTrue, CallerWaits, OnlyHandler, Procs
<1> QED BY <1>1, <1>2, <1>3, <1>4 DEF OnlyHandler

\* It finds none and takes the lock.
LEMMA InsertStep ==
    ASSUME IInv, NEW c \in Callers, BeginInsert(c)
    PROVE  IInv'
<1> USE DEF IInv
<1>1. PICK n \in Gates : n = handler[c].gate
    BY DEF BeginInsert, CallerWaits
<1>2. /\ handler[c].pc = "read" /\ gates[n] = None /\ gateLock[n] = None
      /\ gateLock' = [gateLock EXCEPT ![n] = c] /\ UNCHANGED <<gates, caller, answers>>
      /\ OnlyHandler(c) /\ handler'[c].pc = "insert" /\ handler'[c].gate = n
    BY <1>1, GotoStep DEF BeginInsert, Procs, HandlerPCs
<1>3. RowsTyped'
    BY <1>2 DEF RowsTyped
<1>4. CallerWaits' /\ InsertsMissing' /\ AnswersAreDecision' /\ AnswerIsTrue'
    BY <1>1, <1>2 DEF CallerWaits, InsertsMissing, AnswersAreDecision, AnswerIsTrue, OnlyHandler, Procs
<1>5. LockedToInsert'
    BY <1>1, <1>2 DEF LockedToInsert, RowsTyped, OnlyHandler, Procs
<1> QED BY <1>2, <1>3, <1>4, <1>5 DEF OnlyHandler

\* It commits the gate.
LEMMA CommitStep ==
    ASSUME IInv, NEW c \in Callers, NEW inline \in SUBSET Inline, BeginCommit(c, inline)
    PROVE  IInv'
<1> USE DEF IInv
<1>1. PICK n \in Gates : n = handler[c].gate /\ n = caller[c].gate
    BY DEF BeginCommit, CallerWaits
<1> DEFINE row == [status |-> "pending", channels |-> inline]
<1>2. row \in GateRow /\ row # None /\ row.status = "pending"
    BY DEF GateRow
<1>3. /\ handler[c].pc = "insert" /\ gates' = [gates EXCEPT ![n] = row]
      /\ gateLock' = [gateLock EXCEPT ![n] = None] /\ UNCHANGED <<caller, answers>>
    BY <1>1 DEF BeginCommit
<1>4. /\ OnlyHandler(c) /\ handler'[c].pc = "send" /\ handler'[c].gate = n
      /\ handler'[c].status = "pending"
    BY <1>1, AnnounceStep DEF BeginCommit, Procs
<1>5. gateLock[n] = c /\ gates[n] = None
    BY <1>1, <1>3 DEF LockedToInsert, InsertsMissing
<1> HIDE DEF row
<1>6. gates'[n] = row /\ \A m \in Gates \ {n} : gates'[m] = gates[m] /\ gateLock'[m] = gateLock[m]
    BY <1>3 DEF RowsTyped
<1>7. gateLock'[n] = None
    BY <1>3 DEF RowsTyped
<1>8. RowsTyped'
    BY <1>2, <1>3 DEF RowsTyped
<1>9. CallerWaits'
    BY <1>1, <1>2, <1>3, <1>4, <1>6 DEF CallerWaits, OnlyHandler, Procs
<1>10. LockedToInsert'
    BY <1>3, <1>4, <1>5, <1>6, <1>7 DEF LockedToInsert, OnlyHandler, Procs
<1>11. InsertsMissing'
  <2> SUFFICES ASSUME NEW d \in Callers, handler'[d].pc = "insert" PROVE gates'[handler'[d].gate] = None
      BY DEF InsertsMissing
  <2>1. d # c /\ handler'[d] = handler[d]
      BY <1>4 DEF OnlyHandler, Procs
  <2>2. handler[d].gate \in Gates /\ gateLock[handler[d].gate] = d
      BY <2>1 DEF CallerWaits, LockedToInsert
  <2> QED BY <1>5, <1>6, <2>1, <2>2 DEF InsertsMissing
<1>12. AnswersAreDecision'
    BY <1>3, <1>5, <1>6 DEF AnswersAreDecision
<1>13. AnswerIsTrue'
    BY <1>1, <1>2, <1>3, <1>4, <1>5, <1>6 DEF AnswerIsTrue, CallerWaits, OnlyHandler, Procs
<1> QED BY <1>4, <1>8, <1>9, <1>10, <1>11, <1>12, <1>13 DEF OnlyHandler

\* An approver decides.
LEMMA ResolveStep ==
    ASSUME IInv, NEW a \in Approvers, NEW n \in Gates, NEW d \in Decisions, Resolve(a, n, d)
    PROVE  IInv'
<1> USE DEF IInv
<1>1. /\ gates[n] # None /\ gates[n].status = "pending"
      /\ gates' = [gates EXCEPT ![n].status = d] /\ UNCHANGED <<gateLock, caller, answers>>
      /\ OnlyHandler(a)
    BY AnnounceStep DEF Resolve, Procs
<1>2. \A c \in Callers : handler'[c] = handler[c]
    BY <1>1 DEF OnlyHandler, Procs
<1>3. gates[n] \in GateRow
    BY <1>1 DEF RowsTyped
<1>4. [gates[n] EXCEPT !.status = d] \in GateRow /\ [gates[n] EXCEPT !.status = d].status = d
    BY <1>3 DEF GateRow
<1>5. /\ gates'[n] \in GateRow /\ gates'[n].status = d /\ gates'[n] # None
      /\ \A m \in Gates \ {n} : gates'[m] = gates[m]
    BY <1>1, <1>4 DEF RowsTyped
<1>6. RowsTyped'
    BY <1>1, <1>4 DEF RowsTyped
<1>7. CallerWaits' /\ LockedToInsert'
    BY <1>1, <1>2, <1>5 DEF CallerWaits, LockedToInsert
<1>8. InsertsMissing' /\ AnswersAreDecision'
    BY <1>1, <1>2, <1>5 DEF InsertsMissing, AnswersAreDecision, CallerWaits
<1>9. AnswerIsTrue'
    BY <1>1, <1>2, <1>5 DEF AnswerIsTrue, CallerWaits
<1> QED BY <1>1, <1>6, <1>7, <1>8, <1>9 DEF OnlyHandler

\* An endpoint is told; the run is completed or cancelled.
LEMMA OtherSteps ==
    ASSUME IInv,
           \/ \E c \in Callers : Complete(c)
           \/ \E p \in Procs, ok \in BOOLEAN : Tell(p, ok)
           \/ \E a \in Approvers : Cancel(a)
    PROVE  IInv'
<1> USE DEF IInv
<1>1. UNCHANGED <<gates, gateLock, caller, answers>> /\ HandlersTyped'
  <2>1. ASSUME NEW c \in Callers, Complete(c)
        PROVE  UNCHANGED <<gates, gateLock, caller, answers>> /\ HandlersTyped'
      BY <2>1, AnnounceStep DEF Complete, OnlyHandler, Procs
  <2>2. ASSUME NEW p \in Procs, NEW ok \in BOOLEAN, Tell(p, ok)
        PROVE  UNCHANGED <<gates, gateLock, caller, answers>> /\ HandlersTyped'
    <3>1. HandlersTyped'
        BY <2>2, TellStep DEF OnlyHandler
    <3> QED BY <2>2, <3>1 DEF Tell
  <2>3. ASSUME NEW a \in Approvers, Cancel(a)
        PROVE  UNCHANGED <<gates, gateLock, caller, answers>> /\ HandlersTyped'
      BY <2>3, AnnounceStep DEF Cancel, OnlyHandler, Procs
  <2> QED BY <2>1, <2>2, <2>3
<1>2. \A c \in Callers :
          \/ handler'[c] = handler[c]
          \/ caller[c].pc = "decided" /\ handler[c].pc = "off" /\ handler'[c].pc = "send"
          \/ /\ handler'[c].pc = handler[c].pc /\ handler'[c].gate = handler[c].gate
             /\ handler'[c].status = handler[c].status
    BY AnnounceStep, TellStep DEF Complete, Cancel, OnlyHandler, Procs
<1>3. RowsTyped' /\ CallerWaits' /\ AnswersAreDecision'
    BY <1>1, <1>2 DEF RowsTyped, CallerWaits, AnswersAreDecision
<1>4. LockedToInsert' /\ InsertsMissing' /\ AnswerIsTrue'
    BY <1>1, <1>2 DEF LockedToInsert, InsertsMissing, AnswerIsTrue
<1> QED BY <1>1, <1>3, <1>4

\* A request is answered.
LEMMA ReplyStep ==
    ASSUME IInv, NEW p \in Procs, Reply(p)
    PROVE  IInv'
<1> USE DEF IInv
<1>1. /\ UNCHANGED <<gates, gateLock>> /\ handler[p].pc = "send"
      /\ OnlyHandler(p) /\ handler'[p] = Off
    BY OffIsRequest, ReplaceStep DEF Reply, db
<1>2. handler'[p].pc = "off"
    BY <1>1 DEF Off
<1>3. CASE p \in Callers /\ caller[p].pc = "begin"
  <2> DEFINE n == caller[p].gate
             status == handler[p].status
  <2>1. n \in Gates /\ gates[n] # None /\ status \in {"pending", gates[n].status}
      BY <1>1, <1>3 DEF CallerWaits, AnswerIsTrue
  <2>2. gates[n].status \in Decisions \cup {"pending"}
      BY <2>1 DEF RowsTyped, GateRow
  <2>3. Learn(p, status)
      BY <1>3 DEF Reply
  <2>4. /\ OnlyCaller(p) /\ caller'[p].gate = n /\ caller'[p].pc \in {"wait", "decided"}
        /\ \/ answers' = answers
           \/ status # "pending" /\ answers' = [answers EXCEPT ![n] = @ \cup {status}]
      BY <1>3, <2>1, <2>2, <2>3, LearnStep
  <2>5. AnswersAreDecision' /\ answers' \in [Gates -> SUBSET Decisions]
    <3>1. CASE answers' = answers
        BY <1>1, <3>1 DEF AnswersAreDecision, RowsTyped
    <3>2. CASE status # "pending" /\ answers' = [answers EXCEPT ![n] = @ \cup {status}]
        BY <1>1, <2>1, <3>2, AnswersStep
    <3> QED BY <2>4, <3>1, <3>2
  <2>6. RowsTyped'
      BY <1>1, <2>4, <2>5 DEF RowsTyped, OnlyCaller
  <2>7. CallerWaits'
      BY <1>1, <1>2, <2>1, <2>4 DEF CallerWaits, OnlyCaller, OnlyHandler, Procs
  <2>8. LockedToInsert' /\ InsertsMissing'
      BY <1>1, <1>2 DEF LockedToInsert, InsertsMissing, OnlyHandler, Procs
  <2>9. AnswerIsTrue'
      BY <1>1, <1>2, <2>4 DEF AnswerIsTrue, OnlyCaller, OnlyHandler, Procs
  <2> QED BY <1>1, <2>5, <2>6, <2>7, <2>8, <2>9 DEF OnlyHandler
<1>4. CASE ~(p \in Callers /\ caller[p].pc = "begin")
  <2>1. UNCHANGED <<caller, answers>>
      BY <1>4 DEF Reply
  <2>2. RowsTyped' /\ CallerWaits' /\ AnswersAreDecision'
      BY <1>1, <1>2, <1>4, <2>1 DEF RowsTyped, CallerWaits, AnswersAreDecision, OnlyHandler, Procs
  <2>3. LockedToInsert' /\ InsertsMissing' /\ AnswerIsTrue'
      BY <1>1, <1>2, <2>1 DEF LockedToInsert, InsertsMissing, AnswerIsTrue, OnlyHandler, Procs
  <2> QED BY <1>1, <2>2, <2>3 DEF OnlyHandler
<1> QED BY <1>3, <1>4

\* A handler dies.
LEMMA DeathStep ==
    ASSUME IInv, NEW p \in Procs, HandlerDies(p)
    PROVE  IInv'
<1> USE DEF IInv
<1>1. /\ UNCHANGED <<gates, answers>>
      /\ gateLock' = [n \in Gates |-> IF gateLock[n] = p THEN None ELSE gateLock[n]]
      /\ OnlyHandler(p) /\ handler'[p] = Off
    BY OffIsRequest, ReplaceStep DEF HandlerDies
<1>2. handler'[p].pc = "off"
    BY <1>1 DEF Off
<1>3. /\ caller' \in [Callers -> CallerType]
      /\ \A d \in Callers \ {p} : caller'[d] = caller[d]
      /\ p \in Callers => /\ caller'[p].pc # "begin"
                          /\ caller'[p].pc = "wait" => caller'[p] = caller[p]
    BY CallerGoto DEF HandlerDies, OnlyCaller, RowsTyped
<1>4. RowsTyped'
    BY <1>1, <1>3 DEF RowsTyped
<1>5. CallerWaits'
    BY <1>1, <1>2, <1>3 DEF CallerWaits, OnlyHandler, Procs
<1>6. LockedToInsert'
    BY <1>1, <1>2 DEF LockedToInsert, OnlyHandler, Procs
<1>7. InsertsMissing' /\ AnswersAreDecision'
    BY <1>1, <1>2 DEF InsertsMissing, AnswersAreDecision, OnlyHandler, Procs
<1>8. AnswerIsTrue'
    BY <1>1, <1>2, <1>3 DEF AnswerIsTrue, OnlyHandler, Procs
<1> QED BY <1>1, <1>4, <1>5, <1>6, <1>7, <1>8 DEF OnlyHandler

\* An invocation polls its gate.
LEMMA PollStep ==
    ASSUME IInv, NEW c \in Callers, Poll(c)
    PROVE  IInv'
<1> USE DEF IInv
<1> DEFINE n == caller[c].gate
<1>1. /\ UNCHANGED <<gates, gateLock, handler>> /\ caller[c].pc = "wait"
      /\ n \in Gates /\ gates[n] # None
    BY DEF Poll, CallerWaits, db
<1>2. gates[n].status \in Decisions \cup {"pending"}
    BY <1>1 DEF RowsTyped, GateRow
<1>3. /\ OnlyCaller(c) /\ caller'[c].pc \in {"cancelled", "decided"}
      /\ \/ answers' = answers
         \/ gates[n].status # "pending" /\ answers' = [answers EXCEPT ![n] = @ \cup {gates[n].status}]
  <2>1. CASE caller' = [caller EXCEPT ![c].pc = "cancelled"] /\ UNCHANGED answers
      BY <2>1, CallerGoto
  <2>2. CASE gates[n].status # "pending" /\ Learn(c, gates[n].status)
      BY <1>1, <1>2, <2>2, LearnStep
  <2> QED BY <2>1, <2>2 DEF Poll
<1>4. AnswersAreDecision' /\ answers' \in [Gates -> SUBSET Decisions]
  <2>1. CASE answers' = answers
      BY <1>1, <2>1 DEF AnswersAreDecision, RowsTyped
  <2>2. CASE gates[n].status # "pending" /\ answers' = [answers EXCEPT ![n] = @ \cup {gates[n].status}]
      BY <1>1, <2>2, AnswersStep
  <2> QED BY <1>3, <2>1, <2>2
<1>5. RowsTyped'
    BY <1>1, <1>3, <1>4 DEF RowsTyped, OnlyCaller
<1>6. CallerWaits' /\ AnswerIsTrue'
    BY <1>1, <1>3 DEF CallerWaits, AnswerIsTrue, OnlyCaller
<1>7. LockedToInsert' /\ InsertsMissing' /\ HandlersTyped'
    BY <1>1 DEF LockedToInsert, InsertsMissing, HandlersTyped
<1> QED BY <1>4, <1>5, <1>6, <1>7
-----------------------------------------------------------------------------
(* The theorems.                                                           *)

\* The invariant holds at first.
LEMMA InitIInv == Init => IInv
    BY OffIsRequest
    DEF Init, IInv, RowsTyped, HandlersTyped, CallerWaits, LockedToInsert, InsertsMissing, AnswerIsTrue,
        AnswersAreDecision, CallerType, Rest, Off, Procs

\* Every step keeps it.
LEMMA NextIInv == IInv /\ [Next]_vars => IInv'
<1> SUFFICES ASSUME IInv, [Next]_vars PROVE IInv'
    OBVIOUS
<1>1. CASE UNCHANGED vars
  <2>1. UNCHANGED <<gates, gateLock, handler, caller, answers>>
      BY <1>1 DEF vars
  <2>2. RowsTyped' /\ HandlersTyped'
      BY <2>1 DEF IInv, RowsTyped, HandlersTyped
  <2>3. CallerWaits' /\ LockedToInsert' /\ InsertsMissing' /\ AnswerIsTrue' /\ AnswersAreDecision'
      BY <2>1 DEF IInv, CallerWaits, LockedToInsert, InsertsMissing, AnswerIsTrue, AnswersAreDecision
  <2> QED BY <2>2, <2>3 DEF IInv
<1> QED BY <1>1, CallerSteps, JoinStep, InsertStep, CommitStep, ResolveStep, OtherSteps, ReplyStep,
           DeathStep, PollStep
        DEF Next, BeginStep

\* The inductive invariant of the gates protocol.
THEOREM GatesInvariant == Spec => []IInv
    BY InitIInv, NextIInv, PTL DEF Spec

\* Every invocation that ever gets a decision for a gate gets the same one.
THEOREM DecisionsReplay == Spec => []AnswersAgree
<1>1. IInv => AnswersAgree
  <2> SUFFICES ASSUME IInv, NEW n \in Gates PROVE Cardinality(answers[n]) <= 1
      BY DEF AnswersAgree
  <2>1. answers[n] = {} \/ \E d : answers[n] = {d}
      BY DEF IInv, AnswersAreDecision
  <2>2. Cardinality(answers[n]) \in {0, 1}
      BY <2>1, FS_EmptySet, FS_Singleton, Zenon
  <2> QED BY <2>2
<1> QED BY <1>1, GatesInvariant, PTL

\* Concurrent first begins of a gate insert it once.
THEOREM InsertsAreExclusive == Spec => []NoInsertCollides
<1>1. IInv => NoInsertCollides
  <2> SUFFICES ASSUME IInv, NEW c \in Callers, handler[c].pc = "insert"
               PROVE  /\ gates[handler[c].gate] = None
                      /\ \A d \in Callers \ {c} :
                            ~(handler[d].pc = "insert" /\ handler[d].gate = handler[c].gate)
      BY DEF NoInsertCollides
  <2>1. handler[c].gate \in Gates /\ gateLock[handler[c].gate] = c
      BY DEF IInv, CallerWaits, LockedToInsert
  <2> QED BY <2>1 DEF IInv, InsertsMissing, LockedToInsert
<1> QED BY <1>1, GatesInvariant, PTL

-----------------------------------------------------------------------------
(* Gates implement registers that are written once.                        *)

\* Who changes neither rows nor answers does not move a register.
LEMMA RegisterStays ==
    ASSUME UNCHANGED <<gates, answers>>
    PROVE  UNCHANGED <<[n \in Gates |-> Status(n)], answers>>
    BY DEF Status

\* The commit of an inserted gate opens its register.
LEMMA CommitOpens ==
    ASSUME IInv, NEW c \in Callers, NEW inline \in SUBSET Inline, BeginCommit(c, inline)
    PROVE  \E n \in Gates : Register!Open(n)
<1> DEFINE row == [status |-> "pending", channels |-> inline]
<1>1. /\ handler[c].pc = "insert" /\ answers' = answers
      /\ gates' = [gates EXCEPT ![handler[c].gate] = row]
    BY DEF BeginCommit
<1>2. PICK n \in Gates : n = handler[c].gate /\ gates[n] = None
    BY <1>1 DEF IInv, CallerWaits, InsertsMissing
<1>3. row \in GateRow /\ row # None /\ row.status = "pending"
    BY DEF GateRow
<1> HIDE DEF row
<1>4. gates'[n] = row /\ \A m \in Gates \ {n} : gates'[m] = gates[m]
    BY <1>1, <1>2 DEF IInv, RowsTyped
<1>5. Status(n) = None /\ Status(n)' = "pending" /\ \A m \in Gates \ {n} : Status(m)' = Status(m)
    BY <1>2, <1>3, <1>4 DEF Status
<1>6. Register!Open(n)
    BY <1>1, <1>5 DEF Register!Open
<1> QED BY <1>6

\* A resolution decides it.
LEMMA ResolveDecides ==
    ASSUME IInv, NEW a \in Approvers, NEW n \in Gates, NEW d \in Decisions, Resolve(a, n, d)
    PROVE  Register!Decide(n, d)
<1>1. /\ gates[n] # None /\ gates[n].status = "pending" /\ answers' = answers
      /\ gates' = [gates EXCEPT ![n].status = d]
    BY DEF Resolve
<1>2. gates[n] \in GateRow
    BY <1>1 DEF IInv, RowsTyped
<1>3. gates'[n] = [gates[n] EXCEPT !.status = d] /\ \A m \in Gates \ {n} : gates'[m] = gates[m]
    BY <1>1 DEF IInv, RowsTyped
<1>4. gates'[n] \in GateRow /\ gates'[n].status = d
    BY <1>2, <1>3 DEF GateRow
<1>5. Status(n) = "pending" /\ Status(n)' = d /\ \A m \in Gates \ {n} : Status(m)' = Status(m)
    BY <1>1, <1>3, <1>4 DEF Status
<1> QED BY <1>1, <1>5 DEF Register!Decide

\* An answer that is a decision is that of the register.
LEMMA AnswerLearns ==
    ASSUME IInv, NEW n \in Gates, gates[n] # None, gates[n].status # "pending", gates' = gates,
           answers' = [answers EXCEPT ![n] = @ \cup {gates[n].status}]
    PROVE  Register!Learn(n)
<1>1. gates[n].status \in Decisions /\ Status(n) = gates[n].status
    BY DEF IInv, RowsTyped, GateRow, Status
<1>2. answers[n] \subseteq {gates[n].status}
    BY DEF IInv, AnswersAreDecision
<1>3. answers' = [answers EXCEPT ![n] = {Status(n)}]
    BY <1>1, <1>2 DEF IInv, RowsTyped
<1>4. \A m \in Gates : Status(m)' = Status(m)
    BY DEF Status
<1> QED BY <1>1, <1>3, <1>4 DEF Register!Learn

\* So a reply learns of it, or of nothing,
LEMMA ReplyLearns ==
    ASSUME IInv, NEW p \in Procs, Reply(p)
    PROVE  UNCHANGED <<gates, answers>> \/ \E n \in Gates : Register!Learn(n)
<1>1. CASE p \in Callers /\ caller[p].pc = "begin"
  <2> DEFINE n == caller[p].gate
  <2>1. handler[p].pc = "send" /\ gates' = gates /\ Learn(p, handler[p].status)
      BY <1>1 DEF Reply, db
  <2>2. n \in Gates /\ gates[n] # None /\ handler[p].status \in {"pending", gates[n].status}
      BY <1>1, <2>1 DEF IInv, CallerWaits, AnswerIsTrue
  <2>3. CASE handler[p].status = "pending"
      BY <2>1, <2>3 DEF Learn
  <2>4. CASE handler[p].status # "pending"
    <3>1. /\ handler[p].status = gates[n].status /\ gates[n].status # "pending"
          /\ answers' = [answers EXCEPT ![n] = @ \cup {gates[n].status}]
        BY <2>1, <2>2, <2>4 DEF Learn
    <3> HIDE DEF n
    <3> QED BY <2>1, <2>2, <3>1, AnswerLearns
  <2> QED BY <2>3, <2>4
<1>2. CASE ~(p \in Callers /\ caller[p].pc = "begin")
    BY <1>2 DEF Reply, db
<1> QED BY <1>1, <1>2

\* and a poll, too.
LEMMA PollLearns ==
    ASSUME IInv, NEW c \in Callers, Poll(c)
    PROVE  UNCHANGED <<gates, answers>> \/ \E n \in Gates : Register!Learn(n)
<1> DEFINE n == caller[c].gate
<1>1. caller[c].pc = "wait" /\ gates' = gates
    BY DEF Poll, db
<1>2. n \in Gates /\ gates[n] # None
    BY <1>1 DEF IInv, CallerWaits
<1>3. CASE answers' = answers
    BY <1>1, <1>3
<1>4. CASE gates[n].status # "pending" /\ Learn(c, gates[n].status)
  <2>1. answers' = [answers EXCEPT ![n] = @ \cup {gates[n].status}]
      BY <1>4 DEF Learn
  <2> HIDE DEF n
  <2> QED BY <1>1, <1>2, <1>4, <2>1, AnswerLearns
<1> QED BY <1>3, <1>4 DEF Poll

\* Gates implement registers that are written once: a begin, a resolution or an
\* answer moves one of them as WriteOnce allows, everything else moves none.
THEOREM GatesAreRegisters == Spec => DecidesOnce
<1>1. Init => Register!Init
    BY DEF Init, Register!Init, Status
<1>2. IInv /\ [Next]_vars => [Register!Next]_<<[n \in Gates |-> Status(n)], answers>>
  <2> SUFFICES ASSUME IInv, [Next]_vars
               PROVE  \/ UNCHANGED <<gates, answers>>
                      \/ Register!Next
      BY RegisterStays
  <2>1. ASSUME NEW c \in Callers, NEW n \in Gates, BeginRead(c, n) \/ BeginRefused(c, n)
        PROVE  UNCHANGED <<gates, answers>>
      BY <2>1 DEF BeginRead, BeginRefused, db
  <2>2. ASSUME NEW c \in Callers, BeginJoin(c) \/ BeginInsert(c)
        PROVE  UNCHANGED <<gates, answers>>
      BY <2>2 DEF BeginJoin, BeginInsert, db
  <2>3. ASSUME NEW c \in Callers, NEW inline \in SUBSET Inline, BeginCommit(c, inline)
        PROVE  Register!Next
      BY <2>3, CommitOpens DEF Register!Next
  <2>4. ASSUME NEW c \in Callers, Complete(c) \/ TimesOut(c) \/ CallAgain(c)
        PROVE  UNCHANGED <<gates, answers>>
      BY <2>4 DEF Complete, TimesOut, CallAgain, db
  <2>5. ASSUME NEW c \in Callers, Poll(c)
        PROVE  UNCHANGED <<gates, answers>> \/ Register!Next
      BY <2>5, PollLearns DEF Register!Next
  <2>6. ASSUME NEW a \in Approvers, NEW n \in Gates, NEW d \in Decisions, Resolve(a, n, d)
        PROVE  Register!Next
      BY <2>6, ResolveDecides DEF Register!Next
  <2>7. ASSUME NEW p \in Procs, Reply(p)
        PROVE  UNCHANGED <<gates, answers>> \/ Register!Next
      BY <2>7, ReplyLearns DEF Register!Next
  <2>8. ASSUME NEW p \in Procs, (\E ok \in BOOLEAN : Tell(p, ok)) \/ HandlerDies(p)
        PROVE  UNCHANGED <<gates, answers>>
      BY <2>8 DEF Tell, HandlerDies
  <2>9. CASE (\E a \in Approvers : Cancel(a)) \/ UNCHANGED vars
      BY <2>9 DEF Cancel, vars
  <2> QED BY <2>1, <2>2, <2>3, <2>4, <2>5, <2>6, <2>7, <2>8, <2>9 DEF Next, BeginStep
<1> QED BY <1>1, <1>2, GatesInvariant, PTL DEF Spec, DecidesOnce, Register!Spec
-----------------------------------------------------------------------------
(* The log and the notifications.                                          *)

Target   == ({"stored"} \X Stored) \cup ({"inline"} \X Inline)
Delivery == [type: EventTypes, gate: Gates \cup {None}, to: Target,
             status: {"pending", "delivered", "failed"}]

\* Sequences of events and of rows, whose places the queues name.
LogTyped ==
    /\ events \in Seq(Event) /\ deliveries \in Seq(Delivery) /\ faults \in Nat
    /\ \A p \in Procs : handler[p].queue \in Seq(1 .. Len(deliveries))

\* What is to be told is an event of the log.
RowsAreLogged ==
    \A i \in 1 .. Len(deliveries) : \E j \in 1 .. Len(events) :
        events[j] = [type |-> deliveries[i].type, gate |-> deliveries[i].gate]

\* What was told is one, too.
HeardIsLogged == \A e \in heard : \E j \in 1 .. Len(events) : events[j] = e

\* A request queues rows when it announces, and nothing before.
QueuesWhileSending ==
    /\ \A p \in Procs : handler[p].pc # "send" => handler[p].queue = <<>>
    /\ \A c \in Callers : caller[c].pc = "idle" => handler[c].pc = "off"

\* No two requests, and no request twice, have a row to send.
QueuedOnce ==
    \A p, q \in Procs :
        \A i \in 1 .. Len(handler[p].queue), j \in 1 .. Len(handler[q].queue) :
            handler[p].queue[i] = handler[q].queue[j] => p = q /\ i = j

Queued(i) == \E p \in Procs : \E k \in 1 .. Len(handler[p].queue) : handler[p].queue[k] = i

\* UnsettledIsQueued, by places.
PendingIsQueued ==
    faults = 0 => \A i \in 1 .. Len(deliveries) : deliveries[i].status = "pending" <=> Queued(i)

LInv == /\ LogTyped /\ RowsAreLogged /\ HeardIsLogged /\ QueuesWhileSending /\ QueuedOnce
        /\ PendingIsQueued /\ LogTellsGate

\* The channels that want an event are finitely many, listed as targets.
LEMMA RecipientsListed ==
    ASSUME NEW type, NEW inline \in SUBSET Inline
    PROVE  LET R == Recipients(type, inline)
           IN  Cardinality(R) \in Nat /\ SetToSeq(R) \in [1 .. Cardinality(R) -> Target]
<1> DEFINE R == Recipients(type, inline)
<1>1. IsFiniteSet(Target)
    BY FS_Singleton, FS_Product, FS_Union DEF Target
<1>2. R \in SUBSET Target
    BY DEF Recipients, Target
<1> HIDE DEF R
<1>3. IsFiniteSet(R)
    BY <1>1, <1>2, FS_Subset
<1>4. Cardinality(R) \in Nat /\ ExistsBijection(1 .. Cardinality(R), R)
    BY <1>3, FS_CardinalityType
<1>5. \E f \in [1 .. Cardinality(R) -> R] : IsInjective(f)
    BY <1>4 DEF ExistsBijection, Bijection, Injection
<1>6. SetToSeq(R) \in [1 .. Cardinality(R) -> R]
    BY <1>5 DEF SetToSeq
<1> QED BY <1>2, <1>4, <1>6 DEF R

\* What p announces: an event, and rows that it queues.
Announced(p, type, gate) ==
    /\ events' \in Seq(Event) /\ Len(events') = Len(events) + 1
    /\ \A j \in 1 .. Len(events) : events'[j] = events[j]
    /\ events'[Len(events) + 1] = [type |-> type, gate |-> gate]
    /\ deliveries' \in Seq(Delivery) /\ Len(deliveries) <= Len(deliveries')
    /\ \A i \in 1 .. Len(deliveries) : deliveries'[i] = deliveries[i]
    /\ \A i \in Len(deliveries) + 1 .. Len(deliveries') :
           deliveries'[i].type = type /\ deliveries'[i].gate = gate /\ deliveries'[i].status = "pending"
    /\ handler'[p].queue \in Seq(Len(deliveries) + 1 .. Len(deliveries'))
    /\ Len(handler'[p].queue) = Len(deliveries') - Len(deliveries)
    /\ \A i \in 1 .. Len(handler'[p].queue) : handler'[p].queue[i] = Len(deliveries) + i

LEMMA AnnouncedStep ==
    ASSUME HandlersTyped, LogTyped, NEW p \in Procs, NEW type \in EventTypes,
           NEW gate \in Gates \cup {None}, NEW inline \in SUBSET Inline, NEW status,
           Announce(p, type, gate, inline, status)
    PROVE  Announced(p, type, gate)
<1> DEFINE k == Cardinality(Recipients(type, inline))
           to == SetToSeq(Recipients(type, inline))
           rows == Rows(type, gate, inline)
           e == [type |-> type, gate |-> gate]
<1>1. k \in Nat /\ to \in [1 .. k -> Target]
    BY RecipientsListed
<1>2. rows = [i \in 1 .. k |-> [type |-> type, gate |-> gate, to |-> to[i], status |-> "pending"]]
    BY DEF Rows
<1>3. events' = Append(events, e) /\ deliveries' = deliveries \o rows
    BY DEF Announce
<1>4. handler'[p].queue = [i \in DOMAIN rows |-> Len(deliveries) + i]
    BY AnnounceStep DEF QueuesRows
<1> HIDE DEF k, to, rows
<1>5. /\ rows \in [1 .. k -> Delivery]
      /\ \A i \in 1 .. k : rows[i].type = type /\ rows[i].gate = gate /\ rows[i].status = "pending"
    BY <1>1, <1>2 DEF Delivery
<1>6. rows \in Seq(Delivery) /\ Len(rows) = k /\ DOMAIN rows = 1 .. k
    BY <1>1, <1>5
<1>7. e \in Event
    BY DEF Event
<1> HIDE DEF e
<1>8. /\ events' \in Seq(Event) /\ Len(events') = Len(events) + 1
      /\ \A j \in 1 .. Len(events) : events'[j] = events[j]
      /\ events'[Len(events) + 1] = e
    BY <1>3, <1>7 DEF LogTyped
<1>9. Len(deliveries) \in Nat
    BY DEF LogTyped
<1>10. /\ deliveries' \in Seq(Delivery) /\ Len(deliveries') = Len(deliveries) + k
       /\ \A i \in 1 .. Len(deliveries) + k :
             deliveries'[i] = IF i <= Len(deliveries) THEN deliveries[i] ELSE rows[i - Len(deliveries)]
  <2>1. deliveries \in Seq(Delivery)
      BY DEF LogTyped
  <2>2. /\ deliveries \o rows \in Seq(Delivery)
        /\ Len(deliveries \o rows) = Len(deliveries) + Len(rows)
        /\ \A i \in 1 .. Len(deliveries) + Len(rows) :
              (deliveries \o rows)[i] = IF i <= Len(deliveries) THEN deliveries[i] ELSE rows[i - Len(deliveries)]
      BY <1>6, <2>1, ConcatProperties, Zenon
  <2> QED BY <1>3, <1>6, <2>2, Zenon
<1>11. /\ \A i \in 1 .. Len(deliveries) : deliveries'[i] = deliveries[i]
       /\ \A i \in Len(deliveries) + 1 .. Len(deliveries') :
             deliveries'[i].type = type /\ deliveries'[i].gate = gate /\ deliveries'[i].status = "pending"
  <2>1. ASSUME NEW i \in 1 .. Len(deliveries) PROVE deliveries'[i] = deliveries[i]
      BY <1>1, <1>9, <1>10
  <2>2. ASSUME NEW i \in Len(deliveries) + 1 .. Len(deliveries')
        PROVE  deliveries'[i].type = type /\ deliveries'[i].gate = gate /\ deliveries'[i].status = "pending"
    <3>1. deliveries'[i] = rows[i - Len(deliveries)] /\ i - Len(deliveries) \in 1 .. k
        BY <1>1, <1>9, <1>10
    <3> QED BY <1>5, <3>1
  <2> QED BY <2>1, <2>2
<1> DEFINE q == handler'[p].queue
<1>12. q = [i \in 1 .. k |-> Len(deliveries) + i]
    BY <1>4, <1>6
<1> HIDE DEF q
<1>13. /\ q \in Seq(Len(deliveries) + 1 .. Len(deliveries')) /\ Len(q) = k
       /\ \A i \in 1 .. k : q[i] = Len(deliveries) + i
    BY <1>1, <1>9, <1>10, <1>12
<1>14. Len(q) = Len(deliveries') - Len(deliveries)
    BY <1>1, <1>9, <1>10, <1>13
<1> QED BY <1>1, <1>8, <1>9, <1>10, <1>11, <1>13, <1>14 DEF Announced, q, e

\* The events of a gate, after an event is appended.
LEMMA EventsStep ==
    ASSUME LogTyped, NEW p, NEW type, NEW gate, Announced(p, type, gate)
    PROVE  /\ \A n \in Gates : EventsOf(n)' = IF n = gate THEN EventsOf(n) \cup {Len(events) + 1}
                                             ELSE EventsOf(n)
           /\ \A i \in DOMAIN events :
                 /\ i \in DOMAIN events' /\ i < Len(events) + 1
                 /\ CreatedAt(i)' <=> CreatedAt(i)
                 /\ ResolvedAt(i)' <=> ResolvedAt(i)
           /\ \A i : i = Len(events) + 1 =>
                 /\ i \in DOMAIN events'
                 /\ CreatedAt(i)' <=> type = "gate.created"
                 /\ ResolvedAt(i)' <=> type = "gate.resolved"
<1> DEFINE l == Len(events)
<1>1. /\ l \in Nat /\ DOMAIN events = 1 .. l /\ DOMAIN events' = 1 .. l + 1
      /\ \A j \in 1 .. l : events'[j] = events[j]
      /\ events'[l + 1] = [type |-> type, gate |-> gate]
    BY DEF LogTyped, Announced
<1> HIDE DEF l
<1>2. \A j \in DOMAIN events' : j \in DOMAIN events \/ j = l + 1
    BY <1>1
<1>3. \A j \in DOMAIN events : j \in DOMAIN events' /\ j # l + 1 /\ j < l + 1 /\ events'[j] = events[j]
    BY <1>1
<1>4. l + 1 \in DOMAIN events' /\ events'[l + 1].gate = gate /\ events'[l + 1].type = type
    BY <1>1
<1>5. ASSUME NEW n \in Gates
      PROVE  EventsOf(n)' = IF n = gate THEN EventsOf(n) \cup {l + 1} ELSE EventsOf(n)
    BY <1>2, <1>3, <1>4 DEF EventsOf
<1> QED BY <1>3, <1>4, <1>5 DEF CreatedAt, ResolvedAt, l

\* A step that tells nobody and appends nothing.
Quiet == /\ UNCHANGED <<gates, events, deliveries, heard, faults>>
         /\ \A p \in Procs : handler'[p].queue = handler[p].queue
         /\ QueuesWhileSending'

LEMMA QuietKeeps ==
    ASSUME LInv, Quiet
    PROVE  LInv'
<1> USE DEF LInv, Quiet
<1>1. LogTyped'
    BY DEF LogTyped
<1>2. RowsAreLogged' /\ HeardIsLogged'
    BY DEF RowsAreLogged, HeardIsLogged
<1>3. QueuedOnce'
    BY DEF QueuedOnce
<1>4. PendingIsQueued'
    BY DEF PendingIsQueued, Queued
<1>5. LogTellsGate'
    BY DEF LogTellsGate, EventsOf, CreatedAt, ResolvedAt
<1> QED BY <1>1, <1>2, <1>3, <1>4, <1>5

LEMMA QuietSteps ==
    ASSUME IInv, LInv,
           \/ \E c \in Callers :
                \/ \E n \in Gates : BeginRead(c, n) \/ BeginRefused(c, n)
                \/ BeginJoin(c) \/ BeginInsert(c) \/ Poll(c) \/ TimesOut(c) \/ CallAgain(c)
           \/ \E p \in Procs : Reply(p)
    PROVE  Quiet
<1> USE DEF IInv, LInv
<1>1. ASSUME NEW c \in Callers, NEW n \in Gates, BeginRead(c, n)
      PROVE  Quiet
  <2>1. OnlyHandler(c) /\ handler'[c].queue = <<>>
      BY <1>1, ReadStep DEF BeginRead
  <2>2. OnlyCaller(c) /\ caller'[c].pc = "begin" /\ caller[c].pc = "idle"
      BY <1>1, CallsStep DEF BeginRead, Calls
  <2> QED BY <1>1, <2>1, <2>2 DEF BeginRead, Quiet, QueuesWhileSending, OnlyHandler, OnlyCaller, Procs, db
<1>2. ASSUME NEW c \in Callers, UNCHANGED <<db, handler, heard, faults>>,
             OnlyCaller(c), caller'[c].pc = "idle" => handler[c].pc = "off"
      PROVE  Quiet
    BY <1>2 DEF Quiet, QueuesWhileSending, OnlyCaller, db
<1>3. ASSUME NEW c \in Callers, NEW n \in Gates, BeginRefused(c, n)
      PROVE  Quiet
  <2>1. OnlyCaller(c) /\ caller'[c].pc = "cancelled"
      BY <1>3, RefusedStep
  <2> QED BY <1>2, <1>3, <2>1 DEF BeginRefused
<1>4. ASSUME NEW c \in Callers, TimesOut(c) \/ CallAgain(c)
      PROVE  Quiet
  <2>1. CASE TimesOut(c)
    <3>1. OnlyCaller(c) /\ caller'[c].pc = "thrown"
        BY <2>1, CallerGoto DEF TimesOut
    <3> QED BY <1>2, <2>1, <3>1 DEF TimesOut
  <2>2. CASE CallAgain(c)
    <3>1. OnlyCaller(c)
        BY <2>2, AgainStep
    <3> QED BY <1>2, <2>2, <3>1 DEF CallAgain
  <2> QED BY <1>4, <2>1, <2>2
<1>5. ASSUME NEW c \in Callers, Poll(c)
      PROVE  Quiet
  <2>1. caller[c].gate \in Gates /\ gates[caller[c].gate] # None /\ UNCHANGED <<db, handler, heard, faults>>
      BY <1>5 DEF Poll, CallerWaits
  <2>2. gates[caller[c].gate].status \in Decisions \cup {"pending"}
      BY <2>1 DEF RowsTyped, GateRow
  <2>3. OnlyCaller(c) /\ caller'[c].pc # "idle"
    <3>1. CASE caller' = [caller EXCEPT ![c].pc = "cancelled"]
        BY <3>1, CallerGoto
    <3>2. CASE Learn(c, gates[caller[c].gate].status)
        BY <2>1, <2>2, <3>2, LearnStep
    <3> QED BY <1>5, <3>1, <3>2 DEF Poll
  <2> QED BY <1>2, <2>1, <2>3
<1>6. ASSUME NEW c \in Callers, BeginJoin(c)
      PROVE  Quiet
  <2>1. OnlyHandler(c) /\ handler'[c].pc = "send" /\ handler'[c].queue = handler[c].queue
      BY <1>6, AnswerStep DEF BeginJoin, Procs
  <2>2. handler[c].pc = "read" /\ UNCHANGED <<db, caller, heard, faults>>
      BY <1>6 DEF BeginJoin
  <2> QED BY <2>1, <2>2 DEF Quiet, QueuesWhileSending, OnlyHandler, Procs, db
<1>7. ASSUME NEW c \in Callers, BeginInsert(c)
      PROVE  Quiet
  <2>1. OnlyHandler(c) /\ handler'[c].pc = "insert" /\ handler'[c].queue = handler[c].queue
      BY <1>7, GotoStep DEF BeginInsert, Procs, HandlerPCs
  <2>2. handler[c].pc = "read" /\ UNCHANGED <<gates, events, deliveries, caller, heard, faults>>
      BY <1>7 DEF BeginInsert
  <2> QED BY <2>1, <2>2 DEF Quiet, QueuesWhileSending, OnlyHandler, Procs
<1>8. ASSUME NEW p \in Procs, Reply(p)
      PROVE  Quiet
  <2>1. OnlyHandler(p) /\ handler'[p] = Off
      BY <1>8, OffIsRequest, ReplaceStep DEF Reply
  <2>2. handler[p].pc = "send" /\ handler[p].queue = <<>> /\ UNCHANGED <<db, heard, faults>>
      BY <1>8 DEF Reply
  <2>3. Off.queue = <<>> /\ Off.pc = "off"
      BY DEF Off
  <2>4. \A c \in Callers : caller'[c].pc = "idle" => caller[c].pc = "idle"
    <3>1. CASE UNCHANGED caller
        BY <3>1
    <3>2. CASE p \in Callers /\ caller[p].pc = "begin" /\ Learn(p, handler[p].status)
      <4>1. caller[p].gate \in Gates /\ handler[p].status \in Decisions \cup {"pending"}
          BY <2>2, <3>2 DEF CallerWaits, AnswerIsTrue, RowsTyped, GateRow
      <4>2. OnlyCaller(p) /\ caller'[p].pc # "idle"
          BY <3>2, <4>1, LearnStep
      <4> QED BY <4>2 DEF OnlyCaller
    <3> QED BY <1>8, <3>1, <3>2 DEF Reply
  <2> QED BY <2>1, <2>2, <2>3, <2>4 DEF Quiet, QueuesWhileSending, OnlyHandler, Procs, db
<1> QED BY <1>1, <1>3, <1>4, <1>5, <1>6, <1>7, <1>8

\* A request announces: its rows are its queue.
LEMMA AnnounceKeeps ==
    ASSUME LInv, NEW p \in Procs, NEW type, NEW gate, Announced(p, type, gate),
           OnlyHandler(p), handler[p].queue = <<>>, UNCHANGED <<heard, faults>>
    PROVE  LogTyped' /\ RowsAreLogged' /\ HeardIsLogged' /\ QueuedOnce' /\ PendingIsQueued'
<1> DEFINE l == Len(events)
           d == Len(deliveries)
           k == Len(deliveries')
<1>1. /\ l \in Nat /\ Len(events') = l + 1
      /\ \A j \in 1 .. l : events'[j] = events[j]
      /\ events'[l + 1] = [type |-> type, gate |-> gate]
    BY DEF LInv, LogTyped, Announced
<1>2. /\ d \in Nat /\ k \in Nat /\ d <= k
      /\ \A i \in 1 .. d : deliveries'[i] = deliveries[i]
      /\ \A i \in d + 1 .. k :
             deliveries'[i].type = type /\ deliveries'[i].gate = gate /\ deliveries'[i].status = "pending"
    BY DEF LInv, LogTyped, Announced
<1>3. /\ handler'[p].queue \in Seq(d + 1 .. k) /\ Len(handler'[p].queue) = k - d
      /\ \A i \in 1 .. k - d : handler'[p].queue[i] = d + i
    BY DEF Announced
<1>4. \A q \in Procs \ {p} :
          /\ handler'[q] = handler[q] /\ handler[q].queue \in Seq(1 .. d)
          /\ \A i \in 1 .. Len(handler[q].queue) : handler[q].queue[i] \in 1 .. d
    BY ElementOfSeq DEF OnlyHandler, LInv, LogTyped
<1>5. Len(handler[p].queue) = 0
    BY EmptySeq
<1> HIDE DEF l, d, k
<1>6. LogTyped'
  <2>1. events' \in Seq(Event) /\ deliveries' \in Seq(Delivery) /\ faults' \in Nat
      BY DEF LInv, LogTyped, Announced
  <2>2. d + 1 .. k \subseteq 1 .. k /\ 1 .. d \subseteq 1 .. k
      BY <1>2
  <2>3. \A q \in Procs : handler'[q].queue \in Seq(1 .. k)
      BY <1>3, <1>4, <2>2, SeqMonotonic
  <2> QED BY <2>1, <2>3 DEF LogTyped, k
<1>7. RowsAreLogged'
  <2> SUFFICES ASSUME NEW i \in 1 .. k
               PROVE  \E j \in 1 .. l + 1 :
                         events'[j] = [type |-> deliveries'[i].type, gate |-> deliveries'[i].gate]
      BY <1>1 DEF RowsAreLogged, k
  <2>1. CASE i \in 1 .. d
    <3>1. \E j \in 1 .. l : events[j] = [type |-> deliveries[i].type, gate |-> deliveries[i].gate]
        BY <2>1 DEF LInv, RowsAreLogged, d, l
    <3> QED BY <1>1, <1>2, <2>1, <3>1, SMTT(30)
  <2>2. CASE i \in d + 1 .. k
      BY <1>1, <1>2, <2>2
  <2> QED BY <1>2, <2>1, <2>2
<1>8. HeardIsLogged'
  <2>1. \A e \in heard : \E j \in 1 .. l : events[j] = e
      BY DEF LInv, HeardIsLogged, l
  <2> QED BY <1>1, <2>1 DEF HeardIsLogged
<1>9. QueuedOnce'
  <2> SUFFICES ASSUME NEW q \in Procs, NEW r \in Procs,
                      NEW i \in 1 .. Len(handler'[q].queue), NEW j \in 1 .. Len(handler'[r].queue),
                      handler'[q].queue[i] = handler'[r].queue[j]
               PROVE  q = r /\ i = j
      BY DEF QueuedOnce
  <2>1. CASE q = p /\ r = p
    <3>1. i \in 1 .. k - d /\ j \in 1 .. k - d /\ handler'[p].queue[i] = handler'[p].queue[j]
        BY <1>3, <2>1
    <3>2. handler'[p].queue[i] = d + i /\ handler'[p].queue[j] = d + j
        BY <1>3, <3>1
    <3>3. d + i = d + j
        BY <3>1, <3>2
    <3>4. i \in Int /\ j \in Int
        BY <1>2, <3>1
    <3>5. i = j
        BY <1>2, <3>3, <3>4
    <3> QED BY <2>1, <3>5
  <2>2. CASE q # p /\ r # p
      BY <1>4, <2>2, SMTT(30) DEF LInv, QueuedOnce
  <2>3. CASE q = p /\ r # p
    <3>1. handler'[q].queue[i] = d + i /\ i \in Nat \ {0}
        BY <1>2, <1>3, <2>3
    <3>2. handler'[r].queue[j] \in 1 .. d
        BY <1>4, <2>3
    <3> QED BY <1>2, <3>1, <3>2
  <2>4. CASE q # p /\ r = p
    <3>1. handler'[r].queue[j] = d + j /\ j \in Nat \ {0}
        BY <1>2, <1>3, <2>4
    <3>2. handler'[q].queue[i] \in 1 .. d
        BY <1>4, <2>4
    <3> QED BY <1>2, <3>1, <3>2
  <2> QED BY <2>1, <2>2, <2>3, <2>4
<1>10. PendingIsQueued'
  <2> SUFFICES ASSUME faults = 0, NEW i \in 1 .. k
               PROVE  deliveries'[i].status = "pending"
                        <=> \E q \in Procs : \E j \in 1 .. Len(handler'[q].queue) : handler'[q].queue[j] = i
      BY DEF PendingIsQueued, Queued, k
  <2>1. CASE i \in 1 .. d
    <3>1. deliveries[i].status = "pending"
            <=> \E q \in Procs : \E j \in 1 .. Len(handler[q].queue) : handler[q].queue[j] = i
        BY <2>1 DEF LInv, PendingIsQueued, Queued, d
    <3>2. \A j \in 1 .. Len(handler'[p].queue) : handler'[p].queue[j] # i
        BY <1>2, <1>3, <2>1
    <3>3. ~ \E j \in 1 .. Len(handler[p].queue) : handler[p].queue[j] = i
        BY <1>5
    <3> QED BY <1>2, <1>4, <2>1, <3>1, <3>2, <3>3, SMTT(30)
  <2>2. CASE i \in d + 1 .. k
    <3>1. i - d \in 1 .. Len(handler'[p].queue) /\ handler'[p].queue[i - d] = i
        BY <1>2, <1>3, <2>2
    <3> QED BY <1>2, <2>2, <3>1
  <2> QED BY <1>2, <2>1, <2>2
<1> QED BY <1>6, <1>7, <1>8, <1>9, <1>10

\* A gate is created, and told of.
LEMMA CommitKeeps ==
    ASSUME IInv, LInv, NEW c \in Callers, NEW inline \in SUBSET Inline, BeginCommit(c, inline)
    PROVE  LInv'
<1> USE DEF IInv, LInv
<1>1. PICK n \in Gates : n = handler[c].gate
    BY DEF BeginCommit, CallerWaits
<1> DEFINE row == [status |-> "pending", channels |-> inline]
<1>2. row \in GateRow /\ row # None /\ row.status = "pending"
    BY DEF GateRow
<1> HIDE DEF row
<1>3. /\ handler[c].pc = "insert" /\ gates[n] = None /\ UNCHANGED <<caller, heard, faults>>
      /\ gates' = [gates EXCEPT ![n] = row]
      /\ Announce(c, "gate.created", n, inline, "pending")
    BY <1>1 DEF BeginCommit, InsertsMissing, row
<1>4. OnlyHandler(c) /\ handler'[c].pc = "send" /\ handler[c].queue = <<>> /\ caller[c].pc = "begin"
    BY <1>3, AnnounceStep DEF QueuesWhileSending, CallerWaits, Procs
<1>5. Announced(c, "gate.created", n)
    BY <1>3, AnnouncedStep DEF Procs, EventTypes
<1>6. LogTellsGate'
  <2>1. \A m \in Gates \ {n} : gates'[m] = gates[m] /\ EventsOf(m)' = EventsOf(m)
      BY <1>3, <1>5, EventsStep DEF RowsTyped
  <2>2. EventsOf(n) = {}
      BY <1>3 DEF LogTellsGate
  <2>3. PICK l : l = Len(events) + 1
      OBVIOUS
  <2>4. EventsOf(n)' = {l} /\ l \in DOMAIN events' /\ CreatedAt(l)' /\ gates'[n] = row
      BY <1>3, <1>5, <2>2, <2>3, EventsStep DEF RowsTyped
  <2> QED BY <1>2, <1>5, <2>1, <2>4, EventsStep DEF LogTellsGate
<1>7. QueuesWhileSending'
    BY <1>3, <1>4 DEF QueuesWhileSending, OnlyHandler, Procs
<1> QED BY <1>3, <1>4, <1>5, <1>6, <1>7, AnnounceKeeps DEF Procs

\* A gate is decided, and told of.
LEMMA DecideKeeps ==
    ASSUME IInv, LInv, NEW a \in Approvers, NEW n \in Gates, NEW d \in Decisions, Resolve(a, n, d)
    PROVE  LInv'
<1> USE DEF IInv, LInv
<1>1. /\ handler[a].pc = "off" /\ gates[n] # None /\ gates[n].status = "pending"
      /\ UNCHANGED <<caller, heard, faults>> /\ gates' = [gates EXCEPT ![n].status = d]
      /\ Announce(a, "gate.resolved", n, gates[n].channels, d)
    BY DEF Resolve
<1>2. gates[n] \in GateRow
    BY <1>1 DEF RowsTyped
<1>3. [gates[n] EXCEPT !.status = d] \in GateRow /\ [gates[n] EXCEPT !.status = d].status = d
    BY <1>2 DEF GateRow
<1>4. /\ gates'[n] # None /\ gates'[n].status # "pending"
      /\ \A m \in Gates \ {n} : gates'[m] = gates[m]
    BY <1>1, <1>3 DEF RowsTyped, Decisions
<1>5. OnlyHandler(a) /\ handler'[a].pc = "send" /\ handler[a].queue = <<>>
    BY <1>1, AnnounceStep DEF QueuesWhileSending, Procs
<1>6. Announced(a, "gate.resolved", n)
    BY <1>1, <1>2, AnnouncedStep DEF Procs, EventTypes, GateRow
<1>7. LogTellsGate'
  <2>1. \A m \in Gates \ {n} : EventsOf(m)' = EventsOf(m)
      BY <1>6, EventsStep
  <2>2. PICK i \in DOMAIN events : EventsOf(n) = {i} /\ CreatedAt(i)
      BY <1>1 DEF LogTellsGate
  <2>3. PICK l : l = Len(events) + 1
      OBVIOUS
  <2>4. /\ EventsOf(n)' = {i, l} /\ i < l
        /\ i \in DOMAIN events' /\ CreatedAt(i)'
        /\ l \in DOMAIN events' /\ ResolvedAt(l)'
      BY <1>6, <2>2, <2>3, EventsStep
  <2>5. \A i1 \in DOMAIN events : i1 \in DOMAIN events' /\ (CreatedAt(i1)' <=> CreatedAt(i1))
                                                     /\ (ResolvedAt(i1)' <=> ResolvedAt(i1))
      BY <1>6, EventsStep
  <2> QED BY <1>4, <2>1, <2>4, <2>5 DEF LogTellsGate
<1>8. QueuesWhileSending'
    BY <1>1, <1>5 DEF QueuesWhileSending, OnlyHandler, Procs
<1> QED BY <1>1, <1>5, <1>6, <1>7, <1>8, AnnounceKeeps DEF Procs

\* The run ends, and is told of: no gate is concerned.
LEMMA EndKeeps ==
    ASSUME IInv, LInv, NEW p \in Procs,
           \/ p \in Callers /\ Complete(p)
           \/ p \in Approvers /\ Cancel(p)
    PROVE  LInv'
<1> USE DEF IInv, LInv
<1>1. /\ handler[p].pc = "off" /\ UNCHANGED <<gates, caller, heard, faults>>
      /\ p \in Callers => caller[p].pc = "decided"
      /\ \E type \in EventTypes \ {"gate.created", "gate.resolved"} : Announce(p, type, None, {}, None)
    BY DEF Complete, Cancel, EventTypes, Procs
<1>2. PICK type \in EventTypes \ {"gate.created", "gate.resolved"} : Announce(p, type, None, {}, None)
    BY <1>1
<1>3. OnlyHandler(p) /\ handler'[p].pc = "send" /\ handler[p].queue = <<>>
    BY <1>1, <1>2, AnnounceStep DEF QueuesWhileSending
<1>4. Announced(p, type, None)
    BY <1>1, <1>2, AnnouncedStep
<1>5. LogTellsGate'
  <2>1. \A m \in Gates : EventsOf(m)' = EventsOf(m)
      BY <1>4, EventsStep
  <2>2. \A i \in DOMAIN events : i \in DOMAIN events' /\ (CreatedAt(i)' <=> CreatedAt(i))
                                                   /\ (ResolvedAt(i)' <=> ResolvedAt(i))
      BY <1>4, EventsStep
  <2> QED BY <1>1, <2>1, <2>2 DEF LogTellsGate
<1>6. QueuesWhileSending'
    BY <1>1, <1>3 DEF QueuesWhileSending, OnlyHandler, Procs
<1> QED BY <1>1, <1>3, <1>4, <1>5, <1>6, AnnounceKeeps

\* A handler dies: what it had queued is not sent any more.
LEMMA DeathKeeps ==
    ASSUME IInv, LInv, NEW p \in Procs, HandlerDies(p)
    PROVE  LInv'
<1> USE DEF IInv, LInv
<1>1. /\ UNCHANGED <<gates, events, deliveries, heard>> /\ faults' = faults + 1
      /\ OnlyHandler(p) /\ handler'[p] = Off
    BY OffIsRequest, ReplaceStep DEF HandlerDies
<1>2. Off.queue = <<>> /\ Off.pc = "off" /\ Len(Off.queue) = 0
    BY DEF Off
<1>3. \A c \in Callers : caller'[c].pc = "idle" => caller[c].pc = "idle"
    BY CallerGoto DEF HandlerDies, OnlyCaller
<1>4. LogTyped'
  <2>1. Off.queue \in Seq(1 .. Len(deliveries))
      BY <1>2, EmptySeq
  <2>2. \A q \in Procs : handler'[q].queue \in Seq(1 .. Len(deliveries))
      BY <1>1, <2>1 DEF LogTyped, OnlyHandler
  <2> QED BY <1>1, <2>2 DEF LogTyped
<1>5. RowsAreLogged' /\ HeardIsLogged'
    BY <1>1 DEF RowsAreLogged, HeardIsLogged
<1>6. QueuesWhileSending'
    BY <1>1, <1>2, <1>3 DEF QueuesWhileSending, OnlyHandler, Procs
<1>7. QueuedOnce'
  <2> SUFFICES ASSUME NEW q \in Procs, NEW r \in Procs,
                      NEW i \in 1 .. Len(handler'[q].queue), NEW j \in 1 .. Len(handler'[r].queue),
                      handler'[q].queue[i] = handler'[r].queue[j]
               PROVE  q = r /\ i = j
      BY DEF QueuedOnce
  <2>1. q # p /\ r # p
      BY <1>1, <1>2
  <2>2. handler'[q] = handler[q] /\ handler'[r] = handler[r]
      BY <1>1, <2>1 DEF OnlyHandler
  <2> HIDE DEF LInv
  <2>3. QueuedOnce
      BY DEF LInv
  <2>4. /\ i \in 1 .. Len(handler[q].queue) /\ j \in 1 .. Len(handler[r].queue)
        /\ handler[q].queue[i] = handler[r].queue[j]
      BY <2>2
  <2> QED BY <2>3, <2>4 DEF QueuedOnce
<1>8. PendingIsQueued'
    BY <1>1 DEF PendingIsQueued, LogTyped
<1>9. LogTellsGate'
    BY <1>1 DEF LogTellsGate, EventsOf, CreatedAt, ResolvedAt
<1> QED BY <1>4, <1>5, <1>6, <1>7, <1>8, <1>9

\* An endpoint is told of the first row of a queue, which is settled.
LEMMA TellKeeps ==
    ASSUME IInv, LInv, NEW p \in Procs, NEW ok \in BOOLEAN, Tell(p, ok)
    PROVE  LInv'
<1> USE DEF IInv, LInv
<1> DEFINE queue == handler[p].queue
           row == Head(queue)
           status == IF ok THEN "delivered" ELSE "failed"
           d == Len(deliveries)
<1>1. /\ queue # <<>> /\ queue \in Seq(1 .. d) /\ UNCHANGED <<gates, events, faults, caller>>
      /\ heard' = heard \cup {[type |-> deliveries[row].type, gate |-> deliveries[row].gate]}
      /\ deliveries' = [deliveries EXCEPT ![row].status = status]
    BY DEF Tell, LogTyped
<1>2. OnlyHandler(p) /\ handler'[p].pc = handler[p].pc /\ handler'[p].queue = Tail(queue)
    BY TellStep
<1>3. /\ row \in 1 .. d /\ row = queue[1] /\ Tail(queue) \in Seq(1 .. d) /\ Len(queue) \in Nat \ {0}
      /\ Len(Tail(queue)) = Len(queue) - 1
      /\ \A i \in 1 .. Len(Tail(queue)) : Tail(queue)[i] = queue[i + 1]
  <2> HIDE DEF queue
  <2>1. Len(queue) \in Nat \ {0}
      BY <1>1, EmptySeq
  <2>2. row = queue[1]
      BY <1>1
  <2> QED BY <1>1, <2>1, <2>2, ElementOfSeq, HeadTailProperties
<1>4. deliveries[row] \in Delivery /\ d \in Nat /\ deliveries \in Seq(Delivery)
    BY <1>3, ElementOfSeq DEF LogTyped
<1> DEFINE x == [deliveries[row] EXCEPT !.status = status]
<1>5. /\ x \in Delivery /\ x.status = status /\ x.type = deliveries[row].type
      /\ x.gate = deliveries[row].gate /\ status # "pending"
    BY <1>4 DEF Delivery
<1>6. deliveries' = [deliveries EXCEPT ![row] = x]
    BY <1>1
<1> HIDE DEF row, x, status, d
<1>7. /\ deliveries' \in Seq(Delivery) /\ Len(deliveries') = d
      /\ \A i \in 1 .. d : deliveries'[i] = IF i = row THEN x ELSE deliveries[i]
  <2> HIDE DEF IInv, LInv
  <2> QED BY <1>3, <1>4, <1>5, <1>6, ExceptSeq DEF d
<1>8. \A i \in 1 .. d : deliveries'[i].type = deliveries[i].type /\ deliveries'[i].gate = deliveries[i].gate
    BY <1>5, <1>7
<1> HIDE DEF queue
<1>9. LogTyped'
    BY <1>1, <1>2, <1>3, <1>7 DEF LogTyped, OnlyHandler, d
<1>10. RowsAreLogged'
    BY <1>1, <1>7, <1>8 DEF RowsAreLogged, d
<1>11. HeardIsLogged'
    BY <1>1, <1>3 DEF HeardIsLogged, RowsAreLogged, d
<1>12. QueuesWhileSending'
  <2>1. handler'[p].pc = "send" /\ handler[p].pc = "send"
      BY <1>2 DEF Tell
  <2>2. \A q \in Procs \ {p} : handler'[q] = handler[q]
      BY <1>2 DEF OnlyHandler
  <2>3. \A q \in Procs : handler'[q].pc = handler[q].pc
      BY <2>1, <2>2
  <2>4. caller' = caller
      BY <1>1
  <2> HIDE DEF LInv, IInv
  <2>5. QueuesWhileSending
      BY DEF LInv
  <2> QED BY <2>1, <2>2, <2>3, <2>4, <2>5 DEF QueuesWhileSending, Procs
<1>13. \A q \in Procs : \A i \in 1 .. Len(handler'[q].queue) : \E k \in 1 .. Len(handler[q].queue) :
          /\ handler'[q].queue[i] = handler[q].queue[k]
          /\ k = IF q = p THEN i + 1 ELSE i
  <2>1. \A i \in 1 .. Len(handler'[p].queue) :
            i + 1 \in 1 .. Len(queue) /\ handler'[p].queue[i] = queue[i + 1]
      BY <1>2, <1>3
  <2> QED BY <1>2, <2>1 DEF OnlyHandler, queue
<1>14. QueuedOnce'
  <2> SUFFICES ASSUME NEW q \in Procs, NEW r \in Procs,
                      NEW i \in 1 .. Len(handler'[q].queue), NEW j \in 1 .. Len(handler'[r].queue),
                      handler'[q].queue[i] = handler'[r].queue[j]
               PROVE  q = r /\ i = j
      BY DEF QueuedOnce
  <2>1. PICK k \in 1 .. Len(handler[q].queue) :
            handler'[q].queue[i] = handler[q].queue[k] /\ k = IF q = p THEN i + 1 ELSE i
      BY <1>13
  <2>2. PICK m \in 1 .. Len(handler[r].queue) :
            handler'[r].queue[j] = handler[r].queue[m] /\ m = IF r = p THEN j + 1 ELSE j
      BY <1>13
  <2>3. handler[q].queue[k] = handler[r].queue[m]
      BY <2>1, <2>2
  <2>4. q = r /\ k = m
      BY <2>3, SMTT(30) DEF QueuedOnce
  <2>5. i \in Int /\ j \in Int
      OBVIOUS
  <2> QED BY <2>1, <2>2, <2>4, <2>5
<1>15. PendingIsQueued'
  <2> SUFFICES ASSUME faults = 0, NEW i \in 1 .. d
               PROVE  deliveries'[i].status = "pending" <=> Queued(i)'
      BY <1>1, <1>7 DEF PendingIsQueued
  <2>1. Queued(i)' => Queued(i)
      BY <1>13, SMTT(30) DEF Queued
  <2>2. CASE i = row
    <3>1. ~Queued(i)'
      <4> SUFFICES ASSUME NEW q \in Procs, NEW j \in 1 .. Len(handler'[q].queue), handler'[q].queue[j] = i
                   PROVE  FALSE
          BY DEF Queued
      <4>1. PICK k \in 1 .. Len(handler[q].queue) :
                handler'[q].queue[j] = handler[q].queue[k] /\ k = IF q = p THEN j + 1 ELSE j
          BY <1>13
      <4>2. 1 \in 1 .. Len(handler[p].queue) /\ handler[p].queue[1] = i
          BY <1>3, <2>2 DEF queue
      <4>3. q = p /\ k = 1
          BY <4>1, <4>2 DEF QueuedOnce
      <4> QED BY <4>1, <4>3
    <3> QED BY <1>5, <1>7, <2>2, <3>1
  <2>3. CASE i # row
    <3>1. Queued(i) => Queued(i)'
      <4> SUFFICES ASSUME NEW q \in Procs, NEW j \in 1 .. Len(handler[q].queue), handler[q].queue[j] = i
                   PROVE  Queued(i)'
          BY DEF Queued
      <4>1. CASE q = p
        <5>1. j # 1 /\ j - 1 \in 1 .. Len(handler'[p].queue) /\ handler'[p].queue[j - 1] = i
            BY <1>2, <1>3, <2>3, <4>1 DEF queue
        <5> QED BY <5>1 DEF Queued
      <4>2. CASE q # p
          BY <1>2, <4>2 DEF Queued, OnlyHandler
      <4> QED BY <4>1, <4>2
    <3>2. deliveries[i].status = "pending" <=> Queued(i)
        BY DEF PendingIsQueued, d
    <3> QED BY <1>7, <2>1, <2>3, <3>1, <3>2
  <2> QED BY <2>2, <2>3
<1>16. LogTellsGate'
    BY <1>1 DEF LogTellsGate, EventsOf, CreatedAt, ResolvedAt
<1> QED BY <1>9, <1>10, <1>11, <1>12, <1>14, <1>15, <1>16
-----------------------------------------------------------------------------
(* The theorems about the log and the notifications.                       *)

\* The invariant of the log holds at first.
LEMMA InitLInv == Init => LInv
<1> SUFFICES ASSUME Init PROVE LInv
    OBVIOUS
<1>1. /\ events = <<>> /\ deliveries = <<>> /\ heard = {} /\ faults = 0
      /\ \A p \in Procs : handler[p].pc = "off" /\ handler[p].queue = <<>>
      /\ gates = [n \in Gates |-> None]
    BY DEF Init, Off
<1>2. Len(<<>>) = 0 /\ DOMAIN <<>> = {} /\ \A S : <<>> \in Seq(S)
    BY EmptySeq
<1>3. LogTyped
    BY <1>1, <1>2 DEF LogTyped
<1>4. RowsAreLogged /\ HeardIsLogged
    BY <1>1, <1>2 DEF RowsAreLogged, HeardIsLogged
<1>5. QueuesWhileSending
    BY <1>1 DEF QueuesWhileSending, Procs
<1>6. QueuedOnce
    BY <1>1, <1>2 DEF QueuedOnce
<1>7. PendingIsQueued
    BY <1>1, <1>2 DEF PendingIsQueued
<1>8. LogTellsGate
    BY <1>1, <1>2 DEF LogTellsGate, EventsOf
<1> QED BY <1>3, <1>4, <1>5, <1>6, <1>7, <1>8 DEF LInv

\* Every step keeps it.
LEMMA NextLInv == IInv /\ LInv /\ [Next]_vars => LInv'
<1> SUFFICES ASSUME IInv, LInv, [Next]_vars PROVE LInv'
    OBVIOUS
<1>1. CASE UNCHANGED vars
  <2>1. Quiet
      BY <1>1 DEF vars, Quiet, QueuesWhileSending, LInv
  <2> QED BY <2>1, QuietKeeps
<1>2. CASE \E c \in Callers : BeginStep(c)
    BY <1>2, QuietSteps, QuietKeeps, CommitKeeps DEF BeginStep
<1>3. CASE Next /\ ~ \E c \in Callers : BeginStep(c)
  <2>1. \/ \E a \in Approvers, n \in Gates, d \in Decisions : Resolve(a, n, d)
        \/ \E c \in Callers : Complete(c)
        \/ \E p \in Procs : HandlerDies(p) \/ \E ok \in BOOLEAN : Tell(p, ok)
        \/ \E c \in Callers :
                \/ \E n \in Gates : BeginRead(c, n) \/ BeginRefused(c, n)
                \/ BeginJoin(c) \/ BeginInsert(c) \/ Poll(c) \/ TimesOut(c) \/ CallAgain(c)
        \/ \E p \in Procs : Reply(p)
        \/ \E a \in Approvers : Cancel(a)
      BY <1>3 DEF Next
  <2> QED BY <2>1, QuietSteps, QuietKeeps, DecideKeeps, EndKeeps, DeathKeeps, TellKeeps DEF Procs
<1> QED BY <1>1, <1>2, <1>3

\* The inductive invariant of the log and of what is told of it.
THEOREM LogInvariant == Spec => []LInv
    BY InitLInv, NextLInv, GatesInvariant, PTL DEF Spec

\* The log of a gate is created, then resolved, each once, as its row says.
THEOREM GatesAreLogged == Spec => []LogTellsGate
<1>1. LInv => LogTellsGate
    BY DEF LInv
<1> QED BY <1>1, LogInvariant, PTL

\* An endpoint hears only of events that are committed.
THEOREM HeardWasCommitted == Spec => []HeardIsCommitted
<1>1. LInv => HeardIsCommitted
    BY DEF LInv, LogTyped, HeardIsLogged, HeardIsCommitted, ToSet
<1> QED BY <1>1, LogInvariant, PTL

\* As long as no handler dies, exactly what is queued is not settled.
THEOREM UnsettledRowsAreQueued == Spec => []UnsettledIsQueued
<1>1. LInv => UnsettledIsQueued
  <2> SUFFICES ASSUME LInv, faults = 0, NEW i \in DOMAIN deliveries
               PROVE  deliveries[i].status = "pending" <=> \E p \in Procs : i \in ToSet(handler[p].queue)
      BY DEF UnsettledIsQueued
  <2>1. DOMAIN deliveries = 1 .. Len(deliveries)
      BY DEF LInv, LogTyped
  <2>2. \A p \in Procs : DOMAIN handler[p].queue = 1 .. Len(handler[p].queue)
      BY LenProperties DEF LInv, LogTyped
  <2>3. Queued(i) <=> \E p \in Procs : i \in ToSet(handler[p].queue)
      BY <2>2 DEF Queued, ToSet
  <2> QED BY <2>1, <2>3 DEF LInv, PendingIsQueued
<1> QED BY <1>1, LogInvariant, PTL

RunTyped == runStatus \in {"running", "completed", "cancelled"}

LEMMA RunIsTyped == Spec => []RunTyped
<1>1. Init => RunTyped
    BY DEF Init, RunTyped
<1>2. RunTyped /\ [Next]_vars => RunTyped'
    BY DEF RunTyped, Next, vars, db, BeginStep, BeginRead, BeginRefused, BeginJoin, BeginInsert, BeginCommit,
           Complete, Poll, TimesOut, CallAgain, Resolve, Cancel, Tell, Reply, HandlerDies
<1> QED BY <1>1, <1>2, PTL DEF Spec

\* Rows, handlers and callers have their types.
THEOREM GatesTyped == Spec => []TypeOK
<1>1. IInv /\ LInv /\ RunTyped => TypeOK
  <2> SUFFICES ASSUME IInv, LInv, RunTyped PROVE TypeOK
      OBVIOUS
  <2> USE DEF IInv, LInv, RunTyped
  <2>1. heard \subseteq Event
      BY ElementOfSeq DEF HeardIsLogged, LogTyped
  <2>2. \A p \in Procs : \A i \in DOMAIN handler[p].queue : handler[p].queue[i] \in DOMAIN deliveries
    <3> SUFFICES ASSUME NEW p \in Procs, NEW i \in DOMAIN handler[p].queue
                 PROVE  handler[p].queue[i] \in DOMAIN deliveries
        OBVIOUS
    <3>1. DOMAIN deliveries = 1 .. Len(deliveries) /\ handler[p].queue \in Seq(1 .. Len(deliveries))
        BY DEF LogTyped
    <3> QED BY <3>1, ElementOfSeq, LenProperties
  <2>3. \A p \in Procs : handler[p].pc \in HandlerPCs
      BY DEF HandlersTyped, IsRequest
  <2>4. \A c \in Callers :
            /\ caller[c].pc \in {"idle", "begin", "wait", "decided", "cancelled", "thrown"}
            /\ caller[c].pc = "wait" => gates[caller[c].gate] # None
      BY DEF RowsTyped, CallerType, CallerWaits
  <2>5. events \in Seq(Event)
      BY DEF LogTyped
  <2>6. gates \in [Gates -> GateRow \cup {None}] /\ gateLock \in [Gates -> Callers \cup {None}]
      BY DEF RowsTyped
  <2> QED BY <2>1, <2>2, <2>3, <2>4, <2>5, <2>6 DEF TypeOK, HandlerPCs
<1> QED BY <1>1, RunIsTyped, LogInvariant, GatesInvariant, PTL
=============================================================================
