----------------------------- MODULE ResumeProofs -----------------------------
(***************************************************************************)
(* Theorems about ResumeContract, for any names of effects.                *)
(***************************************************************************)
EXTENDS ResumeContract, TLAPS

\* A decision is one of four, and the status one of three.
LEMMA StatusType ==
    ASSUME NEW o \in Options, NEW d
    PROVE  StatusForDecision(FALSE, d) \in {"failed_retryable", "manual_review", "failed"}
    BY DEF StatusForDecision

\* A report keeps the options and stores one of the three failures.
THEOREM ResumeTypeCorrect == Spec => []TypeOK
<1>1. Init => TypeOK
    BY DEF Init, TypeOK, Clients
<1>2. TypeOK /\ [Next]_<<options, client, status>> => TypeOK'
    BY StatusType DEF TypeOK, Clients, Next, Report, ReportSdk, ReportPython, ReportBare
<1> QED BY <1>1, <1>2, PTL DEF Spec

-----------------------------------------------------------------------------
(* The three classifiers.                                                 *)

\* What the documentation says of a step's options.
Asks(o) == \/ o.replay = "manual"
           \/ /\ o.replay = Absent /\ o.idempotencyKey = Absent
              /\ \E e \in Named(o) : e # "read"

\* Effects beside "read" are effects, and not only "read".
LEMMA NamedFacts ==
    ASSUME NEW o
    PROVE  (\E e \in Named(o) : e # "read") <=> Named(o) # {} /\ ~ReadsOnly(Named(o))
    BY DEF Named, ReadsOnly

\* The TypeScript SDK's classifier asks for a review exactly when the options do.
LEMMA SdkDecides ==
    ASSUME NEW o \in Options, Undeprecated(o), o.idempotencyKey # "empty"
    PROVE  SdkDecision(o) = "manual_review" <=> Asks(o)
<1>1. o.replay \in {Absent, "auto", "manual", "never"} /\ o.idempotencyKey \in {Absent, "empty", "key"}
    BY DEF Options
<1> QED BY <1>1, NamedFacts DEF SdkDecision, Asks, KeyTruthy, Undeprecated, Absent

\* The Python SDK's classifier asks for a review exactly when the options do.
LEMMA PythonDecides ==
    ASSUME NEW o \in Options, Undeprecated(o), o.idempotencyKey # "empty"
    PROVE  PythonDecision(o) = "manual_review" <=> Asks(o)
<1>1. o.replay \in {Absent, "auto", "manual", "never"} /\ o.idempotencyKey \in {Absent, "empty", "key"}
    BY DEF Options
<1> QED BY <1>1, NamedFacts DEF PythonDecision, Asks, KeyTruthy, Undeprecated, Absent

\* The server's classifier asks for a review exactly when the options do.
LEMMA ServerDecides ==
    ASSUME NEW o \in Options, Undeprecated(o), o.idempotencyKey # "empty"
    PROVE  ServerDecision(o, FALSE) = "manual_review" <=> Asks(o)
<1>1. o.replay \in {Absent, "auto", "manual", "never"} /\ o.idempotencyKey \in {Absent, "empty", "key"}
    BY DEF Options
<1>2. ServerEffects(o) = Named(o)
  <2>1. o.sideEffects \in EffectLists /\ o.sideEffect = Absent
      BY DEF Options, Undeprecated
  <2>2. o.sideEffects.given \in BOOLEAN /\ (~o.sideEffects.given => o.sideEffects.names = {})
    <3>1. ASSUME o.sideEffects \in [given: {TRUE}, names: SUBSET (Effects \cup {"read"})]
          PROVE  o.sideEffects.given = TRUE
        BY <3>1
    <3>2. ASSUME o.sideEffects = [given |-> FALSE, names |-> {}]
          PROVE  o.sideEffects.given = FALSE /\ o.sideEffects.names = {}
        BY <3>2
    <3> QED BY <2>1, <3>1, <3>2 DEF EffectLists
  <2> QED BY <2>1, <2>2 DEF ServerEffects, Named
<1>3. InferReplay(Named(o), o.idempotencyKey # Absent) =
          IF o.idempotencyKey = Absent /\ \E e \in Named(o) : e # "read" THEN "manual" ELSE "auto"
    BY NamedFacts DEF InferReplay
<1>4. Replay(o) = IF o.replay # Absent THEN o.replay
                  ELSE InferReplay(Named(o), o.idempotencyKey # Absent)
    BY <1>2 DEF Replay, Undeprecated, Absent
<1> QED BY <1>1, <1>3, <1>4 DEF ServerDecision, Asks, Absent

-----------------------------------------------------------------------------
(* Every report.                                                           *)

\* A report stores what one of the classifiers says.
LEMMA ReportStores ==
    ASSUME Next
    PROVE  /\ client = "none" /\ options' = options
           /\ \E d \in {SdkDecision(options), PythonDecision(options), ServerDecision(options, FALSE)} :
                 status' = StatusForDecision(FALSE, d)
    BY DEF Next, ReportSdk, ReportPython, ReportBare, Report

\* Whoever classifies, a step is parked exactly when its documented contract asks
\* for it (classifyResumeDecision in app.ts and in both SDKs).
THEOREM ParkedAlike == Spec => []ParkedAsDocumented
<1> DEFINE I == options \in Options /\ (client = "none" \/ ParkedAsDocumented)
<1>1. Init => I
    BY DEF Init
<1>2. I /\ [Next]_<<options, client, status>> => I'
  <2> SUFFICES ASSUME I, [Next]_<<options, client, status>>
               PROVE  I'
      OBVIOUS
  <2>1. CASE UNCHANGED <<options, client, status>>
      BY <2>1 DEF ParkedAsDocumented
  <2>2. CASE Next
    <3>1. options' = options
        BY <2>2, ReportStores
    <3>2. ASSUME Undeprecated(options), options.idempotencyKey # "empty"
          PROVE  status' = "manual_review" <=> Asks(options)
      <4>1. PICK d \in {SdkDecision(options), PythonDecision(options), ServerDecision(options, FALSE)} :
                status' = StatusForDecision(FALSE, d)
          BY <2>2, ReportStores
      <4>2. d = "manual_review" <=> Asks(options)
          BY <3>2, <4>1, SdkDecides, PythonDecides, ServerDecides
      <4> QED BY <4>1, <4>2 DEF StatusForDecision
    <3>3. ParkedAsDocumented'
        BY <3>1, <3>2 DEF ParkedAsDocumented, Asks
    <3> QED BY <3>1, <3>3
  <2> QED BY <2>1, <2>2
<1>3. I => ParkedAsDocumented
    BY DEF ParkedAsDocumented
<1> QED BY <1>1, <1>2, <1>3, PTL DEF Spec
=============================================================================
