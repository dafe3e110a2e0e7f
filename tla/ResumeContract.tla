--------------------------- MODULE ResumeContract ---------------------------
(***************************************************************************)
(* The resume contract of a step: its options decide what a final failure  *)
(* means.  The server classifies it (app.ts), and so do the two SDKs, who  *)
(* send their verdict along with the failure report; the server takes the  *)
(* verdict it is sent and classifies itself only when there is none.       *)
(***************************************************************************)
EXTENDS FiniteSets

CONSTANTS Effects       \* the named external operations besides "read"

Absent == "absent"      \* an option that is not given

\* A list of side effects is a set of names here: all three classifiers only ask
\* whether there are any, and whether all of them are "read".
EffectLists == {[given |-> FALSE, names |-> {}]}
               \cup [given: {TRUE}, names: SUBSET (Effects \cup {"read"})]

Options ==
    [sideEffects:        EffectLists,
     sideEffect:         {Absent, "none", "read", "write", "external"},
     replay:             {Absent, "auto", "manual", "never"},
     onAmbiguousFailure: {Absent, "retry", "review", "fail"},
     idempotencyKey:     {Absent, "empty", "key"}]

Decisions == {"auto_retry", "safe_replay", "manual_review", "fail_hard"}

\* options.sideEffects?.filter(Boolean) ?? []
Named(o) == o.sideEffects.names
ReadsOnly(names) == names = {"read"}

-----------------------------------------------------------------------------
(* apps/server/src/app.ts                                                  *)

\* normalizeResumeContract: a given list hides the deprecated option.
ServerEffects(o) ==
    IF o.sideEffects.given THEN Named(o)
    ELSE IF o.sideEffect \in {Absent, "none"} THEN {} ELSE {o.sideEffect}

\* Fault: the idempotency key is not looked at.
InferKeyless(names, keyed) == IF names = {} \/ ReadsOnly(names) THEN "auto" ELSE "manual"

\* inferReplay; a key counts when it is a string, the empty one too.
InferReplay(names, keyed) ==
    IF names = {} \/ ReadsOnly(names) \/ keyed THEN "auto" ELSE "manual"

Replay(o) ==
    CASE o.replay # Absent -> o.replay
      [] o.replay = Absent /\ o.onAmbiguousFailure = "retry"  -> "auto"
      [] o.replay = Absent /\ o.onAmbiguousFailure = "review" -> "manual"
      [] o.replay = Absent /\ o.onAmbiguousFailure = "fail"   -> "never"
      [] OTHER -> InferReplay(ServerEffects(o), o.idempotencyKey # Absent)

ServerDecision(o, retryable) ==
    IF retryable THEN "auto_retry"
    ELSE [manual |-> "manual_review", auto |-> "safe_replay", never |-> "fail_hard"][Replay(o)]

StatusForDecision(retryable, decision) ==
    IF retryable \/ decision = "auto_retry" THEN "failed_retryable"
    ELSE IF decision = "manual_review" THEN "manual_review" ELSE "failed"

-----------------------------------------------------------------------------
(* packages/sdk/src/index.ts and sdk-python/src/tidebase/__init__.py       *)

KeyTruthy(o) == o.idempotencyKey = "key"

SdkDecision(o) ==
    LET names == Named(o)
        writes == \/ names # {} /\ ~ReadsOnly(names)
                  \/ o.sideEffect \in {"write", "external"}
    IN  IF o.replay = "manual" \/ o.onAmbiguousFailure = "review" THEN "manual_review"
        ELSE IF o.replay = "never" \/ o.onAmbiguousFailure = "fail" THEN "fail_hard"
        ELSE IF o.replay = "auto" \/ o.onAmbiguousFailure = "retry" THEN "safe_replay"
        ELSE IF writes /\ ~KeyTruthy(o) THEN "manual_review" ELSE "safe_replay"

PythonDecision(o) ==
    LET names == Named(o)
    IN  IF o.replay # Absent
        THEN [manual |-> "manual_review", auto |-> "safe_replay", never |-> "fail_hard"][o.replay]
        ELSE IF names # {} /\ ~ReadsOnly(names) /\ ~KeyTruthy(o) THEN "manual_review"
        ELSE "safe_replay"

-----------------------------------------------------------------------------
(* A step with some options fails once for good, reported by one of three  *)
(* clients: the SDKs, or one that leaves the decision to the server.       *)

VARIABLES options, client, status

Clients == {"none", "sdk", "python", "bare"}

Init == options \in Options /\ client = "none" /\ status = "running"

Report(c, decision) ==
    /\ client = "none"
    /\ client' = c
    /\ status' = StatusForDecision(FALSE, decision)
    /\ UNCHANGED options

ReportSdk    == Report("sdk", SdkDecision(options))
ReportPython == Report("python", PythonDecision(options))
ReportBare   == Report("bare", ServerDecision(options, FALSE))

Next == ReportSdk \/ ReportPython \/ ReportBare

Spec == Init /\ [][Next]_<<options, client, status>>

\* Type invariant.
TypeOK == options \in Options /\ client \in Clients
          /\ status \in {"running", "failed_retryable", "manual_review", "failed"}

\* The options that are not deprecated.
Undeprecated(o) == o.sideEffect = Absent /\ o.onAmbiguousFailure = Absent

\* testing.md: "The SDK's resume classification matches the server's: plain/
\* read-only -> safe_replay, unkeyed writes -> manual_review, keyed writes ->
\* safe_replay".  Whoever classifies, a step without deprecated options, whose
\* key is not the empty string, is parked for review exactly when its contract
\* asks for it or it writes without a key.
ParkedAsDocumented ==
    (client # "none" /\ Undeprecated(options) /\ options.idempotencyKey # "empty") =>
        (status = "manual_review" <=>
            \/ options.replay = "manual"
            \/ /\ options.replay = Absent /\ options.idempotencyKey = Absent
               /\ \E e \in Named(options) : e # "read")
=============================================================================
