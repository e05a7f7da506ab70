------------------------------- MODULE Breaker -------------------------------
(***************************************************************************)
(* The circuit breaker in front of one upstream (src/src/health.ts).       *)
(*                                                                         *)
(* Requests of one Node process call getHealth concurrently.  decideProbe  *)
(* and applyProbeResult are synchronous; the probe between them is an      *)
(* await, so any number of calls may be probing at once and their results  *)
(* may be folded in in any order, each with the `now` its call read before *)
(* it started to wait.                                                     *)
(*                                                                         *)
(* The code only ever compares differences of wall-clock times, so a time  *)
(* stamp is represented by its age; ages saturate at Forever, which also   *)
(* stands for the stamp 0 of a new breaker.                                *)
(***************************************************************************)
EXTENDS Naturals

CONSTANTS
    Callers,     \* requests that may be inside getHealth at the same time
    TTL,         \* TTL_MS
    Timeout,     \* TIMEOUT_MS: a probe is aborted at this age
    Cooldown,    \* OPEN_COOLDOWN_MS
    Threshold,   \* FAILURE_THRESHOLD
    Forever      \* the age at which ages saturate (a bound of the model)

ASSUME TimesAssumption ==
    /\ TTL \in Nat /\ Timeout \in Nat /\ Cooldown \in Nat /\ Forever \in Nat
    /\ Timeout < TTL /\ TTL <= Cooldown /\ Cooldown <= Forever
ASSUME ThresholdAssumption == Threshold \in Nat \ {0}

VARIABLES
    breaker,     \* the Map's entry for this upstream
    call,        \* each caller's getHealth call
    up,          \* whether the upstream answers at all (environment)
    flipAge,     \* since when `up` has its value (environment)
    tripAge      \* how long ago a failed probe last opened the breaker (history)

vars == <<breaker, call, up, flipAge, tripAge>>

Age == 0 .. Forever
Older(a) == IF a < Forever THEN a + 1 ELSE Forever

States == {"closed", "open", "half-open"}
Breakers == [state: States, consecutiveFailures: 0 .. Threshold,
             probeAge: Age, openAge: Age, lastResult: BOOLEAN]

(***************************************************************************)
(* A call is idle (no call), probing (suspended at `await probe`), or has  *)
(* returned: "passed" is the answer true, "refused" the answer false.      *)
(* saw is what the upstream did with the probe so far.                     *)
(***************************************************************************)
Calls == [phase: {"idle", "probing", "passed", "refused"},
          age: Age, saw: {"pending", "up", "down"}]

Returned(phase) == [phase |-> phase, age |-> 0, saw |-> "pending"]
Idle == Returned("idle")
Verdict(healthy) == Returned(IF healthy THEN "passed" ELSE "refused")

----------------------------------------------------------------------------
(* The pure transitions of health.ts.                                      *)

\* Mutants: the entry missing its state, and a new breaker that believes it has probed.
newBreaker_unset == [state |-> "new", consecutiveFailures |-> 0,
                     probeAge |-> Forever, openAge |-> Forever, lastResult |-> TRUE]
newBreaker_probed == [state |-> "closed", consecutiveFailures |-> 0,
                      probeAge |-> 0, openAge |-> Forever, lastResult |-> TRUE]

newBreaker == [state |-> "closed", consecutiveFailures |-> 0,
               probeAge |-> Forever, openAge |-> Forever, lastResult |-> TRUE]

\* Mutants: the comparison off by one, and an open state without an end.
Cooling_off_by_one(b) == b.state = "open" /\ b.openAge <= Cooldown
Cooling_forever(b) == b.state = "open"

Cooling(b) == b.state = "open" /\ b.openAge < Cooldown
Cached(b) == b.state = "closed" /\ b.probeAge < TTL

\* decideProbe's { probe: true } branch, with its write to b.state.
ToProbe(b) == IF b.state = "open" THEN [b EXCEPT !.state = "half-open"] ELSE b

\* consecutiveFailures is only compared with the threshold, so it saturates there.
\* Mutant: failures are set, not counted.
CountFailure_one(b) == 1

CountFailure(b) ==
    IF b.consecutiveFailures < Threshold THEN b.consecutiveFailures + 1 ELSE Threshold

\* Mutants: the threshold missed by one, and a failed trial that leaves the
\* cool-down of the first trip running.
Trips_off_by_one(b) == b.state = "half-open" \/ CountFailure(b) > Threshold
OpenedAge_first_trip(b, age) == IF b.state = "closed" THEN age ELSE b.openAge

\* Whether one more failure opens the breaker, and the age of openedAt after it.
Trips(b) == b.state = "half-open" \/ CountFailure(b) >= Threshold
OpenedAge(b, age) == IF Trips(b) THEN age ELSE b.openAge

Recovered(b, age) ==
    [state |-> "closed", consecutiveFailures |-> 0,
     probeAge |-> age, openAge |-> b.openAge, lastResult |-> TRUE]

Failed(b, age) ==
    [state |-> IF Trips(b) THEN "open" ELSE b.state,
     consecutiveFailures |-> CountFailure(b),
     probeAge |-> age, openAge |-> OpenedAge(b, age), lastResult |-> FALSE]

\* Mutant: the result is stamped with the time it is delivered at.
applyProbeResult_late_stamp(b, healthy, age) ==
    IF healthy THEN Recovered(b, 0) ELSE Failed(b, 0)

applyProbeResult(b, healthy, age) ==
    IF healthy THEN Recovered(b, age) ELSE Failed(b, age)

----------------------------------------------------------------------------
Init ==
    /\ breaker = newBreaker
    /\ call = [c \in Callers |-> Idle]
    /\ up \in BOOLEAN
    /\ flipAge = Forever
    /\ tripAge = Forever

\* getHealth returns false without probing: the breaker is cooling down.
FailFast(c) ==
    /\ call[c].phase = "idle"
    /\ Cooling(breaker)
    /\ call' = [call EXCEPT ![c] = Returned("refused")]
    /\ UNCHANGED <<breaker, up, flipAge, tripAge>>

\* getHealth returns the last result, younger than the TTL.
ServeCached(c) ==
    /\ call[c].phase = "idle"
    /\ Cached(breaker)
    /\ call' = [call EXCEPT ![c] = Verdict(breaker.lastResult)]
    /\ UNCHANGED <<breaker, up, flipAge, tripAge>>

\* getHealth goes on to `await probe`; its `now` is the present.
StartProbe(c) ==
    /\ call[c].phase = "idle"
    /\ ~Cooling(breaker) /\ ~Cached(breaker)
    /\ breaker' = ToProbe(breaker)
    /\ call' = [call EXCEPT ![c] = [phase |-> "probing", age |-> 0, saw |-> "pending"]]
    /\ UNCHANGED <<up, flipAge, tripAge>>

\* The upstream answers the probe, or the fetch fails or is aborted.
Answer(c) ==
    /\ call[c].phase = "probing" /\ call[c].saw = "pending"
    /\ call' = [call EXCEPT ![c].saw = IF up THEN "up" ELSE "down"]
    /\ UNCHANGED <<breaker, up, flipAge, tripAge>>

\* The call resumes, folds its result in and returns it.
Deliver(c) ==
    /\ call[c].phase = "probing" /\ call[c].saw # "pending"
    /\ LET healthy == call[c].saw = "up" IN
        /\ breaker' = applyProbeResult(breaker, healthy, call[c].age)
        /\ call' = [call EXCEPT ![c] = Verdict(healthy)]
        /\ tripAge' = IF ~healthy /\ breaker'.state = "open" THEN 0 ELSE tripAge
    /\ UNCHANGED <<up, flipAge>>

\* The request has used its answer; the next one may arrive.
Leave(c) ==
    /\ call[c].phase \in {"passed", "refused"}
    /\ call' = [call EXCEPT ![c] = Idle]
    /\ UNCHANGED <<breaker, up, flipAge, tripAge>>

\* Time passes; no probe outlives its abort timer.
Tick ==
    /\ \A c \in Callers : call[c].phase = "probing" => call[c].age < Timeout
    /\ breaker' = [breaker EXCEPT !.probeAge = Older(@), !.openAge = Older(@)]
    /\ call' = [c \in Callers |->
                  IF call[c].phase = "probing"
                  THEN [call[c] EXCEPT !.age = Older(@)] ELSE call[c]]
    /\ flipAge' = Older(flipAge)
    /\ tripAge' = Older(tripAge)
    /\ UNCHANGED up

\* The upstream goes down or comes back.
Flip ==
    /\ up' = ~up
    /\ flipAge' = 0
    /\ UNCHANGED <<breaker, call, tripAge>>

Ask(c) == FailFast(c) \/ ServeCached(c) \/ StartProbe(c)

Next ==
    \/ \E c \in Callers : FailFast(c)
    \/ \E c \in Callers : ServeCached(c)
    \/ \E c \in Callers : StartProbe(c)
    \/ \E c \in Callers : Answer(c)
    \/ \E c \in Callers : Deliver(c)
    \/ \E c \in Callers : Leave(c)
    \/ Tick
    \/ Flip

Spec == Init /\ [][Next]_vars

(***************************************************************************)
(* Requests keep arriving, every probe ends (its abort timer fires),       *)
(* resumed calls run, and time passes.  Nothing is assumed of Flip.        *)
(***************************************************************************)
Fairness ==
    /\ WF_vars(\E c \in Callers : Ask(c))
    /\ \A c \in Callers : WF_vars(Answer(c)) /\ WF_vars(Deliver(c)) /\ WF_vars(Leave(c))
    /\ WF_vars(Tick)

FairSpec == Spec /\ Fairness

----------------------------------------------------------------------------
TypeOK ==
    /\ breaker \in Breakers
    /\ call \in [Callers -> Calls]
    /\ up \in BOOLEAN
    /\ flipAge \in Age
    /\ tripAge \in Age

\* How long ago the upstream was last up, and last down.
UpAge == IF up THEN 0 ELSE flipAge
DownAge == IF up THEN flipAge ELSE 0

(***************************************************************************)
(* A result, wherever it is kept, carries an age at least as large as the  *)
(* time since the upstream was in the state it reports, and the open       *)
(* state's stamp is at most a timeout older than the failure that set it:  *)
(* getHealth stamps a result with the `now` of before the probe, so late   *)
(* results make the breaker look older than it is, never fresher.          *)
(***************************************************************************)
ResultAges ==
    /\ \A c \in Callers : call[c].phase = "probing" =>
          /\ call[c].age <= Timeout
          /\ call[c].saw = "up" => UpAge <= call[c].age
          /\ call[c].saw = "down" => DownAge <= call[c].age
    /\ breaker.lastResult => UpAge <= breaker.probeAge
    /\ ~breaker.lastResult => DownAge <= breaker.probeAge
    /\ breaker.state # "closed" => /\ DownAge <= breaker.openAge
                                   /\ breaker.openAge <= tripAge + Timeout

(***************************************************************************)
(* The breaker is closed exactly while fewer than FAILURE_THRESHOLD probes *)
(* in a row have failed, and a half-open breaker always has a probe under  *)
(* way whose result will move it on, however many calls overlap            *)
(* (decideProbe, applyProbeResult).                                        *)
(***************************************************************************)
Coherent ==
    /\ (breaker.state = "closed") <=> (breaker.consecutiveFailures < Threshold)
    /\ breaker.state = "half-open" => \E c \in Callers : call[c].phase = "probing"

Starts(c) == call[c].phase = "idle" /\ call'[c].phase = "probing"
Passes(c) == call[c].phase # "passed" /\ call'[c].phase = "passed"
IsRefused(c) == call[c].phase # "refused" /\ call'[c].phase = "refused"

(***************************************************************************)
(* After a failed probe has opened the breaker, no probe is started from   *)
(* the open state for a cool-down less one probe timeout: openedAt is the  *)
(* time the failed call began, up to a timeout before it failed, and late  *)
(* failures may move it back but never by more ("fail fast WITHOUT         *)
(* probing", getHealth).                                                   *)
(***************************************************************************)
NoHammering ==
    [][\A c \in Callers : Starts(c) /\ breaker.state = "open" => tripAge + Timeout >= Cooldown]_vars

(***************************************************************************)
(* A request is let through to the payment challenge only if the upstream  *)
(* really was up less than a TTL ago, although results arrive late and out *)
(* of order and a new breaker starts optimistic (getHealth's `now` is read *)
(* before the probe).                                                      *)
(***************************************************************************)
PassedOnRecentHealth == [][\A c \in Callers : Passes(c) => UpAge < TTL]_vars

(***************************************************************************)
(* A request is refused only if the upstream really was down less than a   *)
(* cool-down ago: neither the cache nor the open state outlives that.      *)
(***************************************************************************)
RefusedOnRecentOutage == [][\A c \in Callers : IsRefused(c) => DownAge < Cooldown]_vars

(***************************************************************************)
(* An upstream that comes back for good is noticed: the breaker ends up    *)
(* closed with a healthy result and stays so.                              *)
(***************************************************************************)
RecoveryNoticed == <>[]up => <>[](breaker.state = "closed" /\ breaker.lastResult)

(***************************************************************************)
(* An upstream that goes down for good is noticed: the breaker leaves the  *)
(* closed state and never returns to it, so callers fail fast.             *)
(***************************************************************************)
OutageNoticed == <>[](~up) => <>[](breaker.state # "closed")

\* The inductive invariant: the types, the breaker's own coherence, and the age of
\* every result it and the suspended calls of getHealth hold.
IInv == TypeOK /\ Coherent /\ ResultAges

\* getHealth's answers, whatever calls overlap, rest on what the upstream really did
\* lately: passed within the TTL of health, refused within the cool-down of an outage.
AnswersAreRecent == PassedOnRecentHealth /\ RefusedOnRecentOutage

\* A lasting change of the upstream is noticed, whichever way it goes, although only
\* requests move the breaker (decideProbe).
ChangesNoticed == RecoveryNoticed /\ OutageNoticed
=============================================================================
