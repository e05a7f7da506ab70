---------------------------- MODULE BreakerProofs ----------------------------
(***************************************************************************)
(* Proofs about the circuit breaker, for every set of callers and all      *)
(* times and thresholds allowed by the assumptions of Breaker.             *)
(***************************************************************************)
EXTENDS Breaker, TLAPS

\* The inductive invariant is IInv of Breaker: ResultAges is what the timing
\* properties need, and it needs Coherent (a failure of a breaker that is not
\* closed re-opens it).

\* Growing older keeps an age an age, and keeps the order of ages.
LEMMA OlderProps ==
    ASSUME NEW x \in Age, NEW y \in Age
    PROVE  /\ Older(x) \in Age
           /\ x <= Older(x)
           /\ x <= y => Older(x) <= Older(y)
           /\ x <= y + Timeout => Older(x) <= Older(y) + Timeout
           /\ x < Timeout => Older(x) <= Timeout
BY TimesAssumption DEF Older, Age

\* applyProbeResult keeps a breaker a breaker, and closed means below the threshold.
LEMMA ApplyProps ==
    ASSUME NEW b \in Breakers, NEW healthy \in BOOLEAN, NEW age \in Age,
           (b.state = "closed") <=> (b.consecutiveFailures < Threshold),
           NEW r, r = applyProbeResult(b, healthy, age)
    PROVE  /\ r \in Breakers
           /\ (r.state = "closed") <=> (r.consecutiveFailures < Threshold)
           /\ r.state # "half-open"
           /\ r.probeAge = age
           /\ r.lastResult = healthy
           /\ healthy => r.state = "closed"
           /\ ~healthy /\ r.state = "open" => r.openAge = age
<1>1. CASE healthy
  BY <1>1, ThresholdAssumption DEF applyProbeResult, Recovered, Breakers, States
<1>2. CASE ~healthy
  <2>1. CountFailure(b) \in 0 .. Threshold
    BY ThresholdAssumption DEF CountFailure, Breakers
  <2>2. Trips(b) <=> b.state = "half-open" \/ CountFailure(b) = Threshold
    BY <2>1, ThresholdAssumption DEF Trips
  <2>3. ~Trips(b) => b.state = "closed"
    BY <2>2, ThresholdAssumption DEF CountFailure, Breakers
  <2>4. Trips(b) => CountFailure(b) = Threshold
    BY <2>2, ThresholdAssumption DEF CountFailure, Breakers
  <2>5. OpenedAge(b, age) \in Age /\ (Trips(b) => OpenedAge(b, age) = age)
    BY DEF OpenedAge, Breakers
  <2>6. r = Failed(b, age)
    BY <1>2 DEF applyProbeResult
  <2>7. /\ r.state = IF Trips(b) THEN "open" ELSE b.state
        /\ r.consecutiveFailures = CountFailure(b)
        /\ r.probeAge = age /\ r.openAge = OpenedAge(b, age) /\ r.lastResult = FALSE
    BY <2>6 DEF Failed
  <2>8. r \in Breakers
    <3>1. (IF Trips(b) THEN "open" ELSE b.state) \in States
      BY DEF Breakers, States
    <3> QED
      BY <2>1, <2>5, <2>6, <3>1 DEF Failed, Breakers
  <2>9. CASE Trips(b)
    <3>1. r.state = "open" /\ r.openAge = age
      BY <2>5, <2>7, <2>9
    <3>2. r.consecutiveFailures = Threshold
      BY <2>4, <2>7, <2>9
    <3>3. ~(Threshold < Threshold)
      BY ThresholdAssumption
    <3> QED
      BY <1>2, <2>7, <2>8, <3>1, <3>2, <3>3
  <2>10. CASE ~Trips(b)
    <3>1. CountFailure(b) < Threshold
      BY <2>1, <2>2, <2>10, ThresholdAssumption
    <3> QED
      BY <1>2, <2>3, <2>7, <2>10, <2>8, <3>1
  <2> QED
    BY <2>9, <2>10
<1> QED
  BY <1>1, <1>2

LEMMA InitIInv == Init => IInv
BY TimesAssumption, ThresholdAssumption
   DEF Init, IInv, TypeOK, Coherent, ResultAges, newBreaker, Idle, Returned, Breakers,
       Calls, States, Age, UpAge, DownAge

----------------------------------------------------------------------------
(* Every action preserves the invariant.                                   *)

\* Calls that end or begin anew leave every other call's probe alone.
LEMMA ReturnIInv ==
    ASSUME IInv, NEW c \in Callers, NEW phase \in {"idle", "passed", "refused"},
           call[c].phase # "probing",
           call' = [call EXCEPT ![c] = Returned(phase)],
           UNCHANGED <<breaker, up, flipAge, tripAge>>
    PROVE  IInv'
<1>1. Returned(phase) \in Calls /\ Returned(phase).phase # "probing"
  BY TimesAssumption DEF Returned, Calls, Age
<1>2. TypeOK'
  BY <1>1 DEF IInv, TypeOK
<1>3. Coherent'
  BY <1>1 DEF IInv, TypeOK, Coherent
<1>4. ResultAges'
  BY <1>1 DEF IInv, TypeOK, ResultAges, UpAge, DownAge
<1> QED
  BY <1>2, <1>3, <1>4 DEF IInv

LEMMA StartProbeIInv ==
    ASSUME IInv, NEW c \in Callers, StartProbe(c)
    PROVE  IInv'
<1> DEFINE started == [phase |-> "probing", age |-> 0, saw |-> "pending"]
<1>1. started \in Calls
  BY TimesAssumption DEF Calls, Age
<1>2. /\ breaker' \in Breakers
      /\ breaker'.consecutiveFailures = breaker.consecutiveFailures
      /\ breaker'.probeAge = breaker.probeAge
      /\ breaker'.openAge = breaker.openAge
      /\ breaker'.lastResult = breaker.lastResult
      /\ breaker'.state = "closed" <=> breaker.state = "closed"
  BY DEF StartProbe, ToProbe, IInv, TypeOK, Breakers, States
<1>3. TypeOK'
  BY <1>1, <1>2 DEF IInv, TypeOK, StartProbe
<1>4. Coherent'
  <2>1. call'[c].phase = "probing"
    BY DEF IInv, TypeOK, StartProbe
  <2> QED
    BY <1>2, <2>1 DEF IInv, Coherent
<1>5. ResultAges'
  <2>1. ASSUME NEW d \in Callers
        PROVE  call'[d] = IF d = c THEN started ELSE call[d]
    BY DEF IInv, TypeOK, StartProbe
  <2>2. started.age <= Timeout /\ started.saw = "pending"
    BY TimesAssumption
  <2> QED
    BY <1>2, <2>1, <2>2 DEF IInv, ResultAges, StartProbe, UpAge, DownAge
<1> QED
  BY <1>3, <1>4, <1>5 DEF IInv

LEMMA AnswerIInv ==
    ASSUME IInv, NEW c \in Callers, Answer(c)
    PROVE  IInv'
<1> DEFINE answered == [call[c] EXCEPT !.saw = IF up THEN "up" ELSE "down"]
<1>1. /\ answered \in Calls
      /\ answered.phase = call[c].phase
      /\ answered.age = call[c].age
      /\ answered.saw = IF up THEN "up" ELSE "down"
  BY DEF IInv, TypeOK, Calls
<1>2. ASSUME NEW d \in Callers
      PROVE  call'[d] = IF d = c THEN answered ELSE call[d]
  BY DEF IInv, TypeOK, Answer
<1>3. TypeOK'
  BY <1>1 DEF IInv, TypeOK, Answer
<1>4. Coherent'
  BY <1>1, <1>2 DEF IInv, Coherent, Answer
<1>5. ResultAges'
  <2>1. call[c].age \in Nat
    BY DEF IInv, TypeOK, Calls, Age
  <2>2. /\ answered.saw = "up" => UpAge <= answered.age
        /\ answered.saw = "down" => DownAge <= answered.age
    BY <1>1, <2>1 DEF UpAge, DownAge, IInv, TypeOK
  <2> QED
    BY <1>1, <1>2, <2>2 DEF IInv, ResultAges, Answer, UpAge, DownAge
<1> QED
  BY <1>3, <1>4, <1>5 DEF IInv

LEMMA DeliverIInv ==
    ASSUME IInv, NEW c \in Callers, Deliver(c)
    PROVE  IInv'
<1> DEFINE healthy == call[c].saw = "up"
           returned == Verdict(healthy)
<1>1. /\ call[c] \in Calls /\ call[c].age \in Age
      /\ breaker \in Breakers /\ healthy \in BOOLEAN
  BY DEF IInv, TypeOK, Calls
<1>2. /\ breaker' = applyProbeResult(breaker, healthy, call[c].age)
      /\ call' = [call EXCEPT ![c] = returned]
      /\ tripAge' = IF ~healthy /\ breaker'.state = "open" THEN 0 ELSE tripAge
      /\ UNCHANGED <<up, flipAge>>
  BY DEF Deliver
<1>3. /\ breaker' \in Breakers
      /\ (breaker'.state = "closed") <=> (breaker'.consecutiveFailures < Threshold)
      /\ breaker'.state # "half-open"
      /\ breaker'.probeAge = call[c].age
      /\ breaker'.lastResult = healthy
      /\ healthy => breaker'.state = "closed"
      /\ ~healthy /\ breaker'.state = "open" => breaker'.openAge = call[c].age
  <2>1. (breaker.state = "closed") <=> (breaker.consecutiveFailures < Threshold)
    BY DEF IInv, Coherent
  <2> HIDE DEF healthy
  <2> QED
    BY <1>1, <1>2, <2>1, ApplyProps
<1>4. returned \in Calls /\ returned.phase # "probing"
  BY TimesAssumption DEF Verdict, Returned, Calls, Age
<1>5. TypeOK'
  BY <1>2, <1>3, <1>4, TimesAssumption DEF IInv, TypeOK, Age
<1>6. Coherent'
  BY <1>3 DEF Coherent
<1>7. ResultAges'
  <2>1. ASSUME NEW d \in Callers
        PROVE  call'[d] = IF d = c THEN returned ELSE call[d]
    BY <1>2 DEF IInv, TypeOK
  <2>2. /\ call[c].age <= Timeout
        /\ healthy => UpAge <= call[c].age
        /\ ~healthy => DownAge <= call[c].age
    BY <1>1 DEF Deliver, IInv, ResultAges, Calls
  <2>3. UpAge' = UpAge /\ DownAge' = DownAge
    BY <1>2 DEF UpAge, DownAge
  <2>4. breaker'.state # "closed" => /\ DownAge <= breaker'.openAge
                                     /\ breaker'.openAge <= tripAge' + Timeout
    <3>1. SUFFICES ASSUME breaker'.state # "closed"
                   PROVE  /\ DownAge <= breaker'.openAge
                          /\ breaker'.openAge <= tripAge' + Timeout
      OBVIOUS
    <3>2. ~healthy /\ breaker'.state = "open"
      BY <1>3, <3>1 DEF Breakers, States
    <3>3. breaker'.openAge = call[c].age /\ tripAge' = 0
      BY <1>2, <1>3, <3>2
    <3> QED
      BY <1>1, <2>2, <3>2, <3>3, TimesAssumption DEF Age
  <2>5. \A d \in Callers : call'[d].phase = "probing" =>
          /\ call'[d].age <= Timeout
          /\ call'[d].saw = "up" => UpAge <= call'[d].age
          /\ call'[d].saw = "down" => DownAge <= call'[d].age
    BY <1>4, <2>1 DEF IInv, ResultAges
  <2> QED
    BY <1>3, <2>2, <2>3, <2>4, <2>5 DEF ResultAges
<1> QED
  BY <1>5, <1>6, <1>7 DEF IInv

LEMMA FlipIInv == IInv /\ Flip => IInv'
<1> SUFFICES ASSUME IInv, Flip PROVE IInv'
  OBVIOUS
<1>1. TypeOK'
  BY TimesAssumption DEF IInv, TypeOK, Flip, Age
<1>2. Coherent'
  BY DEF IInv, Coherent, Flip
<1>3. UpAge' = 0 /\ DownAge' = 0
  BY DEF IInv, TypeOK, Flip, UpAge, DownAge
<1>4. /\ breaker.probeAge \in Nat /\ breaker.openAge \in Nat
      /\ \A c \in Callers : call[c].age \in Nat
  BY DEF IInv, TypeOK, Breakers, Calls, Age
<1>5. ResultAges'
  BY <1>3, <1>4 DEF IInv, ResultAges, Flip
<1> QED
  BY <1>1, <1>2, <1>5 DEF IInv

LEMMA TickIInv == IInv /\ Tick => IInv'
<1> SUFFICES ASSUME IInv, Tick PROVE IInv'
  OBVIOUS
<1>1. /\ breaker \in Breakers /\ breaker.probeAge \in Age /\ breaker.openAge \in Age
      /\ flipAge \in Age /\ tripAge \in Age /\ up \in BOOLEAN
      /\ \A c \in Callers : call[c] \in Calls /\ call[c].age \in Age
  BY DEF IInv, TypeOK, Breakers, Calls
<1>2. /\ breaker' \in Breakers
      /\ breaker'.state = breaker.state
      /\ breaker'.consecutiveFailures = breaker.consecutiveFailures
      /\ breaker'.lastResult = breaker.lastResult
      /\ breaker'.probeAge = Older(breaker.probeAge)
      /\ breaker'.openAge = Older(breaker.openAge)
  BY <1>1, OlderProps DEF Tick, Breakers
<1>3. ASSUME NEW c \in Callers
      PROVE  /\ call'[c] \in Calls
             /\ call'[c].phase = call[c].phase
             /\ call'[c].saw = call[c].saw
             /\ call[c].phase = "probing" => call'[c].age = Older(call[c].age)
  BY <1>1, OlderProps DEF Tick, Calls
<1>4. up' = up /\ flipAge' = Older(flipAge) /\ tripAge' = Older(tripAge)
  BY DEF Tick
<1>5. TypeOK'
  <2>1. call' \in [Callers -> Calls]
    BY <1>3 DEF Tick
  <2> QED
    BY <1>1, <1>2, <1>4, <2>1, OlderProps DEF TypeOK
<1>6. Coherent'
  BY <1>2, <1>3 DEF IInv, Coherent
<1>7. ASSUME NEW x \in Age
      PROVE  /\ UpAge <= x => UpAge' <= Older(x)
             /\ DownAge <= x => DownAge' <= Older(x)
  <2>1. 0 <= Older(x) /\ (flipAge <= x => Older(flipAge) <= Older(x))
    BY <1>1, OlderProps DEF Age
  <2> QED
    BY <1>1, <1>4, <2>1 DEF UpAge, DownAge
<1>8. ResultAges'
  <2>1. \A c \in Callers : call'[c].phase = "probing" =>
          /\ call'[c].age <= Timeout
          /\ call'[c].saw = "up" => UpAge' <= call'[c].age
          /\ call'[c].saw = "down" => DownAge' <= call'[c].age
    <3>1. SUFFICES ASSUME NEW c \in Callers, call'[c].phase = "probing"
                   PROVE  /\ call'[c].age <= Timeout
                          /\ call'[c].saw = "up" => UpAge' <= call'[c].age
                          /\ call'[c].saw = "down" => DownAge' <= call'[c].age
      OBVIOUS
    <3>2. /\ call[c].phase = "probing" /\ call[c].age < Timeout
          /\ call'[c].age = Older(call[c].age) /\ call'[c].saw = call[c].saw
      BY <1>3, <3>1 DEF Tick
    <3>3. Older(call[c].age) <= Timeout
      BY <1>1, <3>2, OlderProps
    <3> QED
      BY <1>1, <1>7, <3>2, <3>3 DEF IInv, ResultAges
  <2>2. breaker'.lastResult => UpAge' <= breaker'.probeAge
    BY <1>1, <1>2, <1>7 DEF IInv, ResultAges
  <2>3. ~breaker'.lastResult => DownAge' <= breaker'.probeAge
    BY <1>1, <1>2, <1>7 DEF IInv, ResultAges
  <2>4. breaker'.state # "closed" => /\ DownAge' <= breaker'.openAge
                                     /\ breaker'.openAge <= tripAge' + Timeout
    BY <1>1, <1>2, <1>4, <1>7, OlderProps DEF IInv, ResultAges
  <2> QED
    BY <2>1, <2>2, <2>3, <2>4 DEF ResultAges
<1> QED
  BY <1>5, <1>6, <1>8 DEF IInv

LEMMA StutterIInv == IInv /\ UNCHANGED vars => IInv'
<1> SUFFICES ASSUME IInv, UNCHANGED vars PROVE IInv'
  OBVIOUS
<1>1. TypeOK'
  BY DEF IInv, TypeOK, vars
<1>2. Coherent'
  BY DEF IInv, Coherent, vars
<1>3. ResultAges'
  BY DEF IInv, ResultAges, vars, UpAge, DownAge
<1> QED
  BY <1>1, <1>2, <1>3 DEF IInv

LEMMA NextIInv == IInv /\ [Next]_vars => IInv'
<1> SUFFICES ASSUME IInv, [Next]_vars PROVE IInv'
  OBVIOUS
<1>1. ASSUME NEW c \in Callers, FailFast(c) PROVE IInv'
  BY <1>1, ReturnIInv DEF FailFast
<1>2. ASSUME NEW c \in Callers, ServeCached(c) PROVE IInv'
  <2>1. PICK phase \in {"passed", "refused"} : Verdict(breaker.lastResult) = Returned(phase)
    BY DEF Verdict
  <2> QED
    BY <1>2, <2>1, ReturnIInv DEF ServeCached
<1>3. ASSUME NEW c \in Callers, Leave(c) PROVE IInv'
  BY <1>3, ReturnIInv DEF Leave, Idle
<1> QED
  BY <1>1, <1>2, <1>3, StartProbeIInv, AnswerIInv, DeliverIInv, TickIInv, FlipIInv,
     StutterIInv DEF Next

----------------------------------------------------------------------------
\* The invariant holds of every behaviour, whatever calls overlap (getHealth).
THEOREM Invariance == Spec => []IInv
BY InitIInv, NextIInv, PTL DEF Spec

(***************************************************************************)
(* Every state is well typed (all of health.ts).                           *)
(***************************************************************************)
THEOREM TypeCorrect == Spec => []TypeOK
<1>1. IInv => TypeOK
  BY DEF IInv
<1> QED
  BY <1>1, Invariance, PTL

(***************************************************************************)
(* However many calls overlap, closed means fewer than FAILURE_THRESHOLD   *)
(* failures in a row and half-open means a trial is under way              *)
(* (decideProbe, applyProbeResult).                                        *)
(***************************************************************************)
THEOREM CoherentHolds == Spec => []Coherent
<1>1. IInv => Coherent
  BY DEF IInv
<1> QED
  BY <1>1, Invariance, PTL

(***************************************************************************)
(* Results never look fresher than they are (getHealth's `now`).           *)
(***************************************************************************)
THEOREM ResultAgesHold == Spec => []ResultAges
<1>1. IInv => ResultAges
  BY DEF IInv
<1> QED
  BY <1>1, Invariance, PTL

----------------------------------------------------------------------------
(* The action properties.                                                  *)

\* What one step does to the phase of one call.
LEMMA PhaseSteps ==
    ASSUME TypeOK, [Next]_vars, NEW d \in Callers, call'[d].phase # call[d].phase
    PROVE  \/ FailFast(d) /\ call'[d].phase = "refused"
           \/ ServeCached(d) /\ call'[d].phase = IF breaker.lastResult THEN "passed" ELSE "refused"
           \/ StartProbe(d) /\ call'[d].phase = "probing"
           \/ Deliver(d) /\ call'[d].phase = IF call[d].saw = "up" THEN "passed" ELSE "refused"
           \/ Leave(d) /\ call'[d].phase = "idle"
<1>1. ASSUME NEW c \in Callers, c # d, \E new : call' = [call EXCEPT ![c] = new]
      PROVE  FALSE
  BY <1>1 DEF TypeOK
<1>2. ASSUME NEW c \in Callers, FailFast(c)
      PROVE  /\ FailFast(d)
             /\ call'[d].phase = "refused"
  <2>1. c = d
    BY <1>1, <1>2 DEF FailFast
  <2> QED
    BY <1>2, <2>1 DEF TypeOK, FailFast, Returned
<1>3. ASSUME NEW c \in Callers, ServeCached(c)
      PROVE  /\ ServeCached(d)
             /\ call'[d].phase = IF breaker.lastResult THEN "passed" ELSE "refused"
  <2>1. c = d
    BY <1>1, <1>3 DEF ServeCached
  <2> QED
    BY <1>3, <2>1 DEF TypeOK, ServeCached, Returned, Verdict
<1>4. ASSUME NEW c \in Callers, StartProbe(c)
      PROVE  /\ StartProbe(d)
             /\ call'[d].phase = "probing"
  <2>1. c = d
    BY <1>1, <1>4 DEF StartProbe
  <2> QED
    BY <1>4, <2>1 DEF TypeOK, StartProbe
<1>5. ASSUME NEW c \in Callers, Deliver(c)
      PROVE  /\ Deliver(d)
             /\ call'[d].phase = IF call[d].saw = "up" THEN "passed" ELSE "refused"
  <2>1. c = d
    BY <1>1, <1>5 DEF Deliver
  <2> QED
    BY <1>5, <2>1 DEF TypeOK, Deliver, Returned, Verdict
<1>6. ASSUME NEW c \in Callers, Leave(c)
      PROVE  /\ Leave(d)
             /\ call'[d].phase = "idle"
  <2>1. c = d
    BY <1>1, <1>6 DEF Leave
  <2> QED
    BY <1>6, <2>1 DEF TypeOK, Leave, Idle, Returned
<1>7. ASSUME NEW c \in Callers, Answer(c) PROVE FALSE
  BY <1>7 DEF Answer, TypeOK, Calls
<1>8. ASSUME Tick PROVE FALSE
  BY <1>8 DEF Tick, TypeOK, Calls
<1>9. ASSUME Flip \/ UNCHANGED vars PROVE FALSE
  BY <1>9 DEF Flip, vars
<1> QED
  BY <1>2, <1>3, <1>4, <1>5, <1>6, <1>7, <1>8, <1>9 DEF Next

(***************************************************************************)
(* No probe starts from the open state until a cool-down, less one probe   *)
(* timeout, has passed since the last failed probe that opened it          *)
(* (decideProbe's fail-fast branch).                                       *)
(***************************************************************************)
THEOREM NoHammeringHolds == Spec => NoHammering
<1>1. ASSUME IInv, [Next]_vars, NEW c \in Callers, Starts(c), breaker.state = "open"
      PROVE  tripAge + Timeout >= Cooldown
  <2>1. StartProbe(c)
    BY <1>1, PhaseSteps DEF IInv, Starts
  <2>2. breaker.openAge >= Cooldown
    BY <1>1, <2>1, TimesAssumption DEF StartProbe, Cooling, IInv, TypeOK, Breakers, Age
  <2>3. breaker.openAge <= tripAge + Timeout
    BY <1>1 DEF IInv, ResultAges
  <2> QED
    BY <1>1, <2>2, <2>3, TimesAssumption DEF IInv, TypeOK, Breakers, Age
<1>2. IInv /\ [Next]_vars =>
        [\A c \in Callers : Starts(c) /\ breaker.state = "open" => tripAge + Timeout >= Cooldown]_vars
  BY <1>1
<1> QED
  BY <1>2, Invariance, PTL DEF Spec, NoHammering

(***************************************************************************)
(* A request passes the gate only if the upstream was up less than a TTL   *)
(* ago (getHealth's cached and probed answers).                            *)
(***************************************************************************)
THEOREM PassedOnRecentHealthHolds == Spec => PassedOnRecentHealth
<1>1. ASSUME IInv, [Next]_vars, NEW c \in Callers, Passes(c)
      PROVE  UpAge < TTL
  <2>1. UpAge \in Nat
    BY <1>1 DEF UpAge, IInv, TypeOK, Age
  <2>2. CASE ServeCached(c) /\ breaker.lastResult
    <3>1. breaker.probeAge < TTL /\ UpAge <= breaker.probeAge
      BY <1>1, <2>2 DEF ServeCached, Cached, IInv, ResultAges
    <3> QED
      BY <1>1, <2>1, <3>1, TimesAssumption DEF IInv, TypeOK, Breakers, Age
  <2>3. CASE Deliver(c) /\ call[c].saw = "up"
    <3>1. call[c].age <= Timeout /\ UpAge <= call[c].age
      BY <1>1, <2>3 DEF Deliver, IInv, ResultAges
    <3> QED
      BY <1>1, <2>1, <3>1, TimesAssumption DEF IInv, TypeOK, Calls, Age
  <2> QED
    BY <1>1, <2>2, <2>3, PhaseSteps DEF IInv, Passes
<1>2. IInv /\ [Next]_vars => [\A c \in Callers : Passes(c) => UpAge < TTL]_vars
  BY <1>1
<1> QED
  BY <1>2, Invariance, PTL DEF Spec, PassedOnRecentHealth

(***************************************************************************)
(* A request is refused only if the upstream was down less than a          *)
(* cool-down ago (getHealth's fail-fast, cached and probed answers).       *)
(***************************************************************************)
THEOREM RefusedOnRecentOutageHolds == Spec => RefusedOnRecentOutage
<1>1. ASSUME IInv, [Next]_vars, NEW c \in Callers, IsRefused(c)
      PROVE  DownAge < Cooldown
  <2>1. DownAge \in Nat
    BY <1>1 DEF DownAge, IInv, TypeOK, Age
  <2>2. CASE FailFast(c)
    <3>1. breaker.openAge < Cooldown /\ DownAge <= breaker.openAge
      BY <1>1, <2>2 DEF FailFast, Cooling, IInv, ResultAges
    <3> QED
      BY <1>1, <2>1, <3>1, TimesAssumption DEF IInv, TypeOK, Breakers, Age
  <2>3. CASE ServeCached(c) /\ ~breaker.lastResult
    <3>1. breaker.probeAge < TTL /\ DownAge <= breaker.probeAge
      BY <1>1, <2>3 DEF ServeCached, Cached, IInv, ResultAges
    <3> QED
      BY <1>1, <2>1, <3>1, TimesAssumption DEF IInv, TypeOK, Breakers, Age
  <2>4. CASE Deliver(c) /\ call[c].saw # "up"
    <3>1. call[c].age <= Timeout /\ DownAge <= call[c].age
      BY <1>1, <2>4 DEF Deliver, IInv, TypeOK, Calls, ResultAges
    <3> QED
      BY <1>1, <2>1, <3>1, TimesAssumption DEF IInv, TypeOK, Calls, Age
  <2> QED
    BY <1>1, <2>2, <2>3, <2>4, PhaseSteps DEF IInv, IsRefused
<1>2. IInv /\ [Next]_vars => [\A c \in Callers : IsRefused(c) => DownAge < Cooldown]_vars
  BY <1>1
<1> QED
  BY <1>2, Invariance, PTL DEF Spec, RefusedOnRecentOutage

\* Each answer of getHealth rests on recent health or a recent outage.
THEOREM AnswersAreRecentHolds == Spec => AnswersAreRecent
BY PassedOnRecentHealthHolds, RefusedOnRecentOutageHolds DEF AnswersAreRecent
=============================================================================
