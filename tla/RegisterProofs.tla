---------------------------- MODULE RegisterProofs ----------------------------
(***************************************************************************)
(* Proofs about what is looked up in the registers: the cached name list   *)
(* (NameDataset) and its validation (ListValidation), the loop of the edit *)
(* distance (EditDistance), the names compared with the list               *)
(* (NameMatching) and the lookup of a company (CompanyLookup), for every   *)
(* set of callers, sizes and times, every alphabet and length, and all     *)
(* lists and queries that the assumptions of these modules allow.          *)
(***************************************************************************)
EXTENDS NameDataset, ListValidation, EditDistance, NameMatching, CompanyLookup, FiniteSetTheorems,
        WellFoundedInduction, TLAPS

----------------------------------------------------------------------------
(* The cached name list.                                                   *)

\* The inductive invariant is IInv of NameDataset: what a waiting call may fall
\* back to (SharedRefresh) and when the last failure was (StampedFailures).

\* Growing older adds one to an age, up to Forever.
LEMMA OlderProps ==
    ASSUME NEW x \in Age
    PROVE  /\ Older(x) \in Age
           /\ x <= Older(x)
           /\ Older(x) <= x + 1
           /\ x < Forever => Older(x) = x + 1
           /\ Older(Forever) = Forever
BY TimesAssumption DEF Older, Age

LEMMA OlderListProps ==
    ASSUME NEW l \in Lists
    PROVE  /\ OlderList(l) \in Lists
           /\ OlderList(l).records = l.records
           /\ OlderList(l).age = Older(l.age)
BY OlderProps DEF OlderList, Lists

LEMMA ListTypes == NoList \in Lists /\ NoList.records = 0
BY TimesAssumption DEF NoList, Lists, Age

LEMMA CallTypes ==
    /\ Idle \in Calls /\ Idle.phase = "idle"
    /\ Refused \in Calls /\ Refused.phase = "refused"
    /\ \A l \in Lists : Served(l) \in Calls /\ Served(l).phase = "served" /\ Served(l).list = l
BY TimesAssumption, ListTypes DEF Idle, Refused, Served, Calls, Age

LEMMA InitIInv == Init => IInv
<1> SUFFICES ASSUME Init PROVE IInv
  OBVIOUS
<1>1. TypeOK
  BY TimesAssumption, ListTypes, CallTypes DEF Init, TypeOK, NoRefresh, Refreshes, Age
<1>2. SharedRefresh
  BY CallTypes DEF Init, SharedRefresh, NoRefresh, Waiting
<1>3. StampedFailures
  BY TimesAssumption DEF Init, StampedFailures, NoList
<1> QED
  BY <1>1, <1>2, <1>3 DEF IInv

----------------------------------------------------------------------------
(* Every action preserves the invariant.                                   *)

\* A call that does not wait, before or after, disturbs nothing.
LEMMA ReturnIInv ==
    ASSUME IInv, NEW c \in Callers, ~Waiting(c),
           call' \in [Callers -> Calls],
           \A d \in Callers : d # c => call'[d] = call[d],
           call'[c].phase # "waiting",
           UNCHANGED <<cache, failureAge, inflight, source, brokeAge>>
    PROVE  IInv'
<1>1. TypeOK'
  BY DEF IInv, TypeOK
<1>2. SharedRefresh'
  BY DEF IInv, SharedRefresh, Waiting
<1>3. StampedFailures'
  BY DEF IInv, StampedFailures
<1> QED
  BY <1>1, <1>2, <1>3 DEF IInv

LEMMA AwaitRefreshIInv ==
    ASSUME IInv, NEW c \in Callers, AwaitRefresh(c)
    PROVE  IInv'
<1> DEFINE waiting == [phase |-> "waiting", age |-> 0, list |-> Usable]
<1>1. cache \in Lists /\ inflight \in Refreshes /\ call \in [Callers -> Calls]
  BY DEF IInv, TypeOK
<1>2. Usable \in Lists /\ (Usable.records > 0 => Usable = cache /\ cache.age < MaxAge)
  BY <1>1, ListTypes DEF Usable, InDate
<1>3. waiting \in Calls
  BY <1>2, TimesAssumption DEF Calls, Age
<1>4. ASSUME NEW d \in Callers
      PROVE  call'[d] = IF d = c THEN waiting ELSE call[d]
  BY <1>1 DEF AwaitRefresh
<1>5. /\ inflight' \in Refreshes /\ inflight'.on = TRUE /\ inflight'.age \in Nat
      /\ inflight.on => inflight' = inflight
      /\ ~inflight.on => inflight'.age = 0
  BY <1>1, TimesAssumption DEF AwaitRefresh, Refreshes, Age
<1>6. TypeOK'
  BY <1>3, <1>5 DEF AwaitRefresh, IInv, TypeOK
<1>7. SharedRefresh'
  <2>1. inflight'.age <= FetchTimeout /\ inflight'.age <= cache'.age
    BY <1>1, <1>5, TimesAssumption DEF AwaitRefresh, IInv, SharedRefresh, Lists, Age
  <2>2. \E d \in Callers : Waiting(d)'
    BY <1>4 DEF Waiting
  <2>3. SUFFICES ASSUME NEW d \in Callers, Waiting(d)'
                 PROVE  /\ call'[d].age <= inflight'.age
                        /\ call'[d].list.records > 0 =>
                              /\ call'[d].list = cache'
                              /\ call'[d].list.age < MaxAge + call'[d].age
                        /\ call'[d].list.records = 0 => ~(cache'.records > 0 /\ cache'.age < MaxAge)
    BY <1>5, <2>1, <2>2 DEF SharedRefresh
  <2>4. CASE d = c
    <3>1. call'[d].list = Usable /\ call'[d].age = 0 /\ cache' = cache
      BY <1>4, <2>4 DEF AwaitRefresh
    <3>2. Usable.records = 0 => ~(cache.records > 0 /\ cache.age < MaxAge)
      BY <1>1, SizesAssumption DEF Usable, InDate, Lists
    <3> QED
      BY <1>1, <1>2, <1>5, <3>1, <3>2, TimesAssumption DEF Lists, Age
  <2>5. CASE d # c
    BY <1>4, <1>5, <2>3, <2>5 DEF AwaitRefresh, IInv, SharedRefresh, Waiting
  <2> QED
    BY <2>4, <2>5
<1>8. StampedFailures'
  BY DEF AwaitRefresh, IInv, StampedFailures
<1> QED
  BY <1>6, <1>7, <1>8 DEF IInv

LEMMA RefreshSucceedsIInv ==
    ASSUME IInv, RefreshSucceeds
    PROVE  IInv'
<1>1. cache' \in Lists /\ cache'.age = inflight.age /\ inflight.age \in Age
  BY DEF RefreshSucceeds, Fetched, IInv, TypeOK, Lists, Refreshes
<1>2. ASSUME NEW c \in Callers
      PROVE  call'[c] \in Calls /\ ~Waiting(c)'
  BY <1>1, CallTypes DEF RefreshSucceeds, IInv, TypeOK, Waiting
<1>3. inflight' \in Refreshes /\ inflight'.on = FALSE
  BY TimesAssumption DEF RefreshSucceeds, NoRefresh, Refreshes, Age
<1>4. TypeOK'
  <2>1. call' \in [Callers -> Calls]
    BY <1>2 DEF RefreshSucceeds
  <2>2. failureAge' \in Age
    BY TimesAssumption DEF RefreshSucceeds, Age
  <2> QED
    BY <1>1, <1>3, <2>1, <2>2 DEF RefreshSucceeds, IInv, TypeOK
<1>5. SharedRefresh'
  BY <1>2, <1>3 DEF SharedRefresh
<1>6. StampedFailures'
  BY <1>1, TimesAssumption DEF RefreshSucceeds, IInv, TypeOK, SharedRefresh, StampedFailures, Age
<1> QED
  BY <1>4, <1>5, <1>6 DEF IInv

LEMMA RefreshFailsIInv ==
    ASSUME IInv, RefreshFails
    PROVE  IInv'
<1>1. PICK last \in Callers : JoinedLast(last) /\ failureAge' = call[last].age
  BY DEF RefreshFails, FailureStamp
<1>2. /\ failureAge' \in Age /\ failureAge' <= FetchTimeout
  BY <1>1, TimesAssumption
     DEF RefreshFails, JoinedLast, IInv, TypeOK, Calls, Refreshes, SharedRefresh, Age
<1>3. ASSUME NEW c \in Callers
      PROVE  call'[c] \in Calls /\ ~Waiting(c)'
  BY CallTypes DEF RefreshFails, Fallback, IInv, TypeOK, Calls, Waiting
<1>4. inflight' \in Refreshes /\ inflight'.on = FALSE
  BY TimesAssumption DEF RefreshFails, Cleared, NoRefresh, Refreshes, Age
<1>5. TypeOK'
  <2>1. call' \in [Callers -> Calls]
    BY <1>3 DEF RefreshFails
  <2>2. brokeAge' \in Age
    BY TimesAssumption DEF RefreshFails, Age
  <2> QED
    BY <1>2, <1>4, <2>1, <2>2 DEF RefreshFails, IInv, TypeOK
<1>6. SharedRefresh'
  BY <1>3, <1>4 DEF SharedRefresh
<1>7. StampedFailures'
  BY <1>2, TimesAssumption DEF RefreshFails, StampedFailures, Age
<1> QED
  BY <1>5, <1>6, <1>7 DEF IInv

LEMMA PublishIInv ==
    ASSUME IInv, Publish
    PROVE  IInv'
<1>1. TypeOK'
  BY DEF Publish, IInv, TypeOK
<1>2. SharedRefresh'
  BY DEF Publish, IInv, SharedRefresh, Waiting
<1>3. StampedFailures'
  BY DEF Publish, IInv, StampedFailures
<1> QED
  BY <1>1, <1>2, <1>3 DEF IInv

LEMMA StutterIInv ==
    ASSUME IInv, UNCHANGED vars
    PROVE  IInv'
<1>1. TypeOK'
  BY DEF vars, IInv, TypeOK
<1>2. SharedRefresh'
  BY DEF vars, IInv, SharedRefresh, Waiting
<1>3. StampedFailures'
  BY DEF vars, IInv, StampedFailures
<1> QED
  BY <1>1, <1>2, <1>3 DEF IInv

LEMMA TickIInv ==
    ASSUME IInv, Tick
    PROVE  IInv'
<1>1. /\ cache \in Lists /\ cache.age \in Age /\ failureAge \in Age /\ brokeAge \in Age
      /\ inflight \in Refreshes /\ inflight.age \in Age /\ source \in Sizes \union {0}
      /\ inflight.on \in BOOLEAN
      /\ \A c \in Callers : call[c] \in Calls /\ call[c].age \in Age /\ call[c].list \in Lists
  BY DEF IInv, TypeOK, Lists, Refreshes, Calls
<1>2. /\ cache' \in Lists /\ cache'.records = cache.records
      /\ cache'.age = Older(cache.age) /\ cache' = OlderList(cache)
  BY <1>1, OlderListProps DEF Tick
<1>3. /\ inflight' \in Refreshes /\ inflight'.on = inflight.on
      /\ inflight.on => inflight'.age = Older(inflight.age)
  BY <1>1, OlderProps DEF Tick, Refreshes
<1>4. ASSUME NEW c \in Callers
      PROVE  /\ call'[c] \in Calls
             /\ Waiting(c)' <=> Waiting(c)
             /\ Waiting(c) => /\ call'[c].age = Older(call[c].age)
                              /\ call'[c].list = OlderList(call[c].list)
  <2>1. call'[c] = IF Waiting(c)
                   THEN [call[c] EXCEPT !.age = Older(call[c].age),
                                        !.list = OlderList(call[c].list)]
                   ELSE call[c]
    BY DEF Tick
  <2>2. Older(call[c].age) \in Age /\ OlderList(call[c].list) \in Lists
    BY <1>1, OlderProps, OlderListProps
  <2> QED
    BY <1>1, <2>1, <2>2 DEF Calls, Waiting
<1>5. TypeOK'
  <2>1. call' \in [Callers -> Calls]
    BY <1>4 DEF Tick
  <2> QED
    BY <1>1, <1>2, <1>3, <2>1, OlderProps DEF Tick, TypeOK
<1>6. SharedRefresh'
  <2>1. inflight'.on <=> \E c \in Callers : Waiting(c)'
    BY <1>3, <1>4 DEF IInv, SharedRefresh
  <2>2. inflight'.on => inflight'.age <= FetchTimeout /\ inflight'.age <= cache'.age
    <3>1. SUFFICES ASSUME inflight.on
                   PROVE  Older(inflight.age) <= FetchTimeout
                          /\ Older(inflight.age) <= Older(cache.age)
      BY <1>2, <1>3
    <3>2. inflight.age < FetchTimeout /\ inflight.age <= cache.age
      BY <3>1 DEF Tick, IInv, SharedRefresh
    <3> QED
      BY <1>1, <3>2, TimesAssumption DEF Older, Age
  <2>3. SUFFICES ASSUME NEW c \in Callers, Waiting(c)
                 PROVE  /\ call'[c].age <= inflight'.age
                        /\ call'[c].list.records > 0 =>
                              /\ call'[c].list = cache'
                              /\ call'[c].list.age < MaxAge + call'[c].age
                        /\ call'[c].list.records = 0 => ~(cache'.records > 0 /\ cache'.age < MaxAge)
    BY <1>4, <2>1, <2>2 DEF SharedRefresh
  <2>4. /\ inflight.on /\ inflight.age < FetchTimeout
        /\ call[c].age <= inflight.age
        /\ call[c].list.records > 0 => /\ call[c].list = cache
                                       /\ call[c].list.age < MaxAge + call[c].age
        /\ call[c].list.records = 0 => ~(cache.records > 0 /\ cache.age < MaxAge)
    BY <2>3 DEF Tick, IInv, SharedRefresh
  <2>5. /\ call'[c].age = Older(call[c].age) /\ call'[c].list = OlderList(call[c].list)
        /\ call'[c].list.records = call[c].list.records
        /\ call'[c].list.age = Older(call[c].list.age)
    BY <1>1, <1>4, <2>3, OlderListProps
  <2>6. call'[c].age <= inflight'.age
    BY <1>1, <1>3, <2>4, <2>5, TimesAssumption DEF Older, Age
  <2>7. ASSUME call[c].list.records > 0
        PROVE  call'[c].list = cache' /\ call'[c].list.age < MaxAge + call'[c].age
    <3>1. call'[c].list = cache'
      BY <1>2, <2>4, <2>5, <2>7
    <3>2. call[c].list.age \in Age
      BY <1>1 DEF Lists
    <3>3. call[c].age < Forever /\ call[c].list.age < MaxAge + call[c].age
      BY <1>1, <2>4, <2>7, TimesAssumption DEF Age
    <3>4. Older(call[c].age) = call[c].age + 1 /\ Older(call[c].list.age) <= call[c].list.age + 1
      BY <1>1, <3>2, <3>3, OlderProps
    <3> QED
      BY <1>1, <2>5, <3>1, <3>2, <3>3, <3>4, TimesAssumption, OlderProps DEF Age
  <2>8. cache'.age < MaxAge => cache.age < MaxAge
    BY <1>1, <1>2, TimesAssumption DEF Older, Age
  <2> QED
    BY <1>2, <2>4, <2>5, <2>6, <2>7, <2>8
<1>7. StampedFailures'
  <2>1. /\ failureAge' = Older(failureAge) /\ cache'.age = Older(cache.age)
        /\ brokeAge' = Older(brokeAge)
    BY <1>2 DEF Tick
  <2>2. CASE failureAge < Forever
    <3>1. failureAge <= brokeAge + FetchTimeout
      BY <2>2 DEF IInv, StampedFailures
    <3>2. Older(failureAge) <= Older(brokeAge) + FetchTimeout
      BY <1>1, <2>2, <3>1, TimesAssumption DEF Older, Age
    <3>3. Older(failureAge) = Forever => Older(cache.age) <= Older(failureAge)
      BY <1>1, TimesAssumption DEF Older, Age
    <3>4. Older(failureAge) < Forever \/ Older(failureAge) = Forever
      BY <1>1, TimesAssumption DEF Older, Age
    <3> QED
      BY <1>1, <2>1, <3>2, <3>3, <3>4, TimesAssumption, OlderProps DEF StampedFailures, Age
  <2>3. CASE ~(failureAge < Forever)
    <3>1. cache.age <= brokeAge + FetchTimeout
      BY <2>3 DEF IInv, StampedFailures
    <3>2. Older(cache.age) <= Older(brokeAge) + FetchTimeout
      BY <1>1, <3>1, TimesAssumption DEF Older, Age
    <3>3. ~(Older(failureAge) < Forever)
      BY <1>1, <2>3, TimesAssumption DEF Older, Age
    <3> QED
      BY <2>1, <3>2, <3>3 DEF StampedFailures
  <2> QED
    BY <2>2, <2>3
<1> QED
  BY <1>5, <1>6, <1>7 DEF IInv

LEMMA NextIInv == IInv /\ [Next]_vars => IInv'
<1> SUFFICES ASSUME IInv, [Next]_vars PROVE IInv'
  OBVIOUS
<1>1. cache \in Lists /\ call \in [Callers -> Calls]
  BY DEF IInv, TypeOK
<1>2. ASSUME NEW c \in Callers, ServeCached(c) PROVE IInv'
  <2>1. call' \in [Callers -> Calls] /\ call'[c].phase = "served"
    BY <1>1, <1>2, CallTypes DEF ServeCached
  <2> QED
    BY <1>1, <1>2, <2>1, ReturnIInv DEF ServeCached, Waiting
<1>3. ASSUME NEW c \in Callers, Leave(c) PROVE IInv'
  <2>1. call' \in [Callers -> Calls] /\ call'[c].phase = "idle"
    BY <1>1, <1>3, CallTypes DEF Leave
  <2> QED
    BY <1>1, <1>3, <2>1, ReturnIInv DEF Leave, Waiting
<1> QED
  BY <1>2, <1>3, AwaitRefreshIInv, RefreshSucceedsIInv, RefreshFailsIInv, TickIInv,
     PublishIInv, StutterIInv DEF Next

----------------------------------------------------------------------------
\* The invariant holds of every behaviour, whatever calls share a refresh (loadSdnIndex).
THEOREM Invariance == Spec => []IInv
BY InitIInv, NextIInv, PTL DEF Spec

(***************************************************************************)
(* Every state is well typed (loadSdnIndex, refresh).                      *)
(***************************************************************************)
THEOREM TypeCorrect == Spec => []TypeOK
<1>1. IInv => TypeOK
  BY DEF IInv
<1> QED
  BY <1>1, Invariance, PTL

(***************************************************************************)
(* There is one refresh exactly while calls wait, and a list a waiting     *)
(* call would fall back to is the cached one (`inflight ??=`).             *)
(***************************************************************************)
THEOREM SharedRefreshHolds == Spec => []SharedRefresh
<1>1. IInv => SharedRefresh
  BY DEF IInv
<1> QED
  BY <1>1, Invariance, PTL

(***************************************************************************)
(* The stamp of a failure is at most one download older than the failure.  *)
(***************************************************************************)
THEOREM StampedFailuresHold == Spec => []StampedFailures
<1>1. IInv => StampedFailures
  BY DEF IInv
<1> QED
  BY <1>1, Invariance, PTL

----------------------------------------------------------------------------
(* The action properties.                                                  *)

\* What one step does to the phase of one call.
LEMMA PhaseSteps ==
    ASSUME TypeOK, [Next]_vars, NEW d \in Callers, call'[d].phase # call[d].phase
    PROVE  \/ ServeCached(d) /\ call'[d] = Served(cache)
           \/ AwaitRefresh(d) /\ call'[d].phase = "waiting"
           \/ RefreshSucceeds /\ Waiting(d) /\ call'[d] = Served(Fetched)
           \/ RefreshFails /\ Waiting(d) /\ call'[d] = Fallback(d)
           \/ Leave(d) /\ call'[d].phase = "idle"
<1>1. call \in [Callers -> Calls]
  BY DEF TypeOK
<1>2. ASSUME NEW c \in Callers, ServeCached(c)
      PROVE  ServeCached(d) /\ call'[d] = Served(cache)
  BY <1>1, <1>2 DEF ServeCached
<1>3. ASSUME NEW c \in Callers, AwaitRefresh(c)
      PROVE  AwaitRefresh(d) /\ call'[d].phase = "waiting"
  BY <1>1, <1>3 DEF AwaitRefresh
<1>4. ASSUME NEW c \in Callers, Leave(c)
      PROVE  Leave(d) /\ call'[d].phase = "idle"
  BY <1>1, <1>4, CallTypes DEF Leave
<1>5. ASSUME RefreshSucceeds
      PROVE  Waiting(d) /\ call'[d] = Served(Fetched)
  BY <1>5 DEF RefreshSucceeds
<1>6. ASSUME RefreshFails
      PROVE  Waiting(d) /\ call'[d] = Fallback(d)
  BY <1>6 DEF RefreshFails
<1>7. ASSUME Tick PROVE FALSE
  BY <1>7 DEF Tick, TypeOK, Calls
<1>8. ASSUME Publish \/ UNCHANGED vars PROVE FALSE
  BY <1>8 DEF Publish, vars
<1> QED
  BY <1>2, <1>3, <1>4, <1>5, <1>6, <1>7, <1>8 DEF Next

(***************************************************************************)
(* A served list is not empty, was in date when its call judged it, and is *)
(* past its bound by no more than the wait for one download (loadSdnIndex  *)
(* judges `usable` before `await inflight`).                               *)
(***************************************************************************)
THEOREM ServedInDateHolds == Spec => ServedInDate
<1>1. ASSUME IInv, [Next]_vars, NEW c \in Callers, GetsServed(c)
      PROVE  /\ call'[c].list.records > 0
             /\ call'[c].list.age < MaxAge + call[c].age
             /\ call'[c].list.age < MaxAge + FetchTimeout
  <2>1. /\ cache \in Lists /\ cache.age \in Age /\ inflight.age \in Age
        /\ source \in Sizes \union {0} /\ call[c] \in Calls
    BY <1>1 DEF IInv, TypeOK, Lists, Refreshes
  <2>2. CASE ServeCached(c) /\ call'[c] = Served(cache)
    <3>1. cache.records > 0 /\ cache.age < MaxAge
      BY <2>2 DEF ServeCached, NoNeedToRefresh, InDate
    <3>2. call[c].age \in Nat
      BY <2>1, TimesAssumption DEF Calls, Age
    <3> QED
      BY <2>1, <2>2, <3>1, <3>2, CallTypes, TimesAssumption DEF Age
  <2>3. CASE RefreshSucceeds /\ Waiting(c) /\ call'[c] = Served(Fetched)
    <3>1. inflight.age <= FetchTimeout /\ source > 0
      BY <1>1, <2>3 DEF RefreshSucceeds, Accepts, IInv, SharedRefresh
    <3>2. Fetched \in Lists /\ Fetched.records = source /\ Fetched.age = inflight.age
      BY <2>1 DEF Fetched, Lists
    <3>3. FetchTimeout < MaxAge /\ call[c].age \in Nat
      BY <2>1, TimesAssumption DEF Calls, Age
    <3> QED
      BY <2>1, <2>3, <3>1, <3>2, <3>3, CallTypes, TimesAssumption DEF Age
  <2>4. CASE RefreshFails /\ Waiting(c) /\ call'[c] = Fallback(c)
    <3>1. call[c].list \in Lists /\ call[c].age \in Age
      BY <2>1 DEF Calls
    <3>2. call[c].list.records > 0 /\ call'[c].list = call[c].list
      BY <1>1, <2>4, <3>1, CallTypes DEF Fallback, GetsServed
    <3>3. /\ call[c].list.age < MaxAge + call[c].age
          /\ call[c].age <= inflight.age /\ inflight.age <= FetchTimeout
      BY <1>1, <2>4, <3>2 DEF RefreshFails, IInv, SharedRefresh
    <3> QED
      BY <2>1, <3>1, <3>2, <3>3, TimesAssumption DEF Lists, Age
  <2> QED
    BY <1>1, <2>2, <2>3, <2>4, PhaseSteps DEF IInv, GetsServed
<1>2. IInv /\ [Next]_vars =>
        [\A c \in Callers : GetsServed(c) =>
           /\ call'[c].list.records > 0
           /\ call'[c].list.age < MaxAge + call[c].age
           /\ call'[c].list.age < MaxAge + FetchTimeout]_vars
  BY <1>1
<1> QED
  BY <1>2, Invariance, PTL DEF Spec, ServedInDate

(***************************************************************************)
(* While a list can be served, a failed refresh is followed by a pause     *)
(* (loadSdnIndex's REFRESH_RETRY_MS).                                      *)
(***************************************************************************)
THEOREM PausesAfterFailureHolds == Spec => PausesAfterFailure
<1>1. ASSUME IInv, [Next]_vars, ~inflight.on, inflight'.on, InDate(cache)
      PROVE  brokeAge + FetchTimeout >= RetryAfter
  <2>1. \E c \in Callers : AwaitRefresh(c)
    BY <1>1 DEF Next, ServeCached, RefreshSucceeds, RefreshFails, Leave, Tick, Publish, vars
  <2>2. cache.age >= RefreshAfter /\ failureAge >= RetryAfter
    BY <1>1, <2>1, TimesAssumption DEF AwaitRefresh, NoNeedToRefresh, IInv, TypeOK, Lists, Age
  <2> QED
    BY <1>1, <2>2, TimesAssumption DEF IInv, TypeOK, StampedFailures, Lists, Age
<1>2. IInv /\ [Next]_vars =>
        [~inflight.on /\ inflight'.on /\ InDate(cache)
           => brokeAge + FetchTimeout >= RetryAfter]_vars
  BY <1>1
<1> QED
  BY <1>2, Invariance, PTL DEF Spec, PausesAfterFailure

(***************************************************************************)
(* A failed refresh never refuses a call while the list is in date         *)
(* (`if (usable) return usable`).                                          *)
(***************************************************************************)
THEOREM RefusedOnlyWhenExpiredHolds == Spec => RefusedOnlyWhenExpired
<1>1. ASSUME IInv, [Next]_vars, NEW c \in Callers, GetsRefused(c)
      PROVE  ~(cache.records > 0 /\ cache.age < MaxAge)
  <2>1. /\ cache \in Lists /\ source \in Sizes \union {0} /\ inflight.age \in Age
        /\ call[c] \in Calls /\ call[c].list \in Lists
    BY <1>1 DEF IInv, TypeOK, Refreshes, Calls
  <2>2. Fetched \in Lists
    BY <2>1 DEF Fetched, Lists
  <2>3. RefreshFails /\ Waiting(c) /\ call'[c] = Fallback(c)
    BY <1>1, <2>1, <2>2, PhaseSteps, CallTypes DEF IInv, GetsRefused
  <2>4. ~(call[c].list.records > 0)
    BY <1>1, <2>1, <2>3, CallTypes DEF Fallback, GetsRefused
  <2>5. call[c].list.records = 0
    <3>1. call[c].list.records \in Sizes \union {0}
      BY <2>1 DEF Lists
    <3>2. \A n \in Sizes \union {0} : n \in Nat
      BY SizesAssumption
    <3> QED
      BY <2>4, <3>1, <3>2
  <2> QED
    BY <1>1, <2>3, <2>5 DEF IInv, SharedRefresh
<1>2. IInv /\ [Next]_vars =>
        [\A c \in Callers : GetsRefused(c) => ~(cache.records > 0 /\ cache.age < MaxAge)]_vars
  BY <1>1
<1> QED
  BY <1>2, Invariance, PTL DEF Spec, RefusedOnlyWhenExpired

(***************************************************************************)
(* The cached list is only replaced by a later one that is not implausibly *)
(* shorter (refresh's check against `previous`).                           *)
(***************************************************************************)
THEOREM OnlyImprovesHolds == Spec => OnlyImproves
<1>1. ASSUME IInv, [Next]_vars, cache' \notin {cache, OlderList(cache)}
      PROVE  /\ 10 * cache'.records >= 9 * cache.records
             /\ cache'.age <= inflight.age /\ inflight.age <= cache.age
  <2>1. RefreshSucceeds
    BY <1>1 DEF Next, ServeCached, AwaitRefresh, RefreshFails, Leave, Tick, Publish, vars
  <2>2. /\ cache'.records = source /\ cache'.age = inflight.age
        /\ Plausible(cache.records, source)
    BY <2>1 DEF RefreshSucceeds, Fetched, Accepts
  <2>3. inflight.age <= cache.age /\ inflight.age \in Nat
    BY <1>1, <2>1 DEF RefreshSucceeds, IInv, TypeOK, SharedRefresh, Refreshes, Age
  <2> QED
    BY <2>2, <2>3 DEF Plausible
<1>2. IInv /\ [Next]_vars =>
        [cache' \notin {cache, OlderList(cache)} =>
           /\ 10 * cache'.records >= 9 * cache.records
           /\ cache'.age <= inflight.age /\ inflight.age <= cache.age]_vars
  BY <1>1
<1> QED
  BY <1>2, Invariance, PTL DEF Spec, OnlyImproves

\* What is served was in date before the call waited, and is past its bound by one
\* download at most; what is refused is out of date (loadSdnIndex).
THEOREM ListInDateHolds == Spec => ListInDate
BY ServedInDateHolds, RefusedOnlyWhenExpiredHolds DEF ListInDate

\* Every refresh leaves a better list or a pause behind (refresh).
THEOREM RefreshDisciplineHolds == Spec => RefreshDiscipline
BY OnlyImprovesHolds, PausesAfterFailureHolds DEF RefreshDiscipline

----------------------------------------------------------------------------
(* Least numbers.                                                          *)

\* A set of natural numbers has a least one: induction without a predicate.
LEMMA LeastNatural ==
    ASSUME NEW T \in SUBSET Nat, T # {}
    PROVE  \E x \in T : \A y \in T : x <= y
<1> DEFINE R == {p \in Nat \X Nat : p[1] < p[2]}
<1>1. OpToRel(<, Nat) = R
  BY DEF OpToRel
<1>2. PICK x \in T : \A y \in T : ~(<<y, x>> \in R)
  BY <1>1, NatLessThanWellFounded, WFMin
<1>3. ASSUME NEW y \in T PROVE x <= y
  <2>1. x \in Nat /\ y \in Nat /\ ~(<<y, x>> \in R)
    BY <1>2
  <2>2. ~(y < x)
    BY <2>1
  <2> QED
    BY <2>1, <2>2
<1> QED
  BY <1>3

----------------------------------------------------------------------------
(* Alignments.                                                             *)

\* What an alignment of the first m and n characters costs.
CostTo(x, y, m, n, s) == m + n - 2 * Cardinality(s) + Cardinality({p \in s : x[p[1]] # y[p[2]]})

LEMMA AlignmentProps ==
    ASSUME NEW m \in Nat, NEW n \in Nat, NEW s \in Alignments(m, n)
    PROVE  /\ IsFiniteSet(s) /\ Cardinality(s) \in Nat
           /\ Cardinality(s) <= m /\ Cardinality(s) <= n
           /\ \A p \in s : p \in (1 .. m) \X (1 .. n) /\ p = <<p[1], p[2]>>
           /\ \A p, q \in s : p # q => (p[1] < q[1] /\ p[2] < q[2]) \/ (q[1] < p[1] /\ q[2] < p[2])
<1>1. /\ s \in SUBSET ((1 .. m) \X (1 .. n))
      /\ \A p, q \in s : p # q => (p[1] < q[1] /\ p[2] < q[2]) \/ (q[1] < p[1] /\ q[2] < p[2])
  BY DEF Alignments
<1>2. /\ IsFiniteSet(1 .. m) /\ IsFiniteSet(1 .. n)
      /\ Cardinality(1 .. m) = m /\ Cardinality(1 .. n) = n
  BY FS_Interval
<1>3. IsFiniteSet(s)
  BY <1>1, <1>2, FS_Product, FS_Subset
<1>4. [p \in s |-> p[1]] \in Injection(s, 1 .. m)
  BY <1>1 DEF Injection, IsInjective
<1>5. [p \in s |-> p[2]] \in Injection(s, 1 .. n)
  BY <1>1 DEF Injection, IsInjective
<1>6. Cardinality(s) <= m
  BY <1>2, <1>3, <1>4, FS_Injection
<1>7. Cardinality(s) <= n
  BY <1>2, <1>3, <1>5, FS_Injection
<1> QED
  BY <1>1, <1>3, <1>6, <1>7, FS_CardinalityType

\* The cost of an alignment is a number, and none when nothing is aligned but lengths.
LEMMA CostProps ==
    ASSUME NEW x, NEW y, NEW m \in Nat, NEW n \in Nat, NEW s \in Alignments(m, n)
    PROVE  CostTo(x, y, m, n, s) \in Nat
<1> DEFINE mis == {p \in s : x[p[1]] # y[p[2]]}
<1>1. Cardinality(mis) \in Nat
  BY AlignmentProps, FS_Subset, FS_CardinalityType
<1>2. Cardinality(s) \in Nat /\ Cardinality(s) <= m /\ Cardinality(s) <= n
  BY AlignmentProps
<1> QED
  BY <1>1, <1>2 DEF CostTo

\* An alignment that pairs the last characters pairs them with each other; one that does
\* not leaves one of them out.
LEMMA Shorter ==
    ASSUME NEW m \in Nat \ {0}, NEW n \in Nat \ {0}, NEW s \in Alignments(m, n)
    PROVE  \/ s \in Alignments(m - 1, n)
           \/ s \in Alignments(m, n - 1)
           \/ <<m, n>> \in s /\ s \ {<<m, n>>} \in Alignments(m - 1, n - 1)
<1>1. /\ \A p \in s : p \in (1 .. m) \X (1 .. n)
      /\ \A p, q \in s : p # q => (p[1] < q[1] /\ p[2] < q[2]) \/ (q[1] < p[1] /\ q[2] < p[2])
  BY AlignmentProps
<1>2. CASE \A p \in s : p[1] # m
  <2>1. s \in SUBSET ((1 .. m - 1) \X (1 .. n))
    BY <1>1, <1>2
  <2> QED
    BY <1>1, <2>1 DEF Alignments
<1>3. CASE \A p \in s : p[2] # n
  <2>1. s \in SUBSET ((1 .. m) \X (1 .. n - 1))
    BY <1>1, <1>3
  <2> QED
    BY <1>1, <2>1 DEF Alignments
<1>4. ASSUME NEW p \in s, NEW q \in s, p[1] = m, q[2] = n
      PROVE  <<m, n>> \in s /\ s \ {<<m, n>>} \in Alignments(m - 1, n - 1)
  <2>1. p = q
    BY <1>1, <1>4
  <2>2. p = <<m, n>>
    BY <1>1, <1>4, <2>1
  <2>3. \A r \in s : r # p => r[1] \in 1 .. m - 1 /\ r[2] \in 1 .. n - 1
    BY <1>1, <1>4, <2>2
  <2>4. s \ {p} \in SUBSET ((1 .. m - 1) \X (1 .. n - 1))
    BY <1>1, <2>3
  <2> QED
    BY <1>1, <1>4, <2>2, <2>4 DEF Alignments
<1> QED
  BY <1>2, <1>3, <1>4

LEMMA Longer ==
    ASSUME NEW m \in Nat \ {0}, NEW n \in Nat \ {0}
    PROVE  /\ Alignments(m - 1, n) \subseteq Alignments(m, n)
           /\ Alignments(m, n - 1) \subseteq Alignments(m, n)
           /\ \A s \in Alignments(m - 1, n - 1) :
                  <<m, n>> \notin s /\ s \union {<<m, n>>} \in Alignments(m, n)
<1>1. /\ (1 .. m - 1) \X (1 .. n) \subseteq (1 .. m) \X (1 .. n)
      /\ (1 .. m) \X (1 .. n - 1) \subseteq (1 .. m) \X (1 .. n)
  OBVIOUS
<1>2. ASSUME NEW s \in Alignments(m - 1, n - 1)
      PROVE  <<m, n>> \notin s /\ s \union {<<m, n>>} \in Alignments(m, n)
  <2>1. /\ s \in SUBSET ((1 .. m - 1) \X (1 .. n - 1))
        /\ \A p, q \in s : p # q => (p[1] < q[1] /\ p[2] < q[2]) \/ (q[1] < p[1] /\ q[2] < p[2])
    BY DEF Alignments
  <2>2. \A p \in s : p \in (1 .. m) \X (1 .. n) /\ p[1] < m /\ p[2] < n
    BY <2>1
  <2>3. <<m, n>> \in (1 .. m) \X (1 .. n) /\ <<m, n>>[1] = m /\ <<m, n>>[2] = n
    OBVIOUS
  <2>4. <<m, n>> \notin s
    BY <2>2, <2>3
  <2> DEFINE t == s \union {<<m, n>>}
  <2>5. t \in SUBSET ((1 .. m) \X (1 .. n))
    BY <2>2, <2>3
  <2>6. \A p, q \in t : p # q => (p[1] < q[1] /\ p[2] < q[2]) \/ (q[1] < p[1] /\ q[2] < p[2])
    BY <2>1, <2>2, <2>3
  <2> QED
    BY <2>4, <2>5, <2>6 DEF Alignments
<1> QED
  BY <1>1, <1>2 DEF Alignments

----------------------------------------------------------------------------
(* The least cost of an alignment.                                         *)

\* What aligning the first m elements of x with the first n of y costs at least.
LeastCost(x, y, m, n) ==
    CHOOSE d \in {CostTo(x, y, m, n, s) : s \in Alignments(m, n)} :
        \A s \in Alignments(m, n) : d <= CostTo(x, y, m, n, s)

LEMMA LeastCostProps ==
    ASSUME NEW x, NEW y, NEW m \in Nat, NEW n \in Nat
    PROVE  /\ LeastCost(x, y, m, n) \in Nat
           /\ \E s \in Alignments(m, n) : LeastCost(x, y, m, n) = CostTo(x, y, m, n, s)
           /\ \A s \in Alignments(m, n) : LeastCost(x, y, m, n) <= CostTo(x, y, m, n, s)
<1> DEFINE costs == {CostTo(x, y, m, n, s) : s \in Alignments(m, n)}
<1>1. costs \in SUBSET Nat
  BY CostProps
<1>2. costs # {}
  <2>1. {} \in Alignments(m, n)
    BY DEF Alignments
  <2> QED
    BY <2>1
<1>3. PICK d \in costs : \A e \in costs : d <= e
  BY <1>1, <1>2, LeastNatural
<1>4. d \in costs /\ \A s \in Alignments(m, n) : d <= CostTo(x, y, m, n, s)
  BY <1>3
<1>5. LeastCost(x, y, m, n) \in costs
      /\ \A s \in Alignments(m, n) : LeastCost(x, y, m, n) <= CostTo(x, y, m, n, s)
  BY <1>4 DEF LeastCost
<1> QED
  BY <1>1, <1>5

\* From nothing, everything is inserted; to nothing, everything is deleted.
LEMMA LeastCostNothing ==
    ASSUME NEW x, NEW y
    PROVE  /\ \A n \in Nat : LeastCost(x, y, 0, n) = n
           /\ \A m \in Nat : LeastCost(x, y, m, 0) = m
<1>1. 0 \in Nat
  OBVIOUS
<1>2. \A m \in Nat : m = 0 => \A n \in Nat : Alignments(m, n) = {{}} /\ Alignments(n, m) = {{}}
  BY DEF Alignments
<1>3. \A m, n \in Nat : CostTo(x, y, m, n, {}) = m + n
  BY FS_EmptySet DEF CostTo
<1>4. ASSUME NEW n \in Nat PROVE LeastCost(x, y, 0, n) = n
  <2>1. \E s \in Alignments(0, n) : LeastCost(x, y, 0, n) = CostTo(x, y, 0, n, s)
    BY <1>1, LeastCostProps
  <2>2. n \in Nat /\ Alignments(0, n) = {{}} /\ CostTo(x, y, 0, n, {}) = n
    <3>1. n \in Nat /\ 0 \in Nat
      BY <1>1
    <3>2. Alignments(0, n) = {{}}
      BY <1>2, <3>1
    <3>3. CostTo(x, y, 0, n, {}) = 0 + n /\ 0 + n = n
      BY <1>3, <3>1
    <3> QED
      BY <3>1, <3>2, <3>3
  <2>3. PICK s \in Alignments(0, n) : LeastCost(x, y, 0, n) = CostTo(x, y, 0, n, s)
    BY <2>1
  <2>4. s = {}
    BY <2>2, <2>3
  <2> QED
    BY <2>2, <2>3, <2>4
<1>5. ASSUME NEW m \in Nat PROVE LeastCost(x, y, m, 0) = m
  <2>1. \E s \in Alignments(m, 0) : LeastCost(x, y, m, 0) = CostTo(x, y, m, 0, s)
    BY <1>1, LeastCostProps
  <2>2. m \in Nat /\ Alignments(m, 0) = {{}} /\ CostTo(x, y, m, 0, {}) = m
    <3>1. m \in Nat /\ 0 \in Nat
      BY <1>1
    <3>2. Alignments(m, 0) = {{}}
      BY <1>2, <3>1
    <3>3. CostTo(x, y, m, 0, {}) = m + 0 /\ m + 0 = m
      BY <1>3, <3>1
    <3> QED
      BY <3>1, <3>2, <3>3
  <2>3. PICK s \in Alignments(m, 0) : LeastCost(x, y, m, 0) = CostTo(x, y, m, 0, s)
    BY <2>1
  <2>4. s = {}
    BY <2>2, <2>3
  <2> QED
    BY <2>2, <2>3, <2>4
<1> QED
  BY <1>4, <1>5

\* What the table's cells are computed by: the last characters are deleted, inserted, or
\* one is kept or replaced by the other.
LEMMA LeastCostMore ==
    ASSUME NEW x, NEW y, NEW m \in Nat \ {0}, NEW n \in Nat \ {0}
    PROVE  LeastCost(x, y, m, n) =
               Least({LeastCost(x, y, m - 1, n) + 1, LeastCost(x, y, m, n - 1) + 1,
                      LeastCost(x, y, m - 1, n - 1) + (IF x[m] = y[n] THEN 0 ELSE 1)})
<1> DEFINE same == IF x[m] = y[n] THEN 0 ELSE 1
           d == LeastCost(x, y, m, n)
           e1 == LeastCost(x, y, m - 1, n)
           e2 == LeastCost(x, y, m, n - 1)
           e3 == LeastCost(x, y, m - 1, n - 1)
<1>1. m \in Nat /\ n \in Nat /\ m \in Nat \ {0} /\ n \in Nat \ {0} /\ m - 1 \in Nat /\ n - 1 \in Nat
  OBVIOUS
<1>2. d \in Nat /\ e1 \in Nat /\ e2 \in Nat /\ e3 \in Nat
  BY <1>1, LeastCostProps
<1>3. /\ \A s \in Alignments(m - 1, n) : CostTo(x, y, m, n, s) = CostTo(x, y, m - 1, n, s) + 1
      /\ \A s \in Alignments(m, n - 1) : CostTo(x, y, m, n, s) = CostTo(x, y, m, n - 1, s) + 1
  <2>1. ASSUME NEW s, Cardinality(s) \in Nat, Cardinality({p \in s : x[p[1]] # y[p[2]]}) \in Nat
        PROVE  /\ CostTo(x, y, m, n, s) = CostTo(x, y, m - 1, n, s) + 1
               /\ CostTo(x, y, m, n, s) = CostTo(x, y, m, n - 1, s) + 1
    <3> DEFINE c == Cardinality(s)
               e == Cardinality({p \in s : x[p[1]] # y[p[2]]})
    <3>1. c \in Nat /\ e \in Nat
      BY <2>1
    <3>2. /\ CostTo(x, y, m, n, s) = m + n - 2 * c + e
          /\ CostTo(x, y, m - 1, n, s) = (m - 1) + n - 2 * c + e
          /\ CostTo(x, y, m, n - 1, s) = m + (n - 1) - 2 * c + e
      BY DEF CostTo
    <3> HIDE DEF c, e
    <3> QED
      BY <1>1, <3>1, <3>2
  <2>2. ASSUME NEW k \in Nat, NEW l \in Nat, NEW s \in Alignments(k, l)
        PROVE  Cardinality(s) \in Nat /\ Cardinality({p \in s : x[p[1]] # y[p[2]]}) \in Nat
    BY AlignmentProps, FS_Subset, FS_CardinalityType
  <2> QED
    BY <1>1, <2>1, <2>2
<1>4. ASSUME NEW s \in Alignments(m - 1, n - 1)
      PROVE  CostTo(x, y, m, n, s \union {<<m, n>>}) = CostTo(x, y, m - 1, n - 1, s) + same
  <2> DEFINE t == s \union {<<m, n>>}
             mis == {p \in s : x[p[1]] # y[p[2]]}
  <2>1. <<m, n>> \notin s /\ IsFiniteSet(s) /\ Cardinality(s) \in Nat
    BY <1>1, Longer, AlignmentProps
  <2>2. IsFiniteSet(mis) /\ Cardinality(mis) \in Nat /\ <<m, n>> \notin mis
    BY <2>1, FS_Subset, FS_CardinalityType
  <2>3. Cardinality(t) = Cardinality(s) + 1
    BY <2>1, FS_AddElement
  <2>4. {p \in t : x[p[1]] # y[p[2]]} = IF x[m] = y[n] THEN mis ELSE mis \union {<<m, n>>}
    OBVIOUS
  <2>5. Cardinality({p \in t : x[p[1]] # y[p[2]]}) = Cardinality(mis) + same
    <3>1. Cardinality(mis \union {<<m, n>>}) = Cardinality(mis) + 1
      <4> HIDE DEF mis
      <4> QED
        BY <2>2, FS_AddElement
    <3>2. CASE x[m] = y[n]
      <4>1. {p \in t : x[p[1]] # y[p[2]]} = mis /\ same = 0
        BY <2>4, <3>2
      <4>2. Cardinality(mis) + 0 = Cardinality(mis)
        BY <2>2
      <4> HIDE DEF mis, t, same
      <4> QED
        BY <4>1, <4>2, Zenon
    <3>3. CASE x[m] # y[n]
      <4>1. {p \in t : x[p[1]] # y[p[2]]} = mis \union {<<m, n>>} /\ same = 1
        BY <2>4, <3>3
      <4> HIDE DEF mis, t, same
      <4> QED
        BY <3>1, <4>1
    <3> QED
      BY <3>2, <3>3
  <2> HIDE DEF t, mis, same
  <2>6. CostTo(x, y, m, n, t) = m + n - 2 * (Cardinality(s) + 1) + (Cardinality(mis) + same)
    BY <2>3, <2>5 DEF CostTo
  <2>7. CostTo(x, y, m - 1, n - 1, s) = (m - 1) + (n - 1) - 2 * Cardinality(s) + Cardinality(mis)
    BY DEF CostTo, mis
  <2>8. same \in Nat
    BY DEF same
  <2>9. m \in Int /\ n \in Int /\ Cardinality(s) \in Int /\ Cardinality(mis) \in Int /\ same \in Int
    BY <1>1, <2>1, <2>2, <2>8
  <2>10. CostTo(x, y, m, n, t) = CostTo(x, y, m - 1, n - 1, s) + same
    <3> DEFINE c == Cardinality(s)
               e == Cardinality(mis)
               u == CostTo(x, y, m, n, t)
               v == CostTo(x, y, m - 1, n - 1, s)
    <3>1. m \in Int /\ n \in Int /\ c \in Int /\ e \in Int /\ same \in Int
      BY <2>9
    <3>2. (u = m + n - 2 * (c + 1) + (e + same)) /\ (v = (m - 1) + (n - 1) - 2 * c + e)
      BY <2>6, <2>7
    <3> HIDE DEF c, e, u, v
    <3>3. u = v + same
      BY <3>1, <3>2
    <3> QED
      BY <3>3 DEF u, v
  <2> QED
    BY <2>10 DEF t
<1>5. d <= e1 + 1
  <2>1. PICK s \in Alignments(m - 1, n) : e1 = CostTo(x, y, m - 1, n, s)
    BY <1>1, LeastCostProps
  <2>2. s \in Alignments(m, n) /\ CostTo(x, y, m, n, s) = e1 + 1
    BY <1>1, <1>3, <2>1, Longer
  <2> QED
    BY <1>1, <2>2, LeastCostProps
<1>6. d <= e2 + 1
  <2>1. PICK s \in Alignments(m, n - 1) : e2 = CostTo(x, y, m, n - 1, s)
    BY <1>1, LeastCostProps
  <2>2. s \in Alignments(m, n) /\ CostTo(x, y, m, n, s) = e2 + 1
    BY <1>1, <1>3, <2>1, Longer
  <2> QED
    BY <1>1, <2>2, LeastCostProps
<1>7. d <= e3 + same
  <2>1. PICK s \in Alignments(m - 1, n - 1) : e3 = CostTo(x, y, m - 1, n - 1, s)
    BY <1>1, LeastCostProps
  <2>2. s \union {<<m, n>>} \in Alignments(m, n) /\ CostTo(x, y, m, n, s \union {<<m, n>>}) = e3 + same
    BY <1>1, <1>4, <2>1, Longer
  <2> QED
    BY <1>1, <2>2, LeastCostProps
<1>8. d = e1 + 1 \/ d = e2 + 1 \/ d = e3 + same
  <2>1. PICK s \in Alignments(m, n) : d = CostTo(x, y, m, n, s)
    BY <1>1, LeastCostProps
  <2>2. CASE s \in Alignments(m - 1, n)
    <3> DEFINE c == CostTo(x, y, m - 1, n, s)
    <3>1. d = c + 1 /\ e1 <= c /\ c \in Nat
      BY <1>1, <1>3, <2>1, <2>2, LeastCostProps, CostProps
    <3> HIDE DEF d, e1, c
    <3> QED
      BY <1>2, <1>5, <3>1
  <2>3. CASE s \in Alignments(m, n - 1)
    <3> DEFINE c == CostTo(x, y, m, n - 1, s)
    <3>1. d = c + 1 /\ e2 <= c /\ c \in Nat
      BY <1>1, <1>3, <2>1, <2>3, LeastCostProps, CostProps
    <3> HIDE DEF d, e2, c
    <3> QED
      BY <1>2, <1>6, <3>1
  <2>4. CASE <<m, n>> \in s /\ s \ {<<m, n>>} \in Alignments(m - 1, n - 1)
    <3> DEFINE t == s \ {<<m, n>>}
    <3>1. t \union {<<m, n>>} = s /\ t \in Alignments(m - 1, n - 1)
      BY <2>4
    <3> HIDE DEF t
    <3> DEFINE c == CostTo(x, y, m - 1, n - 1, t)
    <3>2. d = c + same /\ e3 <= c /\ c \in Nat /\ same \in Nat
      BY <1>1, <1>4, <2>1, <3>1, LeastCostProps, CostProps
    <3> HIDE DEF d, e3, c, same
    <3> QED
      BY <1>2, <1>7, <3>2
  <2> QED
    BY <1>1, <2>2, <2>3, <2>4, Shorter
<1>9. same \in {0, 1}
  OBVIOUS
<1> HIDE DEF d, e1, e2, e3, same
<1>10. d \in {e1 + 1, e2 + 1, e3 + same} /\ \A z \in {e1 + 1, e2 + 1, e3 + same} : d <= z
  BY <1>2, <1>5, <1>6, <1>7, <1>8
<1>11. \A z \in {e1 + 1, e2 + 1, e3 + same} : z \in Nat
  BY <1>2, <1>9
<1>12. \A z \in {e1 + 1, e2 + 1, e3 + same} : (\A w \in {e1 + 1, e2 + 1, e3 + same} : z <= w) => z = d
  BY <1>2, <1>10, <1>11
<1>13. d = Least({e1 + 1, e2 + 1, e3 + same})
  BY <1>10, <1>12 DEF Least
<1> QED
  BY <1>13 DEF d, e1, e2, e3, same

\* It is at most the longer length.
LEMMA LeastCostShort ==
    ASSUME NEW x, NEW y, NEW m \in Nat, NEW n \in Nat, NEW longer \in Nat, m <= longer, n <= longer
    PROVE  LeastCost(x, y, m, n) <= longer
<1>1. m \in Nat /\ n \in Nat /\ m <= longer /\ n <= longer /\ longer \in Nat
  OBVIOUS
<1> DEFINE l == IF m <= n THEN m ELSE n
           s == {<<k, k>> : k \in 1 .. l}
<1>2. s \in Alignments(m, n)
  <2>1. s \in SUBSET ((1 .. m) \X (1 .. n))
    BY <1>1
  <2>2. \A p \in s : \E k \in 1 .. l : p = <<k, k>>
    OBVIOUS
  <2>3. \A p, q \in s : p # q => (p[1] < q[1] /\ p[2] < q[2]) \/ (q[1] < p[1] /\ q[2] < p[2])
    BY <1>1
  <2> QED
    BY <2>1, <2>3 DEF Alignments
<1>3. Cardinality(s) = l
  <2>1. l \in Nat /\ IsFiniteSet(1 .. l) /\ Cardinality(1 .. l) = l
    BY <1>1, FS_Interval
  <2> DEFINE f == [k \in 1 .. l |-> <<k, k>>]
  <2>2. f \in Surjection(1 .. l, s)
    BY DEF Surjection
  <2>3. f \in Injection(1 .. l, s)
    BY DEF Injection, IsInjective
  <2> HIDE DEF s, l, f
  <2> QED
    BY <2>1, <2>2, <2>3, FS_Surjection
<1>4. IsFiniteSet({p \in s : x[p[1]] # y[p[2]]})
      /\ Cardinality({p \in s : x[p[1]] # y[p[2]]}) <= Cardinality(s)
      /\ Cardinality({p \in s : x[p[1]] # y[p[2]]}) \in Nat
  <2>1. IsFiniteSet(s)
    BY <1>1, <1>2, AlignmentProps
  <2> HIDE DEF s
  <2> QED
    BY <2>1, FS_Subset, FS_CardinalityType
<1>5. CostTo(x, y, m, n, s) <= longer
  <2> HIDE DEF s
  <2> QED
    BY <1>1, <1>3, <1>4 DEF CostTo
<1>6. LeastCost(x, y, m, n) <= CostTo(x, y, m, n, s) /\ LeastCost(x, y, m, n) \in Nat /\ CostTo(x, y, m, n, s) \in Nat
  BY <1>1, <1>2, LeastCostProps, CostProps
<1> HIDE DEF s
<1> QED
  BY <1>1, <1>5, <1>6

\* And at least the difference of the lengths.
LEMMA LeastCostDifference ==
    ASSUME NEW x, NEW y, NEW m \in Nat, NEW n \in Nat
    PROVE  LeastCost(x, y, m, n) >= n - m
<1>1. PICK s \in Alignments(m, n) : LeastCost(x, y, m, n) = CostTo(x, y, m, n, s)
  BY LeastCostProps
<1> DEFINE c == Cardinality(s)
           e == Cardinality({p \in s : x[p[1]] # y[p[2]]})
<1>2. c \in Nat /\ c <= m /\ e \in Nat
  BY AlignmentProps, FS_Subset, FS_CardinalityType
<1>3. LeastCost(x, y, m, n) = m + n - 2 * c + e
  BY <1>1 DEF CostTo
<1> HIDE DEF c, e
<1> QED
  BY <1>2, <1>3

\* Nothing is aligned for nothing but the same.
LEMMA LeastCostZero ==
    ASSUME NEW x, NEW y
    PROVE  \A m, n \in Nat : LeastCost(x, y, m, n) = 0 => m = n /\ \A k \in 1 .. m : x[k] = y[k]
<1> DEFINE Same(m, n) == m = n /\ \A k \in 1 .. m : x[k] = y[k]
           T == {m \in Nat : \E n \in Nat : LeastCost(x, y, m, n) = 0 /\ ~Same(m, n)}
<1>1. ASSUME T # {} PROVE FALSE
  <2>1. PICK m \in T : \A l \in T : m <= l
    BY <1>1, LeastNatural
  <2>2. PICK n \in Nat : LeastCost(x, y, m, n) = 0 /\ ~Same(m, n)
    BY <2>1
  <2>3. m \in Nat
    BY <2>1
  <2>4. m # 0 /\ n # 0
    <3>1. m = 0 => n = 0
      BY <2>2, <2>3, LeastCostNothing
    <3>2. n = 0 => m = 0
      BY <2>2, <2>3, LeastCostNothing
    <3>3. Same(0, 0)
      OBVIOUS
    <3> QED
      BY <2>2, <3>1, <3>2, <3>3
  <2>5. m - 1 \in Nat /\ n - 1 \in Nat /\ m \in Nat \ {0} /\ n \in Nat \ {0}
    BY <2>3, <2>4
  <2> DEFINE e1 == LeastCost(x, y, m - 1, n)
             e2 == LeastCost(x, y, m, n - 1)
             e3 == LeastCost(x, y, m - 1, n - 1)
             same == IF x[m] = y[n] THEN 0 ELSE 1
             S == {e1 + 1, e2 + 1, e3 + same}
  <2>6. e1 \in Nat /\ e2 \in Nat /\ e3 \in Nat /\ same \in {0, 1}
    BY <2>3, <2>5, LeastCostProps
  <2>7. 0 = Least(S)
    BY <2>2, <2>5, LeastCostMore
  <2>8. Least(S) \in S
    <3>1. S \in SUBSET Nat /\ S # {}
      <4> HIDE DEF e1, e2, e3, same
      <4> QED
        BY <2>6
    <3> HIDE DEF S
    <3>2. \E z \in S : \A w \in S : z <= w
      BY <3>1, LeastNatural
    <3> QED
      BY <3>2 DEF Least
  <2>9. e3 = 0 /\ same = 0
    <3> HIDE DEF e1, e2, e3, same
    <3> QED
      BY <2>6, <2>7, <2>8
  <2>10. m - 1 \notin T
    BY <2>1, <2>3
  <2>11. Same(m - 1, n - 1)
    BY <2>5, <2>9, <2>10
  <2>12. Same(m, n)
    <3>1. m = n /\ x[m] = y[m]
      BY <2>3, <2>5, <2>9, <2>11
    <3>2. \A k \in 1 .. m : k = m \/ k \in 1 .. m - 1
      BY <2>3
    <3> QED
      BY <2>11, <3>1, <3>2
  <2> QED
    BY <2>2, <2>12
<1> QED
  BY <1>1

----------------------------------------------------------------------------
(* The edit distance.                                                      *)

LEMMA StringProps ==
    ASSUME NEW x \in Strings
    PROVE  /\ x \in Seq(Chars) /\ Len(x) \in 0 .. MaxLen
           /\ x = [k \in 1 .. Len(x) |-> x[k]]
<1>1. PICK n \in 0 .. MaxLen : x \in [1 .. n -> Chars]
  BY DEF Strings
<1>2. n \in Nat
  BY MaxLenAssumption
<1>3. x \in Seq(Chars) /\ Len(x) = n
  BY <1>1, <1>2
<1> QED
  BY <1>1, <1>3

LEMMA PrefixProps ==
    ASSUME NEW x \in Strings, NEW n \in 0 .. Len(x)
    PROVE  /\ Prefix(x, n) \in Strings /\ Len(Prefix(x, n)) = n
           /\ \A k \in 1 .. n : Prefix(x, n)[k] = x[k]
           /\ n = Len(x) => Prefix(x, n) = x
<1>1. x \in Seq(Chars) /\ Len(x) \in Nat /\ Len(x) <= MaxLen /\ x = [k \in 1 .. Len(x) |-> x[k]]
  BY StringProps, MaxLenAssumption
<1>2. Prefix(x, n) = [k \in 1 .. n |-> x[k]]
  BY <1>1 DEF Prefix
<1>3. n \in 0 .. MaxLen /\ n \in Nat
  BY <1>1, MaxLenAssumption
<1>4. \A k \in 1 .. n : x[k] \in Chars
  BY <1>1, <1>3
<1>5. Prefix(x, n) \in [1 .. n -> Chars]
  BY <1>2, <1>4
<1>6. Len(Prefix(x, n)) = n
  BY <1>3, <1>5
<1> QED
  BY <1>1, <1>2, <1>3, <1>5, <1>6 DEF Strings

\* The distance of the first m characters of x to the first n of y.
Between(x, y, m, n) == Distance(Prefix(x, m), Prefix(y, n))

\* The cost of the beginnings' alignments is counted on the strings themselves.
LEMMA PrefixCost ==
    ASSUME NEW x \in Strings, NEW y \in Strings, NEW m \in 0 .. Len(x), NEW n \in 0 .. Len(y),
           NEW s \in Alignments(m, n)
    PROVE  Cost(Prefix(x, m), Prefix(y, n), s) = CostTo(x, y, m, n, s)
<1>1. m \in Nat /\ n \in Nat
  BY StringProps, MaxLenAssumption
<1>2. /\ Len(Prefix(x, m)) = m /\ \A k \in 1 .. m : Prefix(x, m)[k] = x[k]
      /\ Len(Prefix(y, n)) = n /\ \A k \in 1 .. n : Prefix(y, n)[k] = y[k]
  BY PrefixProps
<1>3. \A p \in s : Prefix(x, m)[p[1]] = x[p[1]] /\ Prefix(y, n)[p[2]] = y[p[2]]
  BY <1>1, <1>2, AlignmentProps
<1>4. {p \in s : Prefix(x, m)[p[1]] # Prefix(y, n)[p[2]]} = {p \in s : x[p[1]] # y[p[2]]}
  BY <1>3
<1> QED
  BY <1>2, <1>4 DEF Cost, CostTo

LEMMA BetweenIsLeast ==
    ASSUME NEW x \in Strings, NEW y \in Strings, NEW m \in 0 .. Len(x), NEW n \in 0 .. Len(y)
    PROVE  Between(x, y, m, n) = LeastCost(x, y, m, n)
<1> DEFINE px == Prefix(x, m)
           py == Prefix(y, n)
<1>1. <<m, n>> \in (0 .. MaxLen) \X (0 .. MaxLen)
  BY StringProps, MaxLenAssumption
<1>2. Len(px) = m /\ Len(py) = n
  BY PrefixProps
<1>3. AllAlignments[<<Len(px), Len(py)>>] = Alignments(m, n)
  BY <1>1, <1>2 DEF AllAlignments
<1>4. {Cost(px, py, s) : s \in Alignments(m, n)} = {CostTo(x, y, m, n, s) : s \in Alignments(m, n)}
      /\ \A s \in Alignments(m, n) : Cost(px, py, s) = CostTo(x, y, m, n, s)
  BY PrefixCost
<1>5. Between(x, y, m, n) =
          CHOOSE d \in {Cost(px, py, s) : s \in Alignments(m, n)} :
              \A s \in Alignments(m, n) : d <= Cost(px, py, s)
  BY <1>3 DEF Between, Distance
<1> HIDE DEF px, py
<1> QED
  BY <1>4, <1>5 DEF LeastCost

\* From nothing, everything is inserted; to nothing, everything is deleted.
LEMMA BetweenNothing ==
    ASSUME NEW x \in Strings, NEW y \in Strings
    PROVE  /\ \A n \in 0 .. Len(y) : Between(x, y, 0, n) = n
           /\ \A m \in 0 .. Len(x) : Between(x, y, m, 0) = m
<1>1. Len(x) \in Nat /\ Len(y) \in Nat
  BY StringProps, MaxLenAssumption
<1>2. ASSUME NEW n \in 0 .. Len(y) PROVE Between(x, y, 0, n) = n
  BY <1>1, BetweenIsLeast, LeastCostNothing
<1>3. ASSUME NEW m \in 0 .. Len(x) PROVE Between(x, y, m, 0) = m
  BY <1>1, BetweenIsLeast, LeastCostNothing
<1> QED
  BY <1>2, <1>3

\* What the table's cells are computed by.
LEMMA BetweenMore ==
    ASSUME NEW x \in Strings, NEW y \in Strings, NEW m \in 1 .. Len(x), NEW n \in 1 .. Len(y)
    PROVE  Between(x, y, m, n) =
               Least({Between(x, y, m - 1, n) + 1, Between(x, y, m, n - 1) + 1,
                      Between(x, y, m - 1, n - 1) + (IF x[m] = y[n] THEN 0 ELSE 1)})
<1>1. /\ m \in Nat \ {0} /\ n \in Nat \ {0} /\ m - 1 \in 0 .. Len(x) /\ n - 1 \in 0 .. Len(y)
      /\ m \in 0 .. Len(x) /\ n \in 0 .. Len(y)
  BY StringProps, MaxLenAssumption
<1>2. \A k \in 0 .. Len(x), l \in 0 .. Len(y) : Between(x, y, k, l) = LeastCost(x, y, k, l)
  BY BetweenIsLeast
<1>3. /\ Between(x, y, m, n) = LeastCost(x, y, m, n)
      /\ Between(x, y, m - 1, n) = LeastCost(x, y, m - 1, n)
      /\ Between(x, y, m, n - 1) = LeastCost(x, y, m, n - 1)
      /\ Between(x, y, m - 1, n - 1) = LeastCost(x, y, m - 1, n - 1)
  BY <1>1, <1>2
<1>4. LeastCost(x, y, m, n) =
          Least({LeastCost(x, y, m - 1, n) + 1, LeastCost(x, y, m, n - 1) + 1,
                 LeastCost(x, y, m - 1, n - 1) + (IF x[m] = y[n] THEN 0 ELSE 1)})
  BY <1>1, LeastCostMore
<1> QED
  BY <1>3, <1>4

\* The inductive invariant: the row above is whole, and the row being computed is right
\* as far as it has come; the rest of the exchanged array is never read.
RowAbove == result = -1 => \A k \in 0 .. Len(b) : prev[k] = Between(a, b, i - 1, k)

RowSoFar == InRow => \A k \in 0 .. j - 1 : cur[k] = Between(a, b, i, k)

Returned == result # -1 => result = Distance(a, b)

EditIInv == a \in Strings /\ b \in Strings /\ EditTypeOK /\ RowAbove /\ RowSoFar /\ Returned

\* A distance between beginnings fits in the arrays.
LEMMA BetweenFits ==
    ASSUME NEW x \in Strings, NEW y \in Strings, NEW m \in 0 .. Len(x), NEW n \in 0 .. Len(y)
    PROVE  Between(x, y, m, n) \in 0 .. MaxLen /\ Between(x, y, m, n) \in 0 .. 2 * MaxLen
<1>1. m \in Nat /\ n \in Nat /\ m <= MaxLen /\ n <= MaxLen /\ MaxLen \in Nat
  BY StringProps, MaxLenAssumption
<1>2. Between(x, y, m, n) = LeastCost(x, y, m, n)
  BY BetweenIsLeast
<1>3. LeastCost(x, y, m, n) \in Nat
  BY <1>1, LeastCostProps
<1>4. LeastCost(x, y, m, n) <= MaxLen
  BY <1>1, LeastCostShort
<1>5. Between(x, y, m, n) \in Nat /\ Between(x, y, m, n) <= MaxLen
  BY <1>2, <1>3, <1>4
<1> QED
  BY <1>1, <1>5

\* The whole strings are beginnings of themselves.
LEMMA BetweenWhole ==
    ASSUME NEW x \in Strings, NEW y \in Strings
    PROVE  Between(x, y, Len(x), Len(y)) = Distance(x, y)
<1>1. Len(x) \in 0 .. Len(x) /\ Len(y) \in 0 .. Len(y)
  BY StringProps, MaxLenAssumption
<1>2. Prefix(x, Len(x)) = x /\ Prefix(y, Len(y)) = y
  BY <1>1, PrefixProps
<1> QED
  BY <1>2 DEF Between

\* The first row above is what it takes to insert.
LEMMA EditInitial == EditInit => EditIInv
<1> SUFFICES ASSUME EditInit PROVE EditIInv
  OBVIOUS
<1> USE DEF EditInit
<1>1. Len(a) \in Nat /\ Len(b) \in Nat /\ Len(b) <= MaxLen /\ MaxLen \in Nat
  BY StringProps, MaxLenAssumption
<1>2. EditTypeOK
  BY <1>1 DEF EditTypeOK
<1>3. RowAbove
  <2>1. i - 1 = 0
    OBVIOUS
  <2>2. \A k \in 0 .. Len(b) : prev[k] = k /\ Between(a, b, 0, k) = k
    BY BetweenNothing
  <2> QED
    BY <2>1, <2>2 DEF RowAbove
<1>4. RowSoFar
  BY DEF RowSoFar
<1>5. Returned
  BY DEF Returned
<1> QED
  BY <1>2, <1>3, <1>4, <1>5 DEF EditIInv

\* A returned distance is right whatever the loop's variables hold, so the steps that
\* return share this.
LEMMA ReturnIsRight ==
    ASSUME EditIInv, result = -1, result' = Distance(a, b), UNCHANGED <<a, b, prev, cur, i, j>>
    PROVE  EditIInv'
<1> USE DEF EditIInv
<1>1. Len(a) \in Nat /\ Len(b) \in Nat
  BY StringProps, MaxLenAssumption
<1>2. Distance(a, b) \in 0 .. MaxLen
  BY <1>1, BetweenWhole, BetweenFits
<1>3. result' \in -1 .. MaxLen /\ result' # -1
  BY <1>2, MaxLenAssumption
<1>4. EditTypeOK'
  BY <1>3 DEF EditTypeOK
<1>5. RowAbove' /\ RowSoFar'
  BY <1>3 DEF RowAbove, RowSoFar, InRow
<1>6. Returned'
  BY DEF Returned
<1> QED
  BY <1>4, <1>5, <1>6

LEMMA ReturnEarlyStep == EditIInv /\ ReturnEarly => EditIInv'
<1> SUFFICES ASSUME EditIInv, ReturnEarly PROVE EditIInv'
  OBVIOUS
<1>1. /\ a \in Strings /\ b \in Strings /\ Len(a) \in Nat /\ Len(b) \in Nat
      /\ Len(a) \in 0 .. Len(a) /\ Len(b) \in 0 .. Len(b)
  BY StringProps, MaxLenAssumption DEF EditIInv
<1>2. CASE Len(a) = 0
  <2>1. Between(a, b, 0, Len(b)) = Len(b)
    BY <1>1, BetweenNothing
  <2> QED
    BY <1>1, <1>2, <2>1, BetweenWhole, ReturnIsRight DEF ReturnEarly
<1>3. CASE Len(a) # 0
  <2>1. Len(b) = 0 /\ Between(a, b, Len(a), 0) = Len(a)
    BY <1>1, <1>3, BetweenNothing DEF ReturnEarly
  <2> QED
    BY <1>1, <1>3, <2>1, BetweenWhole, ReturnIsRight DEF ReturnEarly
<1> QED
  BY <1>2, <1>3

LEMMA ReturnStep == EditIInv /\ Return => EditIInv'
<1> SUFFICES ASSUME EditIInv, Return PROVE EditIInv'
  OBVIOUS
<1>1. a \in Strings /\ b \in Strings /\ Len(a) \in Nat /\ Len(b) \in Nat /\ Len(b) \in 0 .. Len(b)
  BY StringProps, MaxLenAssumption DEF EditIInv
<1>2. i - 1 = Len(a)
  BY <1>1 DEF Return, EditIInv, EditTypeOK
<1>3. prev[Len(b)] = Between(a, b, Len(a), Len(b))
  BY <1>1, <1>2 DEF Return, EditIInv, RowAbove
<1> QED
  BY <1>1, <1>3, BetweenWhole, ReturnIsRight DEF Return

\* What every step within a row starts from.
LEMMA InRowProps ==
    ASSUME EditIInv, InRow
    PROVE  /\ a \in Strings /\ b \in Strings
           /\ Len(a) \in Nat /\ Len(b) \in Nat /\ MaxLen \in Nat /\ Len(a) <= MaxLen
           /\ i \in 1 .. Len(a) /\ i \in 0 .. Len(a) /\ i - 1 \in 0 .. Len(a)
           /\ prev \in [0 .. Len(b) -> 0 .. 2 * MaxLen] /\ cur \in [0 .. Len(b) -> 0 .. 2 * MaxLen]
           /\ j \in 0 .. Len(b) + 1
<1>1. Len(a) \in Nat /\ Len(b) \in Nat /\ MaxLen \in Nat /\ Len(a) <= MaxLen
  BY StringProps, MaxLenAssumption DEF EditIInv
<1> QED
  BY <1>1 DEF EditIInv, EditTypeOK, InRow

LEMMA StartRowStep == EditIInv /\ StartRow => EditIInv'
<1> SUFFICES ASSUME EditIInv, StartRow PROVE EditIInv'
  OBVIOUS
<1> USE DEF StartRow
<1>1. /\ a \in Strings /\ b \in Strings /\ Len(a) \in Nat /\ Len(b) \in Nat /\ MaxLen \in Nat
      /\ Len(a) <= MaxLen /\ i \in 1 .. Len(a) /\ i \in 0 .. Len(a)
      /\ cur \in [0 .. Len(b) -> 0 .. 2 * MaxLen]
  BY InRowProps
<1>2. EditTypeOK'
  <2>1. cur' \in [0 .. Len(b) -> 0 .. 2 * MaxLen] /\ j' \in 0 .. Len(b) + 1
    BY <1>1
  <2> QED
    BY <2>1 DEF EditIInv, EditTypeOK
<1>3. RowAbove' /\ Returned'
  BY DEF EditIInv, RowAbove, Returned
<1>4. RowSoFar'
  <2>1. Between(a, b, i, 0) = i
    BY <1>1, BetweenNothing
  <2>2. cur'[0] = i
    BY <1>1
  <2>3. \A k \in 0 .. j' - 1 : k = 0
    OBVIOUS
  <2> QED
    BY <2>1, <2>2, <2>3 DEF RowSoFar
<1> QED
  BY <1>1, <1>2, <1>3, <1>4 DEF EditIInv

LEMMA CellStep == EditIInv /\ Cell => EditIInv'
<1> SUFFICES ASSUME EditIInv, Cell PROVE EditIInv'
  OBVIOUS
<1>1. /\ a \in Strings /\ b \in Strings /\ Len(a) \in Nat /\ Len(b) \in Nat /\ MaxLen \in Nat
      /\ i \in 1 .. Len(a) /\ i \in 0 .. Len(a) /\ i - 1 \in 0 .. Len(a)
      /\ cur \in [0 .. Len(b) -> 0 .. 2 * MaxLen]
      /\ j \in 1 .. Len(b) /\ j \in 0 .. Len(b) /\ j - 1 \in 0 .. Len(b)
  BY InRowProps DEF Cell
<1>2. /\ prev[j] = Between(a, b, i - 1, j) /\ prev[j - 1] = Between(a, b, i - 1, j - 1)
      /\ cur[j - 1] = Between(a, b, i, j - 1)
  <2>1. result = -1 /\ InRow
    BY DEF Cell, InRow
  <2>2. j - 1 \in 0 .. j - 1
    BY <1>1
  <2> QED
    BY <1>1, <2>1, <2>2 DEF EditIInv, RowAbove, RowSoFar
<1>3. cur' = [cur EXCEPT ![j] = Between(a, b, i, j)]
  <2>1. Between(a, b, i, j) =
            Least({Between(a, b, i - 1, j) + 1, Between(a, b, i, j - 1) + 1,
                   Between(a, b, i - 1, j - 1) + (IF a[i] = b[j] THEN 0 ELSE 1)})
    BY <1>1, BetweenMore
  <2>2. Between(a, b, i, j) =
            Least({prev[j] + 1, cur[j - 1] + 1, prev[j - 1] + (IF a[i] = b[j] THEN 0 ELSE 1)})
    BY <1>2, <2>1
  <2> QED
    BY <2>2 DEF Cell
<1>4. EditTypeOK'
  <2>1. Between(a, b, i, j) \in 0 .. 2 * MaxLen
    BY <1>1, BetweenFits
  <2>2. cur' \in [0 .. Len(b) -> 0 .. 2 * MaxLen]
    BY <1>1, <1>3, <2>1
  <2>3. j' \in 0 .. Len(b) + 1
    BY <1>1 DEF Cell
  <2> QED
    BY <2>2, <2>3 DEF EditIInv, EditTypeOK, Cell
<1>5. RowAbove' /\ Returned'
  BY DEF EditIInv, RowAbove, Returned, Cell
<1>6. RowSoFar'
  <2>1. a' = a /\ b' = b /\ i' = i /\ j' - 1 = j
    BY <1>1 DEF Cell
  <2>2. ASSUME NEW k \in 0 .. j PROVE cur'[k] = Between(a, b, i, k)
    <3>1. CASE k = j
      BY <1>1, <1>3, <3>1
    <3>2. CASE k # j
      <4>1. k \in 0 .. j - 1 /\ k \in 0 .. Len(b)
        BY <1>1, <3>2
      <4>2. cur'[k] = cur[k]
        BY <1>1, <1>3, <3>2, <4>1
      <4> QED
        BY <4>1, <4>2 DEF Cell, EditIInv, RowSoFar
    <3> QED
      BY <3>1, <3>2
  <2> QED
    BY <2>1, <2>2 DEF RowSoFar
<1> QED
  BY <1>1, <1>4, <1>5, <1>6 DEF EditIInv, Cell

LEMMA EndRowStep == EditIInv /\ EndRow => EditIInv'
<1> SUFFICES ASSUME EditIInv, EndRow PROVE EditIInv'
  OBVIOUS
<1>1. /\ a \in Strings /\ b \in Strings /\ Len(a) \in Nat /\ Len(b) \in Nat
      /\ i \in 1 .. Len(a) /\ j \in 0 .. Len(b) + 1 /\ InRow
  BY InRowProps DEF EndRow
<1>2. EditTypeOK'
  <2>1. i' \in 1 .. Len(a) + 1 /\ j' \in 0 .. Len(b) + 1
    BY <1>1 DEF EndRow
  <2> QED
    BY <2>1 DEF EditIInv, EditTypeOK, EndRow
<1>3. RowAbove'
  <2>1. i' - 1 = i /\ 0 .. Len(b) \subseteq 0 .. j - 1
    BY <1>1 DEF EndRow
  <2> QED
    BY <1>1, <2>1 DEF EditIInv, RowAbove, RowSoFar, EndRow
<1>4. RowSoFar'
  <2>1. 0 .. j' - 1 = {}
    BY DEF EndRow
  <2> QED
    BY <2>1 DEF RowSoFar
<1>5. Returned'
  BY DEF EditIInv, Returned, EndRow
<1> QED
  BY <1>1, <1>2, <1>3, <1>4, <1>5 DEF EditIInv, EndRow

\* The row above and the row so far hold the distances at every step of the loop.
LEMMA EditInvariance == EditSpec => []EditIInv
<1>1. EditIInv /\ [EditNext]_editVars => EditIInv'
  <2>1. EditIInv /\ UNCHANGED editVars => EditIInv'
    BY DEF editVars, EditIInv, EditTypeOK, RowAbove, RowSoFar, Returned, InRow
  <2> QED
    BY <2>1, ReturnEarlyStep, StartRowStep, CellStep, EndRowStep, ReturnStep DEF EditNext
<1> QED
  BY <1>1, EditInitial, PTL DEF EditSpec

\* The loop of levenshtein computes the distance row by row, within its arrays, for
\* strings of every length over every alphabet: what it returns is what the cheapest
\* alignment costs.
THEOREM DistanceIsLeastHolds == EditSpec => []DistanceIsLeast
<1>1. EditIInv => DistanceIsLeast
  BY DEF EditIInv, RowAbove, Returned, Between, DistanceIsLeast, IsLeastEdits
<1> QED
  BY <1>1, EditInvariance, PTL

----------------------------------------------------------------------------
(* Sorting.                                                                *)

\* How many of a set come before one of them, in an order given as a set of pairs.
Rank(S, R, x) == Cardinality({y \in S : <<y, x>> \in R})

\* In a total order every rank is taken, and by one element.
LEMMA Ranks ==
    ASSUME NEW S, IsFiniteSet(S), NEW R,
           \A x \in S : <<x, x>> \notin R,
           \A x, y \in S : x # y => <<x, y>> \in R \/ <<y, x>> \in R,
           \A x, y, z \in S : <<x, y>> \in R /\ <<y, z>> \in R => <<x, z>> \in R
    PROVE  /\ Cardinality(S) \in Nat
           /\ \A x \in S : Rank(S, R, x) \in 0 .. Cardinality(S) - 1
           /\ \A x, y \in S : <<x, y>> \in R => Rank(S, R, x) < Rank(S, R, y)
           /\ \A x, y \in S : Rank(S, R, x) = Rank(S, R, y) => x = y
           /\ \A n \in 0 .. Cardinality(S) - 1 : \E x \in S : Rank(S, R, x) = n
<1> DEFINE Lower(x) == {y \in S : <<y, x>> \in R}
<1>1. Cardinality(S) \in Nat
  BY FS_CardinalityType
<1>2. ASSUME NEW x \in S
      PROVE  /\ IsFiniteSet(Lower(x)) /\ Cardinality(Lower(x)) \in Nat
             /\ Rank(S, R, x) = Cardinality(Lower(x)) /\ Rank(S, R, x) \in 0 .. Cardinality(S) - 1
  <2>1. Lower(x) \in SUBSET S /\ Lower(x) # S
    OBVIOUS
  <2>2. IsFiniteSet(Lower(x)) /\ Cardinality(Lower(x)) \in Nat
        /\ Cardinality(Lower(x)) <= Cardinality(S) /\ Cardinality(S) # Cardinality(Lower(x))
    <3> HIDE DEF Lower
    <3> QED
      BY <2>1, FS_Subset, FS_CardinalityType
  <2>3. Rank(S, R, x) = Cardinality(Lower(x))
    BY DEF Rank
  <2> HIDE DEF Lower
  <2> QED
    BY <1>1, <2>2, <2>3
<1>3. ASSUME NEW x \in S, NEW y \in S, <<x, y>> \in R PROVE Rank(S, R, x) < Rank(S, R, y)
  <2>1. Lower(x) \in SUBSET Lower(y) /\ x \in Lower(y) /\ x \notin Lower(x)
    BY <1>3
  <2>2. Lower(x) # Lower(y)
    BY <2>1
  <2> HIDE DEF Lower
  <2>3. Cardinality(Lower(x)) <= Cardinality(Lower(y)) /\ Cardinality(Lower(y)) # Cardinality(Lower(x))
    BY <1>2, <2>1, <2>2, FS_Subset
  <2> QED
    BY <1>2, <2>3
<1>4. \A x \in S : Rank(S, R, x) \in 0 .. Cardinality(S) - 1
  BY <1>2
<1>5. ASSUME NEW x \in S, NEW y \in S, Rank(S, R, x) = Rank(S, R, y) PROVE x = y
  <2>1. Rank(S, R, x) \in Int
    BY <1>4
  <2>2. ~(Rank(S, R, x) < Rank(S, R, y)) /\ ~(Rank(S, R, y) < Rank(S, R, x))
    BY <1>5, <2>1
  <2> QED
    BY <1>3, <2>2
<1>6. ASSUME NEW n \in 0 .. Cardinality(S) - 1 PROVE \E x \in S : Rank(S, R, x) = n
  <2> DEFINE f == [x \in S |-> Rank(S, R, x)]
             T == 0 .. Cardinality(S) - 1
  <2>1. f \in Injection(S, T)
    BY <1>4, <1>5 DEF Injection, IsInjective
  <2>2. IsFiniteSet(T) /\ Cardinality(T) = Cardinality(S)
    BY <1>1, FS_Interval
  <2>3. f \in Surjection(S, T)
    <3> HIDE DEF f, T
    <3> QED
      BY <2>1, <2>2, FS_Injection
  <2> QED
    BY <2>3 DEF Surjection
<1> QED
  BY <1>1, <1>3, <1>4, <1>5, <1>6

\* An image by a function that tells its arguments apart is as large as what it is the
\* image of.
LEMMA ImageProps ==
    ASSUME NEW f, NEW S, IsFiniteSet(S), \A k, l \in S : f[k] = f[l] => k = l
    PROVE  /\ IsFiniteSet({f[k] : k \in S})
           /\ Cardinality({f[k] : k \in S}) = Cardinality(S)
<1> DEFINE g == [k \in S |-> f[k]]
           T == {f[k] : k \in S}
<1>1. g \in Surjection(S, T)
  BY DEF Surjection
<1>2. g \in Injection(S, T)
  BY DEF Injection, IsInjective
<1> HIDE DEF g, T
<1>3. IsFiniteSet(T) /\ Cardinality(T) = Cardinality(S)
  BY <1>1, <1>2, FS_Surjection
<1> QED
  BY <1>3 DEF T

----------------------------------------------------------------------------
(* The validation of a pair: files and counts.                             *)

LEMMA EntsProps ==
    ASSUME NEW S \in SUBSET Ents
    PROVE  IsFiniteSet(S) /\ Cardinality(S) \in Nat /\ S \subseteq Nat
<1>1. IsFiniteSet(Ents) /\ Ents \subseteq Nat
  BY RecordsAssumption, FS_Interval DEF Ents
<1>2. IsFiniteSet(S)
  BY <1>1, FS_Subset
<1> QED
  BY <1>1, <1>2, FS_CardinalityType

\* Every record of a set has one place in its file.
LEMMA NthProps ==
    ASSUME NEW S \in SUBSET Ents
    PROVE  /\ \A n \in 1 .. Cardinality(S) : Nth(S, n) \in S
           /\ \A n, l \in 1 .. Cardinality(S) : Nth(S, n) = Nth(S, l) => n = l
           /\ \A e \in S : \E n \in 1 .. Cardinality(S) : Nth(S, n) = e
<1> DEFINE R == {p \in S \X S : p[1] < p[2]}
           N == Cardinality(S)
<1>1. \A d, e \in S : <<d, e>> \in R <=> d < e
  OBVIOUS
<1>2. /\ \A e \in S : <<e, e>> \notin R
      /\ \A d, e \in S : d # e => <<d, e>> \in R \/ <<e, d>> \in R
      /\ \A d, e, f \in S : <<d, e>> \in R /\ <<e, f>> \in R => <<d, f>> \in R
  BY EntsProps
<1>3. \A e \in S : Rank(S, R, e) = Cardinality({d \in S : d < e})
  <2>1. \A e \in S : {d \in S : <<d, e>> \in R} = {d \in S : d < e}
    BY <1>1
  <2> QED
    BY <2>1 DEF Rank
<1> HIDE DEF R
<1>4. N \in Nat /\ IsFiniteSet(S)
  BY EntsProps
<1>5. /\ \A e \in S : Rank(S, R, e) \in 0 .. N - 1
      /\ \A d, e \in S : Rank(S, R, d) = Rank(S, R, e) => d = e
      /\ \A n \in 0 .. N - 1 : \E e \in S : Rank(S, R, e) = n
  <2>1. \A e \in S : Rank(S, R, e) \in 0 .. N - 1
    BY <1>2, <1>4, Ranks
  <2>2. \A d, e \in S : Rank(S, R, d) = Rank(S, R, e) => d = e
    BY <1>2, <1>4, Ranks
  <2>3. \A n \in 0 .. N - 1 : \E e \in S : Rank(S, R, e) = n
    BY <1>2, <1>4, Ranks
  <2> QED
    BY <2>1, <2>2, <2>3
<1> HIDE DEF N
<1>6. ASSUME NEW n \in 1 .. N PROVE Nth(S, n) \in S /\ Rank(S, R, Nth(S, n)) = n - 1
  <2>1. n - 1 \in 0 .. N - 1
    BY <1>4
  <2>2. \E e \in S : Cardinality({d \in S : d < e}) = n - 1
    BY <1>3, <1>5, <2>1
  <2>3. Nth(S, n) \in S /\ Cardinality({d \in S : d < Nth(S, n)}) = n - 1
    BY <2>2 DEF Nth
  <2> QED
    BY <1>3, <2>3
<1>7. ASSUME NEW n \in 1 .. N, NEW l \in 1 .. N, Nth(S, n) = Nth(S, l) PROVE n = l
  <2>1. n - 1 = l - 1
    BY <1>6, <1>7
  <2> QED
    BY <1>4, <2>1
<1>8. ASSUME NEW e \in S PROVE \E n \in 1 .. N : Nth(S, n) = e
  <2> DEFINE n == Rank(S, R, e) + 1
  <2>1. n \in 1 .. N /\ n - 1 = Rank(S, R, e)
    BY <1>4, <1>5
  <2> HIDE DEF n
  <2>2. Nth(S, n) = e
    BY <1>5, <1>6, <2>1
  <2> QED
    BY <2>1, <2>2
<1> QED
  BY <1>6, <1>7, <1>8 DEF N

\* The records some rows are about.
LEMMA RowsProps ==
    ASSUME NEW rows \in Seq(Rows)
    PROVE  /\ Len(rows) \in Nat /\ DOMAIN rows = 1 .. Len(rows)
           /\ EntsOf(Csv(rows)) \in SUBSET Ents
           /\ Cardinality(EntsOf(Csv(rows))) \in Nat
           /\ Cardinality(EntsOf(Csv(rows))) <= Len(rows)
           /\ (\A k, l \in 1 .. Len(rows) : rows[k].ent = rows[l].ent => k = l)
                => Cardinality(EntsOf(Csv(rows))) = Len(rows)
<1> DEFINE D == 1 .. Len(rows)
           E == EntsOf(Csv(rows))
           f == [k \in D |-> rows[k].ent]
<1>1. Len(rows) \in Nat /\ DOMAIN rows = D /\ \A k \in D : rows[k] \in Rows
  OBVIOUS
<1>2. Csv(rows).rows = rows
  BY DEF Csv
<1>3. E = {rows[k].ent : k \in D}
  BY <1>1, <1>2 DEF EntsOf
<1>4. E \in SUBSET Ents
  <2>1. \A r \in Rows : r.ent \in Ents
    BY DEF Rows
  <2> QED
    BY <1>1, <1>3, <2>1
<1>5. Cardinality(E) \in Nat
  <2> HIDE DEF E
  <2> QED
    BY <1>4, EntsProps, Zenon
<1>6. IsFiniteSet(D) /\ Cardinality(D) = Len(rows)
  <2> DEFINE N == Len(rows)
  <2>1. N \in Nat
    BY <1>1
  <2> HIDE DEF N
  <2>2. IsFiniteSet(1 .. N) /\ Cardinality(1 .. N) = N
    BY <2>1, FS_Interval
  <2> QED
    BY <2>2 DEF N
<1>7. f \in Surjection(D, E)
  BY <1>3 DEF Surjection
<1>8. Cardinality(E) <= Cardinality(D) /\ (Cardinality(E) = Cardinality(D) <=> f \in Injection(D, E))
  <2> HIDE DEF D, E, f
  <2> QED
    BY <1>6, <1>7, FS_Surjection
<1>9. (\A k, l \in D : rows[k].ent = rows[l].ent => k = l) => f \in Injection(D, E)
  BY <1>3 DEF Injection, IsInjective
<1> QED
  BY <1>1, <1>4, <1>5, <1>6, <1>8, <1>9

\* What is downloaded of the records of a set: some of its records, each of them once,
\* or all of them.
IsPartOf(file, S) ==
    /\ file.rows \in Seq(Rows)
    /\ \/ /\ EntsOf(file) \subseteq S
          /\ Len(file.rows) = Cardinality(EntsOf(file))
       \/ EntsOf(file) = S

LEMMA FileProps ==
    ASSUME NEW S \in SUBSET Ents
    PROVE  /\ File(S).rows \in Seq(Rows) /\ Len(File(S).rows) = Cardinality(S)
           /\ \A k \in 1 .. Cardinality(S) : File(S).rows[k].ent = Nth(S, k)
           /\ EntsOf(File(S)) = S
<1> DEFINE N == Cardinality(S)
           rows == [k \in 1 .. N |-> Whole(Nth(S, k))]
<1>1. N \in Nat
  BY EntsProps
<1>2. File(S).rows = rows
  BY DEF File, Csv
<1>3. \A e \in Ents : Whole(e) \in Rows /\ Whole(e).ent = e
  BY DEF Whole, Rows
<1>4. \A k \in 1 .. N : Nth(S, k) \in S
  BY NthProps
<1>5. rows \in [1 .. N -> Rows]
  BY <1>3, <1>4
<1>6. rows \in Seq(Rows) /\ Len(rows) = N /\ DOMAIN rows = 1 .. N
  BY <1>1, <1>5
<1>7. \A k \in 1 .. N : rows[k].ent = Nth(S, k)
  BY <1>3, <1>4
<1> HIDE DEF rows, N
<1>8. EntsOf(File(S)) = {Nth(S, k) : k \in 1 .. N}
  BY <1>2, <1>6, <1>7 DEF EntsOf
<1>9. {Nth(S, k) : k \in 1 .. N} = S
  <2>1. \A e \in S : \E k \in 1 .. N : Nth(S, k) = e
    BY NthProps DEF N
  <2> QED
    BY <1>4, <2>1
<1> QED
  BY <1>2, <1>6, <1>7, <1>8, <1>9 DEF N

\* Rows that are about the first records of a set are about each of them once.
LEMMA FirstRowsProps ==
    ASSUME NEW S \in SUBSET Ents, NEW rows \in Seq(Rows), Len(rows) <= Cardinality(S),
           \A k \in 1 .. Len(rows) : rows[k].ent = Nth(S, k), NEW kind
    PROVE  IsPartOf([kind |-> kind, rows |-> rows], S)
<1> DEFINE file == [kind |-> kind, rows |-> rows]
<1>1. file.rows = rows /\ EntsOf(file) = EntsOf(Csv(rows))
  BY DEF EntsOf, Csv
<1>2. Len(rows) \in Nat /\ DOMAIN rows = 1 .. Len(rows) /\ Cardinality(S) \in Nat
  BY RowsProps, EntsProps
<1>3. \A k \in 1 .. Len(rows) : k \in 1 .. Cardinality(S)
  BY <1>2
<1>4. \A k, l \in 1 .. Len(rows) : rows[k].ent = rows[l].ent => k = l
  BY <1>3, NthProps
<1>5. Len(rows) = Cardinality(EntsOf(Csv(rows)))
  BY <1>4, RowsProps
<1>6. EntsOf(file) \subseteq S
  <2>1. \A k \in 1 .. Len(rows) : rows[k].ent \in S
    BY <1>3, NthProps
  <2> QED
    BY <1>1, <1>2, <2>1 DEF EntsOf
<1> QED
  BY <1>1, <1>5, <1>6 DEF IsPartOf


LEMMA DownloadProps ==
    ASSUME NEW S \in SUBSET Ents, NEW file \in Downloads(S) \union {File(S)}
    PROVE  IsPartOf(file, S)
<1> DEFINE N == Cardinality(S)
           rows == File(S).rows
           Cut(k, form) == [SubSeq(rows, 1, k) EXCEPT ![k].form = form]
<1>1. /\ rows \in Seq(Rows) /\ Len(rows) = N /\ N \in Nat /\ DOMAIN rows = 1 .. N
      /\ \A k \in 1 .. N : rows[k].ent = Nth(S, k) /\ rows[k] \in Rows
      /\ EntsOf(File(S)) = S
  BY FileProps, EntsProps
<1>2. IsPartOf(File(S), S)
  BY <1>1 DEF IsPartOf
<1>3. ASSUME NEW r \in Rows, NEW form \in {"odd_quotes", "few_columns", "bad_field"}
      PROVE  [r EXCEPT !.form = form] \in Rows /\ [r EXCEPT !.form = form].ent = r.ent
  BY DEF Rows
<1> HIDE DEF rows, N
<1>4. ASSUME NEW k \in 0 .. N PROVE IsPartOf(Csv(SubSeq(rows, 1, k)), S)
  <2> DEFINE part == SubSeq(rows, 1, k)
  <2>1. part \in Seq(Rows) /\ Len(part) = k /\ k <= N /\ \A n \in 1 .. k : part[n] = rows[n] /\ n \in 1 .. N
    BY <1>1
  <2>2. \A n \in 1 .. k : part[n].ent = Nth(S, n)
    BY <1>1, <2>1
  <2> HIDE DEF part
  <2>3. IsPartOf([kind |-> "csv", rows |-> part], S)
    BY <2>1, <2>2, FirstRowsProps DEF N
  <2> QED
    BY <2>3 DEF Csv, part
<1>5. ASSUME NEW k \in 1 .. N, NEW form \in {"odd_quotes", "few_columns"}
      PROVE  IsPartOf(Csv(Cut(k, form)), S)
  <2> DEFINE part == SubSeq(rows, 1, k)
             cut == [part EXCEPT ![k].form = form]
  <2>1. /\ part \in Seq(Rows) /\ Len(part) = k /\ k <= N /\ DOMAIN part = 1 .. k
        /\ \A n \in 1 .. k : part[n] = rows[n] /\ n \in 1 .. N
    BY <1>1
  <2> HIDE DEF part
  <2>2. \A n \in 1 .. k : cut[n] \in Rows /\ cut[n].ent = Nth(S, n)
    <3> TAKE n \in 1 .. k
    <3>1. part[n] \in Rows /\ part[n].ent = Nth(S, n)
      BY <1>1, <2>1
    <3>2. cut[n] = IF n = k THEN [part[n] EXCEPT !.form = form] ELSE part[n]
      BY <2>1
    <3>3. /\ [part[n] EXCEPT !.form = form] \in Rows
          /\ [part[n] EXCEPT !.form = form].ent = part[n].ent
      BY <1>3, <3>1
    <3> HIDE DEF cut
    <3> QED
      BY <3>1, <3>2, <3>3
  <2>3. cut \in [1 .. k -> Rows] /\ Len(cut) = k
    BY <2>1, <2>2
  <2> HIDE DEF cut
  <2>4. cut \in Seq(Rows)
    BY <1>1, <2>3
  <2>5. IsPartOf([kind |-> "csv", rows |-> cut], S)
    BY <2>1, <2>2, <2>3, <2>4, FirstRowsProps DEF N
  <2> QED
    BY <2>5 DEF Csv, cut, part
<1>6. ASSUME NEW k \in 1 .. N PROVE IsPartOf(Csv([rows EXCEPT ![k].form = "bad_field"]), S)
  <2> DEFINE bad == [rows EXCEPT ![k].form = "bad_field"]
  <2>1. \A n \in 1 .. N : bad[n] \in Rows /\ bad[n].ent = Nth(S, n)
    <3> TAKE n \in 1 .. N
    <3>1. bad[n] = IF n = k THEN [rows[n] EXCEPT !.form = "bad_field"] ELSE rows[n]
      BY <1>1
    <3> HIDE DEF bad
    <3> QED
      BY <1>1, <1>3, <3>1
  <2>2. bad \in [1 .. N -> Rows] /\ Len(bad) = N
    BY <1>1, <2>1
  <2> HIDE DEF bad
  <2>3. bad \in Seq(Rows)
    BY <1>1, <2>2
  <2>4. IsPartOf([kind |-> "csv", rows |-> bad], S)
    BY <1>1, <2>1, <2>2, <2>3, FirstRowsProps DEF N
  <2> QED
    BY <2>4 DEF Csv, bad
<1>7. ASSUME NEW k \in 1 .. N PROVE IsPartOf(Csv(Append(rows, rows[k])), S)
  <2> DEFINE more == Append(rows, rows[k])
  <2>1. /\ more \in Seq(Rows) /\ DOMAIN more = 1 .. N + 1 /\ more[N + 1] = rows[k]
        /\ \A n \in 1 .. N : more[n] = rows[n]
        /\ \A n \in 1 .. N + 1 : n \in 1 .. N \/ n = N + 1
        /\ \A n \in 1 .. N : n \in 1 .. N + 1
    BY <1>1
  <2> HIDE DEF more
  <2>2. {more[n].ent : n \in 1 .. N + 1} = {rows[n].ent : n \in 1 .. N}
    <3>1. \A n \in 1 .. N + 1 : \E l \in 1 .. N : more[n].ent = rows[l].ent
      BY <2>1
    <3>2. \A n \in 1 .. N : \E l \in 1 .. N + 1 : rows[n].ent = more[l].ent
      BY <2>1
    <3> QED
      BY <3>1, <3>2
  <2>3. EntsOf(Csv(more)) = S
    BY <1>1, <2>1, <2>2 DEF EntsOf, Csv, rows
  <2> QED
    BY <2>1, <2>3 DEF IsPartOf, Csv, more
<1>8. ASSUME NEW page \in Pages PROVE IsPartOf(page, S)
  <2> DEFINE none == <<>>
  <2>1. none \in Seq(Rows) /\ Len(none) = 0 /\ 1 .. 0 = {}
    OBVIOUS
  <2>2. PICK kind : page = [kind |-> kind, rows |-> none]
    BY DEF Pages
  <2> HIDE DEF none
  <2>3. Len(none) <= N /\ \A k \in 1 .. Len(none) : none[k].ent = Nth(S, k)
    BY <1>1, <2>1
  <2> QED
    BY <2>1, <2>2, <2>3, FirstRowsProps DEF N
<1>9. \/ \E k \in 0 .. N : file = Csv(SubSeq(rows, 1, k))
      \/ \E k \in 1 .. N, form \in {"odd_quotes", "few_columns"} : file = Csv(Cut(k, form))
      \/ \E k \in 1 .. N : file = Csv([rows EXCEPT ![k].form = "bad_field"])
      \/ \E k \in 1 .. N : file = Csv(Append(rows, rows[k]))
      \/ file \in Pages
      \/ file = File(S)
  <2> DEFINE Prefixes == {Csv(SubSeq(rows, 1, k)) : k \in 0 .. Len(rows)}
             Cuts == {Csv(Cut(k, f)) : k \in DOMAIN rows, f \in {"odd_quotes", "few_columns"}}
             Bad == {Csv([rows EXCEPT ![k].form = "bad_field"]) : k \in DOMAIN rows}
             More == {Csv(Append(rows, rows[k])) : k \in DOMAIN rows}
  <2>1. Downloads(S) = Prefixes \union Cuts \union Bad \union More \union Pages
    BY DEF Downloads, rows
  <2>2. file \in Prefixes => \E k \in 0 .. N : file = Csv(SubSeq(rows, 1, k))
    BY <1>1
  <2>3. file \in Cuts => \E k \in 1 .. N, form \in {"odd_quotes", "few_columns"} : file = Csv(Cut(k, form))
    <3> HIDE DEF Cut
    <3> QED
      BY <1>1
  <2>4. file \in Bad => \E k \in 1 .. N : file = Csv([rows EXCEPT ![k].form = "bad_field"])
    BY <1>1
  <2>5. file \in More => \E k \in 1 .. N : file = Csv(Append(rows, rows[k]))
    BY <1>1
  <2> HIDE DEF Prefixes, Cuts, Bad, More, Cut
  <2> QED
    BY <2>1, <2>2, <2>3, <2>4, <2>5
<1> HIDE DEF Cut
<1> QED
  BY <1>2, <1>4, <1>5, <1>6, <1>7, <1>8, <1>9


----------------------------------------------------------------------------
(* The validation of a pair: what is accepted.                             *)

\* A file is accepted row by row, and by its records.
LEMMA RowsAccepted ==
    ASSUME NEW file, file.rows \in Seq(Rows), RowsRejected(file) = "none", ~Has(file, "bad_field")
    PROVE  file.rows # <<>> /\ \A k \in DOMAIN file.rows : file.rows[k].form = "whole"
<1>1. file.rows # <<>>
  BY DEF RowsRejected
<1>2. ~Has(file, "odd_quotes")
  BY <1>1 DEF RowsRejected
<1>3. ~Has(file, "few_columns")
  BY <1>1, <1>2 DEF RowsRejected
<1>4. \A k \in DOMAIN file.rows : file.rows[k].form \in {"whole", "odd_quotes", "few_columns", "bad_field"}
  <2>1. \A k \in DOMAIN file.rows : file.rows[k] \in Rows
    OBVIOUS
  <2>2. \A r \in Rows : r.form \in {"whole", "odd_quotes", "few_columns", "bad_field"}
    BY DEF Rows
  <2> QED
    BY <2>1, <2>2
<1> QED
  BY <1>1, <1>2, <1>3, <1>4 DEF Has

LEMMA PairAccepted ==
    ASSUME NEW sdn, NEW alt, NEW previous, PairRejected(sdn, alt, previous) = "none"
    PROVE  /\ ~(Stats(sdn, alt).sdn < MinSdn) /\ ~(Stats(sdn, alt).alt < MinAlt)
           /\ ~(100 * Orphans(sdn, alt) > MaxOrphans * Stats(sdn, alt).alt)
           /\ ~Shrunk(Stats(sdn, alt).sdn, previous.sdn) /\ ~Shrunk(Stats(sdn, alt).alt, previous.alt)
<1> DEFINE few == Stats(sdn, alt).sdn < MinSdn \/ Stats(sdn, alt).alt < MinAlt
           mismatched == 100 * Orphans(sdn, alt) > MaxOrphans * Stats(sdn, alt).alt
           shrunk == Shrunk(Stats(sdn, alt).sdn, previous.sdn) \/ Shrunk(Stats(sdn, alt).alt, previous.alt)
<1>1. PairRejected(sdn, alt, previous) =
        CASE few -> "too_few_records"
          [] mismatched -> "alias_primary_mismatch"
          [] shrunk -> "implausible_reduction"
          [] OTHER -> "none"
  BY DEF PairRejected
<1>2. ~few /\ ~mismatched /\ ~shrunk
  <2> HIDE DEF few, mismatched, shrunk
  <2>1. CASE few
    BY <1>1, <2>1
  <2>2. CASE ~few
    BY <1>1, <2>2
  <2> QED
    BY <2>1, <2>2
<1> QED
  BY <1>2

LEMMA JudgedAccepted ==
    ASSUME NEW sdn, NEW alt, sdn.rows \in Seq(Rows), alt.rows \in Seq(Rows), Judged(sdn, alt) = "none"
    PROVE  /\ sdn.rows # <<>> /\ \A k \in DOMAIN sdn.rows : sdn.rows[k].form = "whole"
           /\ alt.rows # <<>> /\ \A k \in DOMAIN alt.rows : alt.rows[k].form = "whole"
           /\ ~Twice(sdn)
           /\ PairRejected(sdn, alt, Stats(Csv(inUse.sdn), Csv(inUse.alt))) = "none"
<1> DEFINE previous == Stats(Csv(inUse.sdn), Csv(inUse.alt))
<1>1. validateOfacDataset(sdn, alt, previous) = "none"
  BY DEF Judged
<1> HIDE DEF previous
<1>2. RowsRejected(sdn) = "none"
  BY <1>1 DEF validateOfacDataset
<1>3. ~Has(sdn, "bad_field")
  BY <1>1, <1>2 DEF validateOfacDataset
<1>4. ~Twice(sdn)
  BY <1>1, <1>2, <1>3 DEF validateOfacDataset
<1>5. RowsRejected(alt) = "none"
  BY <1>1, <1>2, <1>3, <1>4 DEF validateOfacDataset
<1>6. ~Has(alt, "bad_field")
  BY <1>1, <1>2, <1>3, <1>4, <1>5 DEF validateOfacDataset
<1>7. PairRejected(sdn, alt, previous) = "none"
  BY <1>1, <1>2, <1>3, <1>4, <1>5, <1>6 DEF validateOfacDataset
<1>8. sdn.rows # <<>> /\ \A k \in DOMAIN sdn.rows : sdn.rows[k].form = "whole"
  BY <1>2, <1>3, RowsAccepted
<1>9. alt.rows # <<>> /\ \A k \in DOMAIN alt.rows : alt.rows[k].form = "whole"
  BY <1>5, <1>6, RowsAccepted
<1> QED
  BY <1>4, <1>7, <1>8, <1>9 DEF previous

LEMMA JudgedProps == \A sdn, alt : Judged(sdn, alt) \in Reasons \union {"none"}
<1>1. \A file : RowsRejected(file) \in Reasons \union {"none"}
  BY DEF RowsRejected, Reasons
<1>2. \A sdn, alt, previous : PairRejected(sdn, alt, previous) \in Reasons \union {"none"}
  BY DEF PairRejected, Reasons
<1>3. \A sdn, alt, previous : validateOfacDataset(sdn, alt, previous) \in Reasons \union {"none"}
  <2> TAKE sdn, alt, previous
  <2>1. "invalid_record" \in Reasons /\ "duplicate_record" \in Reasons
    BY DEF Reasons
  <2> HIDE DEF Reasons
  <2> QED
    BY <1>1, <1>2, <2>1 DEF validateOfacDataset
<1>4. "unexpected_content_type" \in Reasons
  BY DEF Reasons
<1> QED
  BY <1>3, <1>4 DEF Judged

\* What a list has lost, if it has not shrunk too much.
LEMMA LossProps ==
    ASSUME NEW P \in SUBSET Ents, NEW E \in SUBSET Ents, NEW old \in Nat, Cardinality(P) <= old,
           P \subseteq E \/ (E \subseteq P /\ ~Shrunk(Cardinality(E), old))
    PROVE  100 * Cardinality(P \ E) <= MaxReduction * Cardinality(P)
<1> DEFINE p == Cardinality(P)
           e == Cardinality(E)
           lost == Cardinality(P \ E)
<1>1. IsFiniteSet(P) /\ IsFiniteSet(E) /\ p \in Nat /\ e \in Nat
  BY EntsProps
<1>2. MaxReduction \in 0 .. 100
  BY RecordsAssumption
<1>3. CASE P \subseteq E
  <2>1. P \ E = {}
    BY <1>3
  <2>2. lost = 0
    BY <2>1, FS_EmptySet
  <2>3. MaxReduction * p \in Nat
    BY <1>1, <1>2
  <2> HIDE DEF lost, p
  <2>4. 100 * lost <= MaxReduction * p
    BY <2>2, <2>3
  <2> QED
    BY <2>4 DEF lost, p
<1>4. CASE E \subseteq P /\ ~Shrunk(Cardinality(E), old)
  <2> DEFINE D == P \ E
  <2>1. IsFiniteSet(D) /\ lost \in Nat
    <3>1. D \in SUBSET P
      OBVIOUS
    <3>2. IsFiniteSet(D)
      BY <1>1, <3>1, FS_Subset
    <3> QED
      BY <3>2, FS_CardinalityType
  <2>2. E \union D = P /\ E \intersect D = {}
    BY <1>4
  <2> HIDE DEF D
  <2>3. Cardinality(E \union D) = Cardinality(E) + Cardinality(D) - Cardinality(E \intersect D)
    BY <1>1, <2>1, FS_Union
  <2>4. p = e + lost
    <3>1. Cardinality(E \intersect D) = 0
      BY <2>2, FS_EmptySet
    <3>2. p = e + Cardinality(D) - 0
      BY <2>2, <2>3, <3>1
    <3>3. Cardinality(D) = lost
      BY DEF D
    <3> HIDE DEF p, e, lost
    <3> QED
      BY <1>1, <2>1, <3>2, <3>3
  <2>5. ~(100 * e < (100 - MaxReduction) * old)
    BY <1>4 DEF Shrunk
  <2>6. p <= old
    OBVIOUS
  <2> HIDE DEF p, e, lost
  <2>7. PICK keep \in Nat : keep = 100 - MaxReduction
    BY <1>2
  <2>8. keep * p <= keep * old
    BY <1>1, <2>6, <2>7, SMT
  <2>9. keep * p <= 100 * e
    <3>1. keep * old \in Int /\ keep * p \in Int
      BY <1>1, <2>7
    <3> QED
      BY <1>1, <2>5, <2>7, <2>8, <3>1
  <2>10. keep * p + MaxReduction * p = 100 * p
    BY <1>1, <1>2, <2>7, SMT
  <2>11. 100 * lost <= MaxReduction * p
    <3>1. keep * p \in Int /\ MaxReduction * p \in Int
      BY <1>1, <1>2, <2>7
    <3> QED
      BY <1>1, <2>1, <2>4, <2>9, <2>10, <3>1
  <2> QED
    BY <2>11 DEF p, lost
<1> QED
  BY <1>3, <1>4

----------------------------------------------------------------------------
(* The validation of a pair: the inductive invariant.                      *)

\* What was published last is a record or an alias apart from what was before.
OneApart ==
    \E e \in Ents : before.sdn \ {e} = published.sdn \ {e} /\ before.alt \ {e} = published.alt \ {e}

ValidationIInv == ValidationTypeOK /\ WholeRecordsOnly /\ OneApart

\* The files a refresh takes are of what is published, or complete ones of before.
LEMMA RefreshedFiles ==
    ASSUME NEW P \in SUBSET Ents, NEW B \in SUBSET Ents, NEW e, B \ {e} = P \ {e},
           NEW file \in Downloads(P) \union {File(B)}
    PROVE  /\ file.rows \in Seq(Rows)
           /\ \/ P \subseteq EntsOf(file)
              \/ EntsOf(file) \subseteq P /\ Len(file.rows) = Cardinality(EntsOf(file))
<1>1. CASE file \in Downloads(P)
  <2>1. IsPartOf(file, P)
    BY <1>1, DownloadProps
  <2> QED
    BY <2>1 DEF IsPartOf
<1>2. CASE file = File(B)
  <2>1. file.rows \in Seq(Rows) /\ Len(file.rows) = Cardinality(EntsOf(file)) /\ EntsOf(file) = B
    BY <1>2, FileProps
  <2>2. P \subseteq B \/ B \subseteq P
    OBVIOUS
  <2> QED
    BY <2>1, <2>2
<1> QED
  BY <1>1, <1>2

\* An accepted refresh: its files, and what was checked about them.
LEMMA RefreshAccepted ==
    ASSUME ValidationIInv, Refresh, inUse' # inUse
    PROVE  \E sdn, alt :
            /\ inUse' = [sdn |-> sdn.rows, alt |-> alt.rows]
            /\ Judged(sdn, alt) = "none"
            /\ sdn.rows \in Seq(Rows) /\ alt.rows \in Seq(Rows)
            /\ \/ published.sdn \subseteq EntsOf(sdn)
               \/ EntsOf(sdn) \subseteq published.sdn /\ Len(sdn.rows) = Cardinality(EntsOf(sdn))
            /\ \/ published.alt \subseteq EntsOf(alt)
               \/ EntsOf(alt) \subseteq published.alt /\ Len(alt.rows) = Cardinality(EntsOf(alt))
<1>1. PICK sdn \in Downloads(published.sdn) \union {File(before.sdn)},
           alt \in Downloads(published.alt) \union {File(before.alt)} :
        /\ verdict' = Judged(sdn, alt)
        /\ inUse' = IF verdict' = "none" THEN [sdn |-> sdn.rows, alt |-> alt.rows] ELSE inUse
  BY DEF Refresh
<1>2. /\ published.sdn \in SUBSET Ents /\ published.alt \in SUBSET Ents
      /\ before.sdn \in SUBSET Ents /\ before.alt \in SUBSET Ents
  BY DEF ValidationIInv, ValidationTypeOK, Publications
<1>3. PICK e \in Ents : before.sdn \ {e} = published.sdn \ {e} /\ before.alt \ {e} = published.alt \ {e}
  BY DEF ValidationIInv, OneApart
<1>4. /\ sdn.rows \in Seq(Rows)
      /\ \/ published.sdn \subseteq EntsOf(sdn)
         \/ EntsOf(sdn) \subseteq published.sdn /\ Len(sdn.rows) = Cardinality(EntsOf(sdn))
  BY <1>1, <1>2, <1>3, RefreshedFiles
<1>5. /\ alt.rows \in Seq(Rows)
      /\ \/ published.alt \subseteq EntsOf(alt)
         \/ EntsOf(alt) \subseteq published.alt /\ Len(alt.rows) = Cardinality(EntsOf(alt))
  BY <1>1, <1>2, <1>3, RefreshedFiles
<1>6. Judged(sdn, alt) = "none" /\ inUse' = [sdn |-> sdn.rows, alt |-> alt.rows]
  BY <1>1
<1> QED
  BY <1>4, <1>5, <1>6


LEMMA ValidationInitIInv == ValidationInit => ValidationIInv
<1> SUFFICES ASSUME ValidationInit PROVE ValidationIInv
  OBVIOUS
<1>1. /\ published \in Publications /\ before = published /\ inUse.sdn = <<>> /\ inUse.alt = <<>>
      /\ verdict = "not_loaded"
  BY DEF ValidationInit
<1>2. <<>> \in Seq(Rows) /\ DOMAIN <<>> = {} /\ Len(<<>>) = 0
  OBVIOUS
<1>3. EntsOf(Csv(<<>>)) = {}
  BY <1>2 DEF EntsOf, Csv
<1>4. ValidationTypeOK
  BY <1>1, <1>2 DEF ValidationTypeOK, Loaded
<1>5. WholeRecordsOnly
  BY <1>1, <1>2, <1>3, FS_EmptySet DEF WholeRecordsOnly, Records
<1>6. OneApart
  <2>1. 1 \in Ents
    BY RecordsAssumption DEF Ents
  <2> QED
    BY <1>1, <2>1 DEF OneApart
<1> QED
  BY <1>4, <1>5, <1>6 DEF ValidationIInv

LEMMA PublishStep == ValidationIInv /\ ValidationPublish => ValidationIInv'
<1> SUFFICES ASSUME ValidationIInv, ValidationPublish PROVE ValidationIInv'
  OBVIOUS
<1>1. PICK p \in Publications, e \in Ents :
        /\ p.sdn \ {e} = published.sdn \ {e} /\ p.alt \ {e} = published.alt \ {e}
        /\ published' = p
  BY DEF ValidationPublish
<1>2. before' = published /\ inUse' = inUse /\ verdict' = verdict
  BY DEF ValidationPublish
<1>3. OneApart'
  BY <1>1, <1>2 DEF OneApart
<1>4. ValidationTypeOK'
  BY <1>1, <1>2 DEF ValidationIInv, ValidationTypeOK, Loaded, Records
<1>5. WholeRecordsOnly'
  BY <1>2 DEF ValidationIInv, WholeRecordsOnly, Records
<1> QED
  BY <1>3, <1>4, <1>5 DEF ValidationIInv

LEMMA RefreshStep == ValidationIInv /\ Refresh => ValidationIInv'
<1> SUFFICES ASSUME ValidationIInv, Refresh PROVE ValidationIInv'
  OBVIOUS
<1>1. published' = published /\ before' = before
  BY DEF Refresh
<1>2. verdict' \in Reasons \union {"none", "not_loaded"}
  BY JudgedProps DEF Refresh
<1>3. OneApart'
  BY <1>1 DEF ValidationIInv, OneApart
<1>4. CASE inUse' = inUse
  <2>1. ValidationTypeOK'
    BY <1>1, <1>2, <1>4 DEF ValidationIInv, ValidationTypeOK, Loaded, Records
  <2>2. WholeRecordsOnly'
    BY <1>4 DEF ValidationIInv, WholeRecordsOnly, Records
  <2> QED
    BY <1>3, <2>1, <2>2 DEF ValidationIInv
<1>5. CASE inUse' # inUse
  <2>1. PICK sdn, alt :
          /\ inUse' = [sdn |-> sdn.rows, alt |-> alt.rows]
          /\ Judged(sdn, alt) = "none"
          /\ sdn.rows \in Seq(Rows) /\ alt.rows \in Seq(Rows)
    BY <1>5, RefreshAccepted
  <2>2. /\ sdn.rows # <<>> /\ \A k \in DOMAIN sdn.rows : sdn.rows[k].form = "whole"
        /\ alt.rows # <<>> /\ \A k \in DOMAIN alt.rows : alt.rows[k].form = "whole"
        /\ ~Twice(sdn)
        /\ PairRejected(sdn, alt, Stats(Csv(inUse.sdn), Csv(inUse.alt))) = "none"
    BY <2>1, JudgedAccepted
  <2>3. EntsOf(sdn) = EntsOf(Csv(sdn.rows))
    BY DEF EntsOf, Csv
  <2>4. inUse'.sdn = sdn.rows /\ inUse'.alt = alt.rows
    BY <2>1
  <2>5. ~(Cardinality(EntsOf(sdn)) < MinSdn) /\ ~(Len(alt.rows) < MinAlt)
    BY <2>2, PairAccepted DEF Stats
  <2>6. /\ Len(sdn.rows) \in Nat /\ Len(alt.rows) \in Nat /\ Cardinality(EntsOf(sdn)) \in Nat
        /\ Cardinality(EntsOf(sdn)) <= Len(sdn.rows)
    BY <2>1, <2>3, RowsProps
  <2>7. Cardinality(EntsOf(sdn)) = Len(sdn.rows)
    BY <2>2, <2>6 DEF Twice
  <2>8. Cardinality(EntsOf(sdn)) >= MinSdn /\ Len(alt.rows) >= MinAlt
    BY <2>5, <2>6, RecordsAssumption
  <2>9. ValidationTypeOK'
    BY <1>1, <1>2, <2>1, <2>3, <2>4, <2>8 DEF ValidationIInv, ValidationTypeOK, Loaded, Records
  <2>10. WholeRecordsOnly'
    BY <2>2, <2>3, <2>4, <2>7 DEF WholeRecordsOnly, Records
  <2> QED
    BY <1>3, <2>9, <2>10 DEF ValidationIInv
<1> QED
  BY <1>4, <1>5

LEMMA ValidationInvariance == ValidationSpec => []ValidationIInv
<1>1. ValidationIInv /\ [ValidationNext]_validationVars => ValidationIInv'
  <2>1. ValidationIInv /\ UNCHANGED validationVars => ValidationIInv'
    BY DEF validationVars, ValidationIInv, ValidationTypeOK, WholeRecordsOnly, OneApart, Loaded, Records
  <2> QED
    BY <2>1, PublishStep, RefreshStep DEF ValidationNext
<1> QED
  BY <1>1, ValidationInitIInv, PTL DEF ValidationSpec

----------------------------------------------------------------------------
(* The validation of a pair: what an accepted pair may have lost.          *)

\* Each aliased record that was lost has a row of its own among the orphans.
LEMMA AliasesKept ==
    ASSUME ValidationIInv, Refresh, inUse' # inUse, EntsOf(Csv(inUse'.alt)) = published.alt
    PROVE  100 * Cardinality(published.alt \ EntsOf(Csv(inUse'.sdn))) <= MaxOrphans * Len(inUse'.alt)
<1>1. PICK sdn, alt :
        /\ inUse' = [sdn |-> sdn.rows, alt |-> alt.rows]
        /\ Judged(sdn, alt) = "none"
        /\ sdn.rows \in Seq(Rows) /\ alt.rows \in Seq(Rows)
  BY RefreshAccepted
<1>2. PairRejected(sdn, alt, Stats(Csv(inUse.sdn), Csv(inUse.alt))) = "none"
  BY <1>1, JudgedAccepted
<1>3. ~(100 * Orphans(sdn, alt) > MaxOrphans * Len(alt.rows))
  BY <1>2, PairAccepted DEF Stats
<1>4. /\ inUse'.sdn = sdn.rows /\ inUse'.alt = alt.rows
      /\ EntsOf(sdn) = EntsOf(Csv(sdn.rows)) /\ EntsOf(alt) = EntsOf(Csv(alt.rows))
  BY <1>1 DEF EntsOf, Csv
<1> DEFINE orphans == {k \in DOMAIN alt.rows : alt.rows[k].ent \notin EntsOf(sdn)}
           lost == published.alt \ EntsOf(sdn)
           about == [k \in orphans |-> alt.rows[k].ent]
<1>5. about \in Surjection(orphans, lost)
  <2>1. EntsOf(alt) = {alt.rows[k].ent : k \in DOMAIN alt.rows} /\ EntsOf(alt) = published.alt
    BY <1>4 DEF EntsOf
  <2>2. \A k \in orphans : about[k] \in lost
    BY <2>1
  <2>3. \A e \in lost : \E k \in orphans : about[k] = e
    BY <2>1
  <2> QED
    BY <2>2, <2>3 DEF Surjection
<1>6. IsFiniteSet(orphans)
  <2> DEFINE N == Len(alt.rows)
  <2>1. N \in Nat /\ DOMAIN alt.rows = 1 .. N
    BY <1>1, RowsProps
  <2>2. orphans \in SUBSET (1 .. N)
    BY <2>1
  <2> HIDE DEF N, orphans
  <2>3. IsFiniteSet(1 .. N)
    BY <2>1, FS_Interval
  <2> QED
    BY <2>2, <2>3, FS_Subset
<1>7. Orphans(sdn, alt) = Cardinality(orphans)
  BY DEF Orphans
<1> HIDE DEF orphans, lost, about
<1>8. Cardinality(lost) <= Cardinality(orphans) /\ IsFiniteSet(lost)
  BY <1>5, <1>6, FS_Surjection
<1>9. Cardinality(lost) \in Nat /\ Cardinality(orphans) \in Nat
  BY <1>6, <1>8, FS_CardinalityType
<1>10. MaxOrphans * Len(alt.rows) \in Int
  BY <1>1, RowsProps, RecordsAssumption
<1>11. 100 * Cardinality(lost) <= MaxOrphans * Len(alt.rows)
  BY <1>3, <1>7, <1>8, <1>9, <1>10
<1> QED
  BY <1>4, <1>11 DEF lost

LEMMA LossBounded ==
    ASSUME ValidationIInv, [ValidationNext]_validationVars,
           Records = published.sdn, Aliased = published.alt, Loaded, inUse' # inUse
    PROVE  /\ 100 * Cardinality(published.sdn \ EntsOf(Csv(inUse'.sdn))) <= MaxReduction * Cardinality(published.sdn)
           /\ 100 * Cardinality(published.alt \ EntsOf(Csv(inUse'.alt))) <= MaxReduction * Cardinality(published.alt)
<1>1. Refresh
  BY DEF ValidationNext, ValidationPublish, validationVars
<1>2. PICK sdn, alt :
        /\ inUse' = [sdn |-> sdn.rows, alt |-> alt.rows]
        /\ Judged(sdn, alt) = "none"
        /\ sdn.rows \in Seq(Rows) /\ alt.rows \in Seq(Rows)
        /\ \/ published.sdn \subseteq EntsOf(sdn)
           \/ EntsOf(sdn) \subseteq published.sdn /\ Len(sdn.rows) = Cardinality(EntsOf(sdn))
        /\ \/ published.alt \subseteq EntsOf(alt)
           \/ EntsOf(alt) \subseteq published.alt /\ Len(alt.rows) = Cardinality(EntsOf(alt))
  BY <1>1, RefreshAccepted
<1> DEFINE previous == Stats(Csv(inUse.sdn), Csv(inUse.alt))
<1>3. PairRejected(sdn, alt, previous) = "none"
  BY <1>2, JudgedAccepted
<1>4. previous.sdn = Cardinality(Records) /\ previous.alt = Len(inUse.alt)
  BY DEF Stats, Records, Csv
<1> HIDE DEF previous
<1>5. ~Shrunk(Cardinality(EntsOf(sdn)), previous.sdn) /\ ~Shrunk(Len(alt.rows), previous.alt)
  BY <1>3, PairAccepted DEF Stats
<1>6. /\ inUse'.sdn = sdn.rows /\ inUse'.alt = alt.rows
      /\ EntsOf(sdn) = EntsOf(Csv(sdn.rows)) /\ EntsOf(alt) = EntsOf(Csv(alt.rows))
  BY <1>2 DEF EntsOf, Csv
<1>7. EntsOf(sdn) \in SUBSET Ents /\ EntsOf(alt) \in SUBSET Ents
  BY <1>2, <1>6, RowsProps
<1>8. /\ published.sdn \in SUBSET Ents /\ published.alt \in SUBSET Ents
      /\ inUse.sdn \in Seq(Rows) /\ inUse.alt \in Seq(Rows)
  BY DEF ValidationIInv, ValidationTypeOK, Publications
<1>9. /\ previous.sdn \in Nat /\ Cardinality(published.sdn) <= previous.sdn
      /\ previous.alt \in Nat /\ Cardinality(published.alt) <= previous.alt
  <2>1. Cardinality(published.sdn) \in Nat /\ previous.sdn = Cardinality(published.sdn)
    BY <1>4, <1>8, EntsProps
  <2>2. Cardinality(published.alt) <= Len(inUse.alt) /\ Len(inUse.alt) \in Nat
    BY <1>8, RowsProps DEF Aliased
  <2> QED
    BY <1>4, <2>1, <2>2
<1>10. 100 * Cardinality(published.sdn \ EntsOf(sdn)) <= MaxReduction * Cardinality(published.sdn)
  BY <1>2, <1>5, <1>7, <1>8, <1>9, LossProps
<1>11. 100 * Cardinality(published.alt \ EntsOf(alt)) <= MaxReduction * Cardinality(published.alt)
  <2>1. \/ published.alt \subseteq EntsOf(alt)
        \/ EntsOf(alt) \subseteq published.alt /\ ~Shrunk(Cardinality(EntsOf(alt)), previous.alt)
    BY <1>2, <1>5
  <2> QED
    BY <1>7, <1>8, <1>9, <2>1, LossProps
<1> QED
  BY <1>6, <1>10, <1>11

\* What the service screens against is of whole records and lost no more than the rules
\* tolerate, over any sequence of publications and damaged downloads of any number of
\* records, for any thresholds (validateOfacDataset).
THEOREM PairIsWholeHolds == ValidationSpec => PairIsWhole
<1>1. ValidationSpec => [](ValidationTypeOK /\ WholeRecordsOnly)
  <2>1. ValidationIInv => ValidationTypeOK /\ WholeRecordsOnly
    BY DEF ValidationIInv
  <2> QED
    BY <2>1, ValidationInvariance, PTL
<1>2. ValidationSpec => AliasesKeepRecords
  <2>1. ValidationIInv /\ [ValidationNext]_validationVars =>
          [inUse' # inUse /\ EntsOf(Csv(inUse'.alt)) = published.alt
             => 100 * Cardinality(published.alt \ EntsOf(Csv(inUse'.sdn)))
                  <= MaxOrphans * Len(inUse'.alt)]_validationVars
    <3>1. ValidationIInv /\ [ValidationNext]_validationVars /\ inUse' # inUse => Refresh
      BY DEF ValidationNext, ValidationPublish, validationVars
    <3> QED
      BY <3>1, AliasesKept
  <2> QED
    BY <2>1, ValidationInvariance, PTL DEF ValidationSpec, AliasesKeepRecords
<1>3. ValidationSpec => LossIsBounded
  <2>1. ValidationIInv /\ [ValidationNext]_validationVars =>
          [Records = published.sdn /\ Aliased = published.alt /\ Loaded
             => /\ 100 * Cardinality(published.sdn \ EntsOf(Csv(inUse'.sdn)))
                     <= MaxReduction * Cardinality(published.sdn)
                /\ 100 * Cardinality(published.alt \ EntsOf(Csv(inUse'.alt)))
                     <= MaxReduction * Cardinality(published.alt)]_inUse
    BY LossBounded
  <2> QED
    BY <2>1, ValidationInvariance, PTL DEF ValidationSpec, LossIsBounded
<1> QED
  BY <1>1, <1>2, <1>3 DEF PairIsWhole

----------------------------------------------------------------------------
(* Induction over sets of numbers, and what is defined by recursion.       *)

\* Induction without a predicate: a set of numbers that has 0, and with each its
\* successor, has them all.
LEMMA Induction ==
    ASSUME NEW N \in Nat, NEW S \in SUBSET (0 .. N), 0 \in S,
           \A k \in 0 .. N - 1 : k \in S => k + 1 \in S
    PROVE  S = 0 .. N
<1> DEFINE T == (0 .. N) \ S
<1>1. ASSUME T # {} PROVE FALSE
  <2>1. T \in SUBSET Nat
    OBVIOUS
  <2>2. PICK k \in T : \A l \in T : k <= l
    BY <1>1, <2>1, LeastNatural
  <2>3. k \in 1 .. N /\ k \notin S /\ k - 1 \in 0 .. N - 1 /\ k - 1 + 1 = k
    OBVIOUS
  <2>4. k - 1 \in S
    BY <2>2, <2>3
  <2> QED
    BY <2>3, <2>4
<1> QED
  BY <1>1

\* What a step is repeated to from a start.
IsRepeated(f, N, start, step) ==
    f = [k \in 0 .. N |-> IF k = 0 THEN start ELSE step[<<k, f[k - 1]>>]]

LEMMA Repeated ==
    ASSUME NEW V, NEW start \in V, NEW N \in Nat, NEW step \in [(1 .. N) \X V -> V]
    PROVE  \E f \in [0 .. N -> V] : IsRepeated(f, N, start, step)
<1> DEFINE S == {n \in 0 .. N : \E f \in [0 .. n -> V] : IsRepeated(f, n, start, step)}
<1>1. 0 \in S
  <2> DEFINE f == [k \in 0 .. 0 |-> start]
  <2>1. f \in [0 .. 0 -> V] /\ \A k \in 0 .. 0 : k = 0 /\ f[k] = start
    OBVIOUS
  <2> HIDE DEF f
  <2>2. f = [k \in 0 .. 0 |-> f[k]]
    BY <2>1
  <2>3. \A k \in 0 .. 0 : f[k] = IF k = 0 THEN start ELSE step[<<k, f[k - 1]>>]
    BY <2>1
  <2>4. IsRepeated(f, 0, start, step)
    BY <2>2, <2>3 DEF IsRepeated
  <2> QED
    BY <2>1, <2>4
<1>2. ASSUME NEW n \in 0 .. N - 1, n \in S PROVE n + 1 \in S
  <2>1. PICK f \in [0 .. n -> V] : IsRepeated(f, n, start, step)
    BY <1>2
  <2> DEFINE g == [k \in 0 .. n + 1 |-> IF k = n + 1 THEN step[<<n + 1, f[n]>>] ELSE f[k]]
  <2>2. n \in 0 .. n /\ n + 1 \in 1 .. N /\ f[n] \in V /\ step[<<n + 1, f[n]>>] \in V
    OBVIOUS
  <2>3. g \in [0 .. n + 1 -> V]
    BY <2>2
  <2>4. ASSUME NEW k \in 0 .. n + 1
        PROVE  g[k] = IF k = 0 THEN start ELSE step[<<k, g[k - 1]>>]
    <3>1. CASE k = n + 1
      <4>1. g[n + 1] = step[<<n + 1, f[n]>>] /\ g[n] = f[n] /\ n + 1 # 0 /\ n + 1 - 1 = n
        BY <2>2
      <4> HIDE DEF g
      <4>2. k # 0 /\ k - 1 = n /\ g[k] = g[n + 1] /\ g[k - 1] = g[n]
        BY <3>1, <4>1
      <4>3. g[k] = step[<<k, g[k - 1]>>]
        BY <3>1, <4>1, <4>2
      <4> QED
        BY <4>2, <4>3
    <3>2. CASE k # n + 1
      <4>1. k \in 0 .. n /\ g[k] = f[k]
        BY <3>2
      <4>2. f[k] = IF k = 0 THEN start ELSE step[<<k, f[k - 1]>>]
        BY <2>1, <4>1 DEF IsRepeated
      <4>3. k # 0 => g[k - 1] = f[k - 1]
        BY <4>1
      <4> QED
        BY <4>1, <4>2, <4>3
    <3> QED
      BY <3>1, <3>2
  <2> HIDE DEF g
  <2>5. DOMAIN g = 0 .. n + 1 /\ g = [k \in 0 .. n + 1 |-> g[k]]
    BY <2>3
  <2>6. IsRepeated(g, n + 1, start, step)
    BY <2>4, <2>5 DEF IsRepeated
  <2> QED
    BY <2>3, <2>6
<1>3. S = 0 .. N
  <2> HIDE DEF S
  <2>1. S \in SUBSET (0 .. N)
    BY DEF S
  <2> QED
    BY <1>1, <1>2, <2>1, Induction
<1> QED
  BY <1>3

----------------------------------------------------------------------------
(* Name matching: normal forms.                                            *)

NormalForms == Seq(Seq(Letters) \ {<<>>})

KeptLetters(name) == {name[k].letters : k \in {l \in DOMAIN name : name[l].script # "foreign"}}

\* A normal form has the words of the name but those in foreign letters.
LEMMA NormalProps ==
    ASSUME NEW name, IsName(name)
    PROVE  /\ normalizeName(name) \in NormalForms
           /\ Range(normalizeName(name)) = KeptLetters(name)
<1> DEFINE N == Len(name)
           IsWords(f) == f = [k \in 0 .. N |->
                                IF k = 0 THEN <<>>
                                ELSE IF name[k].script = "foreign" THEN f[k - 1]
                                ELSE Append(f[k - 1], name[k].letters)]
           words == CHOOSE f : IsWords(f)
           step == [p \in (1 .. N) \X NormalForms |->
                       IF name[p[1]].script = "foreign" THEN p[2] ELSE Append(p[2], name[p[1]].letters)]
<1>1. /\ N \in Nat /\ DOMAIN name = 1 .. N
      /\ \A k \in 1 .. N : name[k].letters \in Seq(Letters) \ {<<>>}
  <2>1. name \in Seq(WrittenWords)
    BY DEF IsName
  <2>2. N \in Nat /\ DOMAIN name = 1 .. N /\ \A k \in 1 .. N : name[k] \in WrittenWords
    BY <2>1
  <2>3. \A w \in WrittenWords : w.letters \in Seq(Letters) \ {<<>>}
    BY DEF WrittenWords
  <2> QED
    BY <2>2, <2>3
<1>2. normalizeName(name) = words[N]
  BY DEF normalizeName
<1>3. <<>> \in NormalForms /\ step \in [(1 .. N) \X NormalForms -> NormalForms]
  BY <1>1 DEF NormalForms
<1>4. \E f : IsWords(f)
  <2>1. PICK f \in [0 .. N -> NormalForms] : IsRepeated(f, N, <<>>, step)
    BY <1>1, <1>3, Repeated
  <2>2. \A k \in 1 .. N : step[<<k, f[k - 1]>>] =
            IF name[k].script = "foreign" THEN f[k - 1] ELSE Append(f[k - 1], name[k].letters)
    <3> TAKE k \in 1 .. N
    <3>1. N \in Nat
      BY <1>1
    <3> HIDE DEF N
    <3>2. k - 1 \in 0 .. N
      BY <3>1
    <3>3. f[k - 1] \in NormalForms
      BY <3>2
    <3>4. <<k, f[k - 1]>> \in (1 .. N) \X NormalForms
      BY <3>3
    <3> QED
      BY <3>4
  <2>3. \A k \in 0 .. N : f[k] = IF k = 0 THEN <<>> ELSE step[<<k, f[k - 1]>>]
    <3> HIDE DEF step
    <3> QED
      BY <2>1 DEF IsRepeated
  <2> HIDE DEF step
  <2>4. \A k \in 0 .. N : f[k] =
            IF k = 0 THEN <<>>
            ELSE IF name[k].script = "foreign" THEN f[k - 1]
            ELSE Append(f[k - 1], name[k].letters)
    <3> TAKE k \in 0 .. N
    <3>1. k # 0 => k \in 1 .. N
      BY <1>1
    <3> QED
      BY <2>2, <2>3, <3>1
  <2>5. f = [k \in 0 .. N |-> f[k]]
    OBVIOUS
  <2>6. IsWords(f)
    BY <2>4, <2>5
  <2> QED
    BY <2>6
<1> HIDE DEF step
<1>5. IsWords(words)
  <2> HIDE DEF IsWords
  <2> QED
    BY <1>4
<1> HIDE DEF words
<1>6. /\ words[0] = <<>>
      /\ \A k \in 0 .. N - 1 : words[k + 1] =
            IF name[k + 1].script = "foreign" THEN words[k] ELSE Append(words[k], name[k + 1].letters)
  <2>1. \A k \in 0 .. N : words[k] =
            IF k = 0 THEN <<>>
            ELSE IF name[k].script = "foreign" THEN words[k - 1]
            ELSE Append(words[k - 1], name[k].letters)
    BY <1>5
  <2>2. 0 \in 0 .. N /\ \A k \in 0 .. N - 1 : k + 1 \in 0 .. N /\ k + 1 # 0 /\ k + 1 - 1 = k
    BY <1>1
  <2> HIDE DEF IsWords
  <2> QED
    BY <2>1, <2>2
<1> HIDE DEF IsWords, N
<1> DEFINE Upto(k) == {name[l].letters : l \in {m \in 1 .. k : name[m].script # "foreign"}}
           IsUpto(k) == words[k] \in NormalForms /\ Range(words[k]) = Upto(k)
           S == {k \in 0 .. N : IsUpto(k)}
<1>7. 0 \in S
  BY <1>1, <1>3, <1>6 DEF Range
<1>8. ASSUME NEW k \in 0 .. N - 1, k \in S PROVE k + 1 \in S
  <2> DEFINE w == words[k]
             l == name[k + 1].letters
  <2>1. /\ k \in Nat /\ k + 1 \in 1 .. N /\ w \in NormalForms /\ Range(w) = Upto(k)
        /\ l \in Seq(Letters) \ {<<>>}
    BY <1>1, <1>8
  <2>2. CASE name[k + 1].script = "foreign"
    <3>1. Upto(k + 1) = Upto(k)
      <4>1. {m \in 1 .. k + 1 : name[m].script # "foreign"} = {m \in 1 .. k : name[m].script # "foreign"}
        BY <2>1, <2>2
      <4> QED
        BY <4>1
    <3>2. IsUpto(k + 1)
      BY <1>6, <2>1, <2>2, <3>1
    <3> HIDE DEF IsUpto
    <3> QED
      BY <1>1, <3>2
  <2>3. CASE name[k + 1].script # "foreign"
    <3>1. Upto(k + 1) = Upto(k) \union {l}
      <4>1. {m \in 1 .. k + 1 : name[m].script # "foreign"} =
                {m \in 1 .. k : name[m].script # "foreign"} \union {k + 1}
        BY <2>1, <2>3
      <4> QED
        BY <4>1
    <3>2. words[k + 1] = Append(w, l)
      BY <1>6, <2>3
    <3>3. Append(w, l) \in NormalForms /\ Range(Append(w, l)) = Range(w) \union {l}
      <4> HIDE DEF w, l
      <4>1. Append(w, l) \in NormalForms
        BY <2>1 DEF NormalForms
      <4>2. /\ Len(w) \in Nat /\ DOMAIN w = 1 .. Len(w) /\ DOMAIN Append(w, l) = 1 .. Len(w) + 1
            /\ \A m \in 1 .. Len(w) : Append(w, l)[m] = w[m]
            /\ Append(w, l)[Len(w) + 1] = l
        BY <2>1 DEF NormalForms
      <4> QED
        BY <4>1, <4>2 DEF Range
    <3>4. IsUpto(k + 1)
      <4> HIDE DEF w, l, Upto
      <4> QED
        BY <2>1, <3>1, <3>2, <3>3
    <3> HIDE DEF IsUpto
    <3> QED
      BY <1>1, <3>4
  <2> QED
    BY <2>2, <2>3
<1>9. S = 0 .. N
  <2>1. S \in SUBSET (0 .. N) /\ N \in Nat
    BY <1>1
  <2> HIDE DEF S
  <2> QED
    BY <1>7, <1>8, <2>1, Induction
<1>10. IsUpto(N)
  <2> HIDE DEF IsUpto
  <2>1. N \in S
    <3> HIDE DEF S
    <3> QED
      BY <1>1, <1>9
  <2> QED
    BY <2>1
<1> QED
  BY <1>1, <1>2, <1>10 DEF KeptLetters

----------------------------------------------------------------------------
(* Name matching: texts.                                                   *)

\* The first k words are laid in a text one after the other, the l-th after f[l].
Laid(f, words, k, text) ==
    /\ k <= Len(text)
    /\ \A l \in 1 .. k :
        /\ f[l] \in Nat /\ f[l] + Len(words[l]) <= Len(text)
        /\ \A m \in 1 .. Len(words[l]) : text[f[l] + m] = words[l][m]
    /\ \A l \in 1 .. k - 1 : f[l + 1] = f[l] + Len(words[l]) + 1 /\ text[f[l + 1]] = Space
    /\ k > 0 => f[1] = 0 /\ f[k] + Len(words[k]) = Len(text)

LEMMA JoinProps ==
    ASSUME NEW V, NEW s \in Seq(V), NEW t \in Seq(V), NEW x \in V
    PROVE  /\ s \o <<x>> \o t \in Seq(V)
           /\ Len(s \o <<x>> \o t) = Len(s) + 1 + Len(t)
           /\ \A n \in 1 .. Len(s) : (s \o <<x>> \o t)[n] = s[n]
           /\ (s \o <<x>> \o t)[Len(s) + 1] = x
           /\ \A n \in 1 .. Len(t) : (s \o <<x>> \o t)[Len(s) + 1 + n] = t[n]
<1> DEFINE u == s \o <<x>>
<1>1. /\ u \in Seq(V) /\ Len(u) = Len(s) + 1 /\ u[Len(s) + 1] = x
      /\ \A n \in 1 .. Len(s) : u[n] = s[n]
      /\ Len(s) \in Nat /\ Len(t) \in Nat
  OBVIOUS
<1> HIDE DEF u
<1>2. /\ u \o t \in Seq(V) /\ Len(u \o t) = Len(u) + Len(t)
      /\ \A n \in 1 .. Len(u) : (u \o t)[n] = u[n]
  BY <1>1
<1>3. ASSUME NEW n \in 1 .. Len(t) PROVE (u \o t)[Len(s) + 1 + n] = t[n]
  <2>1. Len(u) + n \in 1 .. Len(u) + Len(t) /\ Len(u) + n > Len(u) /\ Len(u) + n - Len(u) = n
    BY <1>1
  <2>2. (u \o t)[Len(u) + n] = t[n]
    BY <1>1, <2>1
  <2> QED
    BY <1>1, <2>2
<1>4. /\ \A n \in 1 .. Len(s) : (u \o t)[n] = s[n]
      /\ (u \o t)[Len(s) + 1] = x
  BY <1>1, <1>2
<1> QED
  BY <1>1, <1>2, <1>3, <1>4 DEF u

\* The words of a normal form are laid in its text.
LEMMA TextProps ==
    ASSUME NEW words \in NormalForms
    PROVE  /\ Text(words) \in Seq(Letters \union {Space})
           /\ Len(words) = 0 => Text(words) = <<>>
           /\ \E f : Laid(f, words, Len(words), Text(words))
<1> DEFINE N == Len(words)
           Wide == Letters \union {Space}
           IsTexts(f) == f = [k \in 0 .. N |->
                                IF k = 0 THEN <<>>
                                ELSE IF k = 1 THEN words[1]
                                ELSE f[k - 1] \o <<Space>> \o words[k]]
           text == CHOOSE f : IsTexts(f)
           step == [p \in (1 .. N) \X Seq(Wide) |->
                       IF p[1] = 1 THEN words[1] ELSE p[2] \o <<Space>> \o words[p[1]]]
<1>1. N \in Nat /\ \A k \in 1 .. N : words[k] \in Seq(Letters) \ {<<>>}
  BY DEF NormalForms
<1>2. Text(words) = text[N]
  BY DEF Text
<1>3. /\ \A k \in 1 .. N : words[k] \in Seq(Wide) /\ Len(words[k]) \in Nat \ {0}
      /\ <<>> \in Seq(Wide) /\ Space \in Wide
  BY <1>1
<1> HIDE DEF N, Wide
<1>4. step \in [(1 .. N) \X Seq(Wide) -> Seq(Wide)]
  <2> SUFFICES ASSUME NEW p \in (1 .. N) \X Seq(Wide)
               PROVE  (IF p[1] = 1 THEN words[1] ELSE p[2] \o <<Space>> \o words[p[1]]) \in Seq(Wide)
    OBVIOUS
  <2>1. p[1] \in 1 .. N /\ p[2] \in Seq(Wide) /\ words[p[1]] \in Seq(Wide) /\ (p[1] = 1 => words[1] \in Seq(Wide))
    BY <1>3
  <2>2. p[2] \o <<Space>> \o words[p[1]] \in Seq(Wide)
    BY <1>3, <2>1, JoinProps
  <2> QED
    BY <2>1, <2>2
<1>5. \E f : IsTexts(f)
  <2>1. PICK f \in [0 .. N -> Seq(Wide)] : IsRepeated(f, N, <<>>, step)
    BY <1>1, <1>3, <1>4, Repeated
  <2>2. \A k \in 1 .. N : step[<<k, f[k - 1]>>] = IF k = 1 THEN words[1] ELSE f[k - 1] \o <<Space>> \o words[k]
    <3> TAKE k \in 1 .. N
    <3>1. f[k - 1] \in Seq(Wide) /\ <<k, f[k - 1]>> \in (1 .. N) \X Seq(Wide)
      BY <1>1
    <3> QED
      BY <3>1
  <2>3. \A k \in 0 .. N : f[k] = IF k = 0 THEN <<>> ELSE step[<<k, f[k - 1]>>]
    <3> HIDE DEF step
    <3> QED
      BY <2>1 DEF IsRepeated
  <2> HIDE DEF step
  <2>4. \A k \in 0 .. N : f[k] =
            IF k = 0 THEN <<>>
            ELSE IF k = 1 THEN words[1]
            ELSE f[k - 1] \o <<Space>> \o words[k]
    <3> TAKE k \in 0 .. N
    <3>1. k # 0 => k \in 1 .. N
      BY <1>1
    <3> QED
      BY <2>2, <2>3, <3>1
  <2>5. f = [k \in 0 .. N |-> f[k]]
    OBVIOUS
  <2>6. IsTexts(f)
    BY <2>4, <2>5
  <2> QED
    BY <2>6
<1> HIDE DEF step
<1>6. IsTexts(text)
  <2> HIDE DEF IsTexts
  <2> QED
    BY <1>5
<1> HIDE DEF text
<1>7. /\ text[0] = <<>>
      /\ N > 0 => text[1] = words[1]
      /\ \A k \in 1 .. N - 1 : text[k + 1] = text[k] \o <<Space>> \o words[k + 1]
  BY <1>1, <1>6
<1> HIDE DEF IsTexts
<1> DEFINE f == [l \in 1 .. N |-> IF l = 1 THEN 0 ELSE Len(text[l - 1]) + 1]
           IsLaid(k) == text[k] \in Seq(Wide) /\ Laid(f, words, k, text[k])
           S == {k \in 0 .. N : IsLaid(k)}
<1>8. f \in [1 .. N -> {f[l] : l \in 1 .. N}] /\ (N > 0 => f[1] = 0)
  BY <1>1
<1>9. \A l \in 1 .. N - 1 : f[l + 1] = Len(text[l]) + 1
  BY <1>1
<1> HIDE DEF f
<1>10. 0 \in S
  <2>1. Laid(f, words, 0, <<>>)
    BY DEF Laid
  <2>2. IsLaid(0) /\ 0 \in 0 .. N
    BY <1>1, <1>3, <1>7, <2>1
  <2> HIDE DEF IsLaid
  <2> QED
    BY <2>2
<1>11. ASSUME NEW k \in 0 .. N - 1, k \in S PROVE k + 1 \in S
  <2> DEFINE s == text[k]
             t == words[k + 1]
             u == text[k + 1]
  <2>1. /\ k \in Nat /\ k + 1 \in 1 .. N /\ k + 1 \in 0 .. N
        /\ s \in Seq(Wide) /\ t \in Seq(Wide) /\ Len(t) \in Nat \ {0} /\ Len(s) \in Nat
    BY <1>1, <1>3, <1>11
  <2>2. Laid(f, words, k, s)
    BY <1>11
  <2>3. CASE k = 0
    <3>1. u = t /\ f[1] = 0
      <4>1. N > 0 /\ k + 1 = 1
        BY <1>1, <2>1, <2>3
      <4> QED
        BY <1>7, <1>8, <4>1
    <3> HIDE DEF s, u
    <3>2. Laid(f, words, 1, t)
      <4>1. /\ words[1] = t /\ Len(t) \in Nat \ {0} /\ 1 <= Len(t)
            /\ \A l \in 1 .. 1 : l = 1
            /\ 1 .. 1 - 1 = {}
        BY <2>1, <2>3
      <4> HIDE DEF t
      <4>2. \A m \in 1 .. Len(words[1]) : f[1] + m = m
        BY <3>1
      <4> QED
        BY <3>1, <4>1, <4>2 DEF Laid
    <3>3. IsLaid(k + 1)
      BY <2>1, <2>3, <3>1, <3>2 DEF u
    <3> HIDE DEF IsLaid
    <3> QED
      BY <2>1, <3>3
  <2>4. CASE k # 0
    <3>1. u = s \o <<Space>> \o t /\ f[k + 1] = Len(s) + 1 /\ k \in 1 .. N - 1
      <4>1. k \in 1 .. N - 1
        BY <1>1, <2>1, <2>4
      <4>2. f[k + 1] = Len(s) + 1
        BY <1>9, <4>1
      <4> QED
        BY <1>7, <4>1, <4>2
    <3>2. f[k] + Len(words[k]) = Len(s) /\ f[1] = 0
      BY <2>1, <2>2, <2>4 DEF Laid
    <3> HIDE DEF s, u, t
    <3>3. /\ u \in Seq(Wide) /\ Len(u) = Len(s) + 1 + Len(t)
          /\ \A n \in 1 .. Len(s) : u[n] = s[n]
          /\ u[Len(s) + 1] = Space
          /\ \A n \in 1 .. Len(t) : u[Len(s) + 1 + n] = t[n]
      BY <1>3, <2>1, <3>1, JoinProps
    <3>4. ASSUME NEW l \in 1 .. k
          PROVE  /\ f[l] \in Nat /\ f[l] + Len(words[l]) <= Len(u)
                 /\ \A m \in 1 .. Len(words[l]) : u[f[l] + m] = words[l][m]
      <4>1. /\ f[l] \in Nat /\ f[l] + Len(words[l]) <= Len(s)
            /\ \A m \in 1 .. Len(words[l]) : s[f[l] + m] = words[l][m]
        BY <2>2 DEF Laid
      <4>2. Len(words[l]) \in Nat
        BY <1>3, <2>1
      <4>3. \A m \in 1 .. Len(words[l]) : f[l] + m \in 1 .. Len(s)
        BY <2>1, <4>1, <4>2
      <4>4. \A m \in 1 .. Len(words[l]) : u[f[l] + m] = words[l][m]
        BY <3>3, <4>1, <4>3
      <4>5. f[l] + Len(words[l]) <= Len(u)
        <5> DEFINE e == f[l] + Len(words[l])
        <5>1. e \in Nat /\ e <= Len(s) /\ Len(u) = Len(s) + 1 + Len(t)
          BY <3>3, <4>1, <4>2
        <5> HIDE DEF e
        <5>2. e <= Len(u)
          BY <2>1, <5>1
        <5> QED
          BY <5>2 DEF e
      <4> QED
        BY <4>1, <4>4, <4>5
    <3>5. /\ f[k + 1] \in Nat /\ f[k + 1] + Len(words[k + 1]) <= Len(u)
          /\ \A m \in 1 .. Len(words[k + 1]) : u[f[k + 1] + m] = words[k + 1][m]
          /\ f[k + 1] + Len(words[k + 1]) = Len(u)
      BY <2>1, <3>1, <3>3 DEF t
    <3>6. ASSUME NEW l \in 1 .. k
          PROVE  f[l + 1] = f[l] + Len(words[l]) + 1 /\ u[f[l + 1]] = Space
      <4>1. CASE l = k
        BY <2>1, <3>1, <3>2, <3>3, <4>1
      <4>2. CASE l # k
        <5>1. l \in 1 .. k - 1 /\ l \in 1 .. k /\ l + 1 \in 1 .. k
          BY <2>1, <4>2
        <5>2. f[l + 1] = f[l] + Len(words[l]) + 1 /\ s[f[l + 1]] = Space
          BY <2>2, <5>1 DEF Laid
        <5>3. f[l] \in Nat /\ f[l + 1] \in Nat /\ f[l + 1] + Len(words[l + 1]) <= Len(s)
          BY <2>2, <5>1 DEF Laid
        <5>4. Len(words[l]) \in Nat /\ Len(words[l + 1]) \in Nat
          BY <1>3, <2>1, <5>1
        <5>5. f[l + 1] \in 1 .. Len(s)
          <6> DEFINE e == f[l + 1]
                     p == f[l]
                     m == Len(words[l])
                     n == Len(words[l + 1])
          <6>1. e = p + m + 1 /\ e + n <= Len(s) /\ e \in Nat /\ p \in Nat /\ m \in Nat /\ n \in Nat
            BY <5>2, <5>3, <5>4
          <6> HIDE DEF e, p, m, n
          <6>2. e \in 1 .. Len(s)
            BY <2>1, <6>1
          <6> QED
            BY <6>2 DEF e
        <5> QED
          BY <3>3, <5>2, <5>5
      <4> QED
        BY <4>1, <4>2
    <3>7. k <= Len(s)
      BY <2>2 DEF Laid
    <3>8. /\ k + 1 <= Len(u) /\ k + 1 > 0 /\ k + 1 - 1 = k
          /\ \A l \in 1 .. k + 1 : l \in 1 .. k \/ l = k + 1
      <4>1. Len(u) = Len(s) + 1 + Len(t)
        BY <3>3
      <4>2. k + 1 <= Len(u)
        BY <2>1, <3>7, <4>1
      <4>3. k + 1 > 0 /\ k + 1 - 1 = k /\ \A l \in 1 .. k + 1 : l \in 1 .. k \/ l = k + 1
        BY <2>1
      <4> QED
        BY <4>2, <4>3
    <3>9. Laid(f, words, k + 1, u)
      <4>1. \A l \in 1 .. k + 1 :
                /\ f[l] \in Nat /\ f[l] + Len(words[l]) <= Len(u)
                /\ \A m \in 1 .. Len(words[l]) : u[f[l] + m] = words[l][m]
        BY <3>4, <3>5, <3>8
      <4>2. \A l \in 1 .. k + 1 - 1 : f[l + 1] = f[l] + Len(words[l]) + 1 /\ u[f[l + 1]] = Space
        BY <3>6, <3>8
      <4>3. f[1] = 0 /\ f[k + 1] + Len(words[k + 1]) = Len(u)
        BY <3>2, <3>5
      <4> QED
        BY <3>8, <4>1, <4>2, <4>3 DEF Laid
    <3>10. IsLaid(k + 1)
      BY <3>3, <3>9 DEF u
    <3> HIDE DEF IsLaid
    <3> QED
      BY <2>1, <3>10
  <2> QED
    BY <2>3, <2>4
<1>12. S = 0 .. N
  <2>1. S \in SUBSET (0 .. N) /\ N \in Nat
    BY <1>1
  <2> HIDE DEF S
  <2> QED
    BY <1>10, <1>11, <2>1, Induction
<1>13. IsLaid(N)
  <2> HIDE DEF IsLaid
  <2>1. N \in S
    <3> HIDE DEF S
    <3> QED
      BY <1>1, <1>12
  <2> QED
    BY <2>1
<1>14. N = 0 => text[N] = <<>>
  BY <1>7
<1> QED
  BY <1>2, <1>13, <1>14 DEF N, Wide

\* A text's letters are between its spaces: of two layings of a text no word ends before
\* the other's that starts at the same place.
LEMMA EndsTogether ==
    ASSUME NEW v \in NormalForms, NEW w \in NormalForms, NEW text \in Seq(Letters \union {Space}), NEW f, NEW g,
           Laid(f, v, Len(v), text), Laid(g, w, Len(w), text),
           NEW k \in 1 .. Len(v), k \in 1 .. Len(w), f[k] = g[k]
    PROVE  Len(v[k]) >= Len(w[k])
<1> SUFFICES ASSUME Len(v[k]) < Len(w[k]) PROVE FALSE
  <2>1. Len(v[k]) \in Nat /\ Len(w[k]) \in Nat
    BY DEF NormalForms
  <2> QED
    BY <2>1
<1> DEFINE p == f[k] + Len(v[k]) + 1
           n == Len(v[k]) + 1
<1>1. /\ Len(v) \in Nat /\ Len(w) \in Nat /\ Len(text) \in Nat
      /\ Len(v[k]) \in Nat /\ Len(w[k]) \in Nat /\ w[k] \in Seq(Letters)
  BY DEF NormalForms
<1>2. f[k] \in Nat /\ f[k] + Len(w[k]) <= Len(text) /\ \A m \in 1 .. Len(w[k]) : text[f[k] + m] = w[k][m]
  BY DEF Laid
<1>3. n \in 1 .. Len(w[k]) /\ p = f[k] + n /\ p <= Len(text)
  BY <1>1, <1>2
<1>4. text[p] = w[k][n] /\ w[k][n] \in Letters
  BY <1>1, <1>2, <1>3
<1>5. CASE k = Len(v)
  <2>1. f[k] + Len(v[k]) = Len(text)
    BY <1>1, <1>5 DEF Laid
  <2> QED
    BY <1>1, <1>2, <1>3, <2>1
<1>6. CASE k # Len(v)
  <2>1. k \in 1 .. Len(v) - 1
    BY <1>1, <1>6
  <2>2. text[p] = Space
    BY <2>1 DEF Laid
  <2> QED
    BY <1>4, <2>2, NamesAssumption
<1> QED
  BY <1>5, <1>6

\* A text has one normal form: the words are told apart by the spaces.
LEMMA TextIsInjective ==
    ASSUME NEW v \in NormalForms, NEW w \in NormalForms, Text(v) = Text(w)
    PROVE  v = w
<1> DEFINE text == Text(v)
           N == Len(v)
           M == Len(w)
<1>1. PICK f : Laid(f, v, N, text)
  BY TextProps
<1>2. PICK g : Laid(g, w, M, text)
  BY TextProps
<1>3. text \in Seq(Letters \union {Space}) /\ Len(text) \in Nat /\ N \in Nat /\ M \in Nat
  BY TextProps DEF NormalForms
<1>4. N = 0 <=> M = 0
  <2>1. N = 0 => text = <<>>
    BY TextProps
  <2>2. M = 0 => text = <<>>
    BY TextProps
  <2>3. N <= Len(text) /\ M <= Len(text)
    BY <1>1, <1>2 DEF Laid
  <2> HIDE DEF text, N, M
  <2> QED
    BY <1>3, <2>1, <2>2, <2>3
<1> HIDE DEF text
<1>5. ASSUME NEW k \in 1 .. N, k \in 1 .. M, f[k] = g[k]
      PROVE  /\ v[k] = w[k]
             /\ k < N => k + 1 \in 1 .. M /\ f[k + 1] = g[k + 1]
             /\ k = N => k = M
  <2>1. Len(v[k]) = Len(w[k])
    <3>1. Len(v[k]) \in Nat /\ Len(w[k]) \in Nat
      BY <1>5 DEF NormalForms
    <3>2. Len(v[k]) >= Len(w[k])
      BY <1>1, <1>2, <1>3, <1>5, EndsTogether
    <3>3. Len(w[k]) >= Len(v[k])
      BY <1>1, <1>2, <1>3, <1>5, EndsTogether
    <3> QED
      BY <3>1, <3>2, <3>3
  <2>2. v[k] \in Seq(Letters) /\ w[k] \in Seq(Letters) /\ Len(v[k]) \in Nat
    BY <1>5 DEF NormalForms
  <2>3. \A m \in 1 .. Len(v[k]) : v[k][m] = text[f[k] + m]
    BY <1>1 DEF Laid
  <2>4. \A m \in 1 .. Len(w[k]) : w[k][m] = text[g[k] + m]
    BY <1>2, <1>5 DEF Laid
  <2>5. v[k] = w[k]
    <3>1. \A m \in 1 .. Len(v[k]) : v[k][m] = w[k][m]
      BY <1>5, <2>1, <2>3, <2>4
    <3> QED
      BY <2>1, <2>2, <3>1
  <2>6. /\ f[k] \in Nat
        /\ k < N => f[k + 1] = f[k] + Len(v[k]) + 1 /\ f[k + 1] + Len(v[k + 1]) <= Len(text)
        /\ k = N => f[k] + Len(v[k]) = Len(text)
    <3>1. k < N => k \in 1 .. N - 1 /\ k + 1 \in 1 .. N
      BY <1>3
    <3> QED
      BY <1>1, <1>3, <3>1 DEF Laid
  <2>7. /\ k < M => g[k + 1] = g[k] + Len(w[k]) + 1 /\ g[k + 1] + Len(w[k + 1]) <= Len(text)
        /\ k = M => g[k] + Len(w[k]) = Len(text)
    <3>1. k < M => k \in 1 .. M - 1 /\ k + 1 \in 1 .. M
      BY <1>3, <1>5
    <3> QED
      BY <1>2, <1>3, <1>5, <3>1 DEF Laid
  <2>8. (k < N => Len(v[k + 1]) \in Nat) /\ (k < M => Len(w[k + 1]) \in Nat)
    BY <1>3, <1>5 DEF NormalForms
  <2>9. k < N <=> k < M
    BY <1>3, <1>5, <2>1, <2>2, <2>6, <2>7, <2>8
  <2> QED
    BY <1>3, <1>5, <2>1, <2>5, <2>6, <2>7, <2>9
<1>6. CASE N = 0
  BY <1>4, <1>6 DEF NormalForms
<1>7. CASE N # 0
  <2> DEFINE S == {k \in 0 .. N - 1 : k + 1 \in 1 .. M /\ f[k + 1] = g[k + 1]}
  <2>1. f[1] = 0 /\ g[1] = 0
    BY <1>1, <1>2, <1>3, <1>4, <1>7 DEF Laid
  <2>2. 0 \in S
    BY <1>3, <1>4, <1>7, <2>1
  <2>3. ASSUME NEW k \in 0 .. N - 1 - 1, k \in S PROVE k + 1 \in S
    <3>1. k + 1 \in 1 .. N /\ k + 1 \in 1 .. M /\ f[k + 1] = g[k + 1] /\ k + 1 < N /\ k + 1 \in 0 .. N - 1
      BY <1>3, <2>3
    <3> QED
      BY <1>5, <3>1
  <2>4. S = 0 .. N - 1
    <3>1. S \in SUBSET (0 .. N - 1) /\ N - 1 \in Nat
      BY <1>3, <1>7
    <3> HIDE DEF S
    <3> QED
      BY <2>2, <2>3, <3>1, Induction
  <2>5. \A k \in 1 .. N : k \in 1 .. M /\ f[k] = g[k]
    <3> TAKE k \in 1 .. N
    <3>1. k - 1 \in 0 .. N - 1 /\ k - 1 + 1 = k
      BY <1>3
    <3> QED
      BY <2>4, <3>1
  <2>6. \A k \in 1 .. N : v[k] = w[k]
    BY <1>5, <2>5
  <2>7. N = M
    BY <1>3, <1>5, <1>7, <2>5
  <2> QED
    BY <2>6, <2>7 DEF NormalForms
<1> QED
  BY <1>6, <1>7

----------------------------------------------------------------------------
(* Name matching: scores.                                                  *)

\* levenshtein is the least number of edits.
LEMMA LevenshteinIsLeast ==
    ASSUME NEW V, NEW x \in Seq(V), NEW y \in Seq(V)
    PROVE  levenshtein(x, y) = LeastCost(x, y, Len(x), Len(y))
<1> DEFINE Cells == (0 .. Len(x)) \X (0 .. Len(y))
           IsTable(f) == f = [p \in Cells |->
                IF p[1] = 0 \/ p[2] = 0 THEN p[1] + p[2]
                ELSE Smallest({f[<<p[1] - 1, p[2]>>] + 1, f[<<p[1], p[2] - 1>>] + 1,
                               f[<<p[1] - 1, p[2] - 1>>] + (IF x[p[1]] = y[p[2]] THEN 0 ELSE 1)})]
           least == [p \in Cells |-> LeastCost(x, y, p[1], p[2])]
           table == CHOOSE f : IsTable(f)
<1>1. levenshtein(x, y) = table[<<Len(x), Len(y)>>]
  BY DEF levenshtein
<1>2. Len(x) \in Nat /\ Len(y) \in Nat
  OBVIOUS
<1>3. \A m, n \in Nat \ {0} :
          LeastCost(x, y, m, n) =
              Least({LeastCost(x, y, m - 1, n) + 1, LeastCost(x, y, m, n - 1) + 1,
                     LeastCost(x, y, m - 1, n - 1) + (IF x[m] = y[n] THEN 0 ELSE 1)})
  BY LeastCostMore
<1>4. ASSUME NEW p \in Cells
      PROVE  least[p] =
                IF p[1] = 0 \/ p[2] = 0 THEN p[1] + p[2]
                ELSE Smallest({least[<<p[1] - 1, p[2]>>] + 1, least[<<p[1], p[2] - 1>>] + 1,
                               least[<<p[1] - 1, p[2] - 1>>] + (IF x[p[1]] = y[p[2]] THEN 0 ELSE 1)})
  <2>1. p[1] \in Nat /\ p[2] \in Nat /\ least[p] = LeastCost(x, y, p[1], p[2])
    BY <1>2
  <2>2. CASE p[1] = 0 \/ p[2] = 0
    <3>1. LeastCost(x, y, p[1], p[2]) = p[1] + p[2]
      BY <2>1, <2>2, LeastCostNothing
    <3> QED
      BY <2>1, <2>2, <3>1
  <2>3. CASE ~(p[1] = 0 \/ p[2] = 0)
    <3>1. p[1] \in Nat \ {0} /\ p[2] \in Nat \ {0}
      BY <2>1, <2>3
    <3>2. LeastCost(x, y, p[1], p[2]) =
            Least({LeastCost(x, y, p[1] - 1, p[2]) + 1, LeastCost(x, y, p[1], p[2] - 1) + 1,
                   LeastCost(x, y, p[1] - 1, p[2] - 1) + (IF x[p[1]] = y[p[2]] THEN 0 ELSE 1)})
      BY <1>3, <3>1
    <3>3. /\ <<p[1] - 1, p[2]>> \in Cells /\ <<p[1], p[2] - 1>> \in Cells /\ <<p[1] - 1, p[2] - 1>> \in Cells
      BY <1>2, <3>1
    <3>4. /\ least[<<p[1] - 1, p[2]>>] = LeastCost(x, y, p[1] - 1, p[2])
          /\ least[<<p[1], p[2] - 1>>] = LeastCost(x, y, p[1], p[2] - 1)
          /\ least[<<p[1] - 1, p[2] - 1>>] = LeastCost(x, y, p[1] - 1, p[2] - 1)
      BY <3>3
    <3> HIDE DEF least
    <3>5. LeastCost(x, y, p[1], p[2]) =
            Least({least[<<p[1] - 1, p[2]>>] + 1, least[<<p[1], p[2] - 1>>] + 1,
                   least[<<p[1] - 1, p[2] - 1>>] + (IF x[p[1]] = y[p[2]] THEN 0 ELSE 1)})
      BY <3>2, <3>4
    <3>6. \A S : Smallest(S) = Least(S)
      BY DEF Smallest, Least
    <3> QED
      BY <2>1, <2>3, <3>5, <3>6
  <2> QED
    BY <2>2, <2>3
<1>5. IsTable(least)
  <2>1. least = [p \in Cells |-> least[p]]
    OBVIOUS
  <2> HIDE DEF least
  <2> QED
    BY <1>4, <2>1
<1>6. IsTable(table)
  <2> HIDE DEF IsTable
  <2> QED
    BY <1>5
<1> HIDE DEF table, least
<1>7. ASSUME NEW p \in Cells
      PROVE  table[p] =
                IF p[1] = 0 \/ p[2] = 0 THEN p[1] + p[2]
                ELSE Smallest({table[<<p[1] - 1, p[2]>>] + 1, table[<<p[1], p[2] - 1>>] + 1,
                               table[<<p[1] - 1, p[2] - 1>>] + (IF x[p[1]] = y[p[2]] THEN 0 ELSE 1)})
  BY <1>6
<1> HIDE DEF IsTable
<1> DEFINE T == {s \in Nat : \E p \in Cells : p[1] + p[2] = s /\ table[p] # least[p]}
<1>8. ASSUME T # {} PROVE FALSE
  <2>1. T \in SUBSET Nat
    OBVIOUS
  <2>2. PICK s \in T : \A t \in T : s <= t
    <3> HIDE DEF T
    <3> QED
      BY <1>8, <2>1, LeastNatural
  <2>3. PICK p \in Cells : p[1] + p[2] = s /\ table[p] # least[p]
    BY <2>2
  <2>4. p[1] \in Nat /\ p[2] \in Nat /\ s \in Nat
    BY <1>2, <2>3
  <2>5. CASE p[1] = 0 \/ p[2] = 0
    BY <1>4, <1>7, <2>3, <2>5
  <2>6. CASE ~(p[1] = 0 \/ p[2] = 0)
    <3>1. ASSUME NEW r \in Cells, r[1] + r[2] < s PROVE table[r] = least[r]
      <4>1. r[1] + r[2] \in Nat
        BY <1>2
      <4> QED
        BY <2>2, <2>4, <3>1, <4>1
    <3>2. /\ <<p[1] - 1, p[2]>> \in Cells /\ <<p[1], p[2] - 1>> \in Cells /\ <<p[1] - 1, p[2] - 1>> \in Cells
          /\ p[1] - 1 + p[2] < s /\ p[1] + (p[2] - 1) < s /\ p[1] - 1 + (p[2] - 1) < s
      BY <1>2, <2>3, <2>4, <2>6
    <3>3. /\ table[<<p[1] - 1, p[2]>>] = least[<<p[1] - 1, p[2]>>]
          /\ table[<<p[1], p[2] - 1>>] = least[<<p[1], p[2] - 1>>]
          /\ table[<<p[1] - 1, p[2] - 1>>] = least[<<p[1] - 1, p[2] - 1>>]
      BY <3>1, <3>2
    <3>4. table[p] =
            Smallest({table[<<p[1] - 1, p[2]>>] + 1, table[<<p[1], p[2] - 1>>] + 1,
                      table[<<p[1] - 1, p[2] - 1>>] + (IF x[p[1]] = y[p[2]] THEN 0 ELSE 1)})
      BY <1>7, <2>6
    <3>5. least[p] =
            Smallest({least[<<p[1] - 1, p[2]>>] + 1, least[<<p[1], p[2] - 1>>] + 1,
                      least[<<p[1] - 1, p[2] - 1>>] + (IF x[p[1]] = y[p[2]] THEN 0 ELSE 1)})
      BY <1>4, <2>6
    <3>6. table[p] = least[p]
      BY <3>3, <3>4, <3>5
    <3> QED
      BY <2>3, <3>6
  <2> QED
    BY <2>5, <2>6
<1>9. <<Len(x), Len(y)>> \in Cells /\ <<Len(x), Len(y)>>[1] + <<Len(x), Len(y)>>[2] \in Nat
  BY <1>2
<1>10. table[<<Len(x), Len(y)>>] = least[<<Len(x), Len(y)>>]
  BY <1>8, <1>9
<1> QED
  BY <1>1, <1>9, <1>10 DEF least

\* What of it the scores rest on.
LEMMA LevenshteinProps ==
    ASSUME NEW V, NEW x \in Seq(V), NEW y \in Seq(V), NEW longer \in Nat, Len(x) <= longer, Len(y) <= longer
    PROVE  /\ levenshtein(x, y) \in Nat /\ levenshtein(x, y) <= longer
           /\ levenshtein(x, y) >= Len(y) - Len(x)
           /\ levenshtein(x, y) = 0 => x = y
<1>1. levenshtein(x, y) = LeastCost(x, y, Len(x), Len(y)) /\ Len(x) \in Nat /\ Len(y) \in Nat
  BY LevenshteinIsLeast
<1>2. LeastCost(x, y, Len(x), Len(y)) \in Nat
  BY <1>1, LeastCostProps
<1>3. LeastCost(x, y, Len(x), Len(y)) <= longer
  BY <1>1, LeastCostShort
<1>4. LeastCost(x, y, Len(x), Len(y)) >= Len(y) - Len(x)
  BY <1>1, LeastCostDifference
<1>5. LeastCost(x, y, Len(x), Len(y)) = 0 => x = y
  <2>1. LeastCost(x, y, Len(x), Len(y)) = 0 => Len(x) = Len(y) /\ \A k \in 1 .. Len(x) : x[k] = y[k]
    BY <1>1, LeastCostZero
  <2> QED
    BY <2>1
<1> QED
  BY <1>1, <1>2, <1>3, <1>4, <1>5

\* The weights: with I of U words in common and L of M characters to edit, the score is
\* a fraction, and it is certain only if nothing is to edit in a name of any likely length.
WeightOf(I, U, M, L) == 65 * I * M + 35 * U * (M - L)
WeightOfAll(U, M) == 100 * U * M

LEMMA WeightProps ==
    ASSUME NEW I \in Nat, NEW U \in Nat, NEW M \in Nat, NEW L \in Nat, U > 0, M > 0, I <= U, L <= M
    PROVE  /\ WeightOf(I, U, M, L) \in Nat /\ WeightOfAll(U, M) \in Nat \ {0}
           /\ WeightOf(I, U, M, L) <= WeightOfAll(U, M)
           /\ (I < U /\ I <= 698) \/ (I = U /\ 700 * L > M)
              => 2000 * WeightOf(I, U, M, L) < 1999 * WeightOfAll(U, M)
<1> DEFINE n == WeightOf(I, U, M, L)
           d == WeightOfAll(U, M)
           p == U * M
           q == I * M
           r == U * L
<1>1. p \in Nat /\ q \in Nat /\ r \in Nat /\ p >= M
  <2>1. U * M >= M
    BY SMT
  <2> QED
    BY <2>1
<1>2. q <= p /\ r <= p
  <2>1. I * M <= U * M
    BY SMT
  <2>2. U * L <= U * M
    BY SMT
  <2> QED
    BY <2>1, <2>2
<1>3. n = 65 * q + 35 * (p - r) /\ d = 100 * p
  <2>1. 65 * I * M = 65 * q
    BY SMT
  <2>2. U * (M - L) = p - r
    BY SMT
  <2>3. 35 * U * (M - L) = 35 * (U * (M - L))
    BY SMT
  <2>4. 100 * U * M = 100 * p
    BY SMT
  <2> QED
    BY <2>1, <2>2, <2>3, <2>4 DEF WeightOf, WeightOfAll
<1>4. ASSUME I < U PROVE q <= p - M
  <2>1. I * M + M <= U * M
    BY <1>4, SMT
  <2> QED
    BY <1>1, <2>1
<1>5. ASSUME I <= 698 PROVE q <= 698 * M
  BY <1>5, SMT
<1>6. ASSUME U < 1300 PROVE p <= 1299 * M
  BY <1>6, SMT
<1>7. ASSUME U >= 1300 PROVE p >= 1300 * M
  BY <1>7, SMT
<1>8. ASSUME 700 * L > M PROVE 700 * r > p
  <2>1. U * (700 * L) > U * M
    BY <1>8, SMT
  <2>2. U * (700 * L) = 700 * (U * L)
    BY SMT
  <2> QED
    BY <2>1, <2>2
<1>9. I = U => q = p
  OBVIOUS
<1> HIDE DEF n, d, p, q, r
<1>10. n \in Nat /\ d \in Nat \ {0} /\ n <= d
  BY <1>1, <1>2, <1>3
<1>11. ASSUME I < U, I <= 698 PROVE 2000 * n < 1999 * d
  <2>1. CASE U < 1300
    BY <1>1, <1>2, <1>3, <1>4, <1>6, <1>11, <2>1
  <2>2. CASE ~(U < 1300)
    <3>1. q <= 698 * M /\ p >= 1300 * M
      BY <1>5, <1>7, <1>11, <2>2
    <3> QED
      BY <1>1, <1>2, <1>3, <3>1
  <2> QED
    BY <2>1, <2>2
<1>12. ASSUME I = U, 700 * L > M PROVE 2000 * n < 1999 * d
  BY <1>1, <1>2, <1>3, <1>8, <1>9, <1>12
<1> QED
  BY <1>10, <1>11, <1>12 DEF n, d

\* Scores are fractions of one.
Fractions == {s \in Nat \X (Nat \ {0}) : s[1] <= s[2]}

\* An inequality of products goes through a third.
LEMMA ProductsProps ==
    ASSUME NEW s1 \in Nat, NEW t1 \in Nat, NEW u1 \in Nat,
           NEW s2 \in Nat \ {0}, NEW t2 \in Nat \ {0}, NEW u2 \in Nat \ {0}
    PROVE  /\ t1 * s2 <= s1 * t2 /\ u1 * t2 <= t1 * u2 => u1 * s2 <= s1 * u2
           /\ s1 * t2 < t1 * s2 /\ t1 * u2 <= u1 * t2 => s1 * u2 < u1 * s2
<1> DEFINE x == s1 * u2
           y == u1 * s2
<1>1. x \in Nat /\ y \in Nat /\ t2 \in Nat /\ t2 > 0
  OBVIOUS
<1>2. ASSUME t1 * s2 <= s1 * t2, u1 * t2 <= t1 * u2 PROVE y <= x
  <2>1. (u1 * t2) * s2 <= (t1 * u2) * s2
    BY <1>2, SMT
  <2>2. (t1 * s2) * u2 <= (s1 * t2) * u2
    BY <1>2, SMT
  <2>3. /\ (u1 * t2) * s2 = t2 * y /\ (s1 * t2) * u2 = t2 * x
        /\ (t1 * u2) * s2 = (t1 * s2) * u2
    BY SMT
  <2>4. t2 * y <= t2 * x
    BY <2>1, <2>2, <2>3
  <2> HIDE DEF x, y
  <2> QED
    BY <1>1, <2>4, SMT
<1>3. ASSUME s1 * t2 < t1 * s2, t1 * u2 <= u1 * t2 PROVE x < y
  <2>1. (s1 * t2) * u2 < (t1 * s2) * u2
    BY <1>3, SMT
  <2>2. (t1 * u2) * s2 <= (u1 * t2) * s2
    BY <1>3, SMT
  <2>3. /\ (u1 * t2) * s2 = t2 * y /\ (s1 * t2) * u2 = t2 * x
        /\ (t1 * u2) * s2 = (t1 * s2) * u2
    BY SMT
  <2>4. t2 * x < t2 * y
    BY <2>1, <2>2, <2>3
  <2> HIDE DEF x, y
  <2> QED
    BY <1>1, <2>4, SMT
<1> QED
  BY <1>2, <1>3

\* Fractions are compared as numbers are.
LEMMA BelowProps ==
    /\ \A s \in Fractions : ~Below(s, s)
    /\ \A s, t \in Fractions : Below(s, t) => ~Below(t, s)
    /\ \A s, t, u \in Fractions : ~Below(s, t) /\ ~Below(t, u) => ~Below(s, u)
    /\ \A s, t, u \in Fractions : Below(s, t) /\ ~Below(u, t) => Below(s, u)
    /\ \A s, t, u \in Fractions : ~Below(s, t) /\ Below(s, u) => Below(t, u)
<1>1. \A s \in Fractions : s[1] \in Nat /\ s[2] \in Nat \ {0}
  BY DEF Fractions
<1>2. \A s, t \in Fractions : s[1] * t[2] \in Int /\ t[1] * s[2] \in Int
  BY <1>1
<1>3. \A s \in Fractions : ~Below(s, s)
  BY <1>2 DEF Below
<1>4. \A s, t \in Fractions : Below(s, t) => ~Below(t, s)
  BY <1>2 DEF Below
<1>5. ASSUME NEW s \in Fractions, NEW t \in Fractions, NEW u \in Fractions
      PROVE  /\ ~Below(s, t) /\ ~Below(t, u) => ~Below(s, u)
             /\ Below(s, t) /\ ~Below(u, t) => Below(s, u)
  <2> DEFINE s1 == s[1]
             s2 == s[2]
             t1 == t[1]
             t2 == t[2]
             u1 == u[1]
             u2 == u[2]
  <2>1. /\ s1 \in Nat /\ t1 \in Nat /\ u1 \in Nat
        /\ s2 \in Nat /\ t2 \in Nat /\ u2 \in Nat /\ s2 > 0 /\ t2 > 0 /\ u2 > 0
    BY <1>1
  <2>2. /\ Below(s, t) <=> s1 * t2 < t1 * s2
        /\ Below(t, u) <=> t1 * u2 < u1 * t2
        /\ Below(s, u) <=> s1 * u2 < u1 * s2
        /\ Below(u, t) <=> u1 * t2 < t1 * u2
    BY DEF Below
  <2> HIDE DEF s1, s2, t1, t2, u1, u2
  <2>3. /\ t1 * s2 <= s1 * t2 /\ u1 * t2 <= t1 * u2 => u1 * s2 <= s1 * u2
        /\ s1 * t2 < t1 * s2 /\ t1 * u2 <= u1 * t2 => s1 * u2 < u1 * s2
    BY <2>1, ProductsProps
  <2>4. /\ s1 * t2 \in Int /\ t1 * s2 \in Int /\ t1 * u2 \in Int /\ u1 * t2 \in Int
        /\ s1 * u2 \in Int /\ u1 * s2 \in Int
    BY <2>1
  <2> QED
    BY <2>2, <2>3, <2>4
<1>6. \A s, t, u \in Fractions : ~Below(s, t) /\ Below(s, u) => Below(t, u)
  BY <1>5
<1> QED
  BY <1>3, <1>4, <1>5, <1>6

\* The greatest integer not above a quotient.
LEMMA QuotientProps ==
    ASSUME NEW n \in Nat, NEW d \in Nat \ {0}
    PROVE  n \div d \in Nat /\ d * (n \div d) <= n /\ n < d * (n \div d) + d
<1>1. n \div d \in Int /\ n % d \in 0 .. d - 1 /\ n = d * (n \div d) + (n % d)
  OBVIOUS
<1>2. n \div d \in Nat
  OBVIOUS
<1> QED
  BY <1>1, <1>2

\* A score in thousandths; 1000 is from 0.9995 on.
LEMMA RoundedProps ==
    ASSUME NEW s \in Fractions
    PROVE  /\ Rounded(s) \in 0 .. 1000
           /\ Rounded(s) = 1000 => 2000 * s[1] >= 1999 * s[2]
<1> DEFINE n == s[1]
           d == s[2]
           e == 2 * d
           x == 2000 * n + d
           q == x \div e
<1>1. n \in Nat /\ d \in Nat \ {0} /\ n <= d /\ Rounded(s) = q
  BY DEF Fractions, Rounded
<1> HIDE DEF n, d
<1>2. x \in Nat /\ e \in Nat \ {0} /\ x < 1001 * e /\ x = 2000 * n + d /\ e = 2 * d
  BY <1>1
<1> HIDE DEF x, e
<1>3. q \in Nat /\ e * q <= x
  BY <1>2, QuotientProps
<1> HIDE DEF q
<1>4. ASSUME q >= 1001 PROVE FALSE
  <2>1. e * q >= e * 1001
    BY <1>2, <1>3, <1>4, SMT
  <2> QED
    BY <1>2, <1>3, <2>1
<1>5. q \in 0 .. 1000
  BY <1>3, <1>4
<1>6. ASSUME q = 1000 PROVE 2000 * n >= 1999 * d
  <2>1. e * 1000 <= x
    BY <1>3, <1>6
  <2> QED
    BY <1>1, <1>2, <2>1
<1> QED
  BY <1>1, <1>5, <1>6 DEF n, d

\* The weighted score of two normal forms.
LEMMA WeightedProps ==
    ASSUME NEW qn \in NormalForms, NEW cn \in NormalForms, qn # <<>>, cn # <<>>
    PROVE  /\ Weighted(qn, cn) \in Fractions
           /\ qn # cn /\ Len(Text(qn)) <= LongestQuery
              => 2000 * Weighted(qn, cn)[1] < 1999 * Weighted(qn, cn)[2]
<1> DEFINE q == Text(qn)
           c == Text(cn)
           Q == Range(qn)
           C == Range(cn)
           I == Cardinality(Q \intersect C)
           U == Cardinality(Q \union C)
           M == IF Len(q) < Len(c) THEN Len(c) ELSE Len(q)
           L == levenshtein(q, c)
           n == WeightOf(I, U, M, L)
           d == WeightOfAll(U, M)
<1>1. Weighted(qn, cn) = <<n, d>>
  BY DEF Weighted, WeightOf, WeightOfAll
<1>2. /\ q \in Seq(Letters \union {Space}) /\ c \in Seq(Letters \union {Space})
      /\ Len(q) \in Nat \ {0} /\ Len(c) \in Nat \ {0} /\ Len(qn) <= Len(q)
  <2>1. /\ q \in Seq(Letters \union {Space}) /\ c \in Seq(Letters \union {Space})
        /\ Len(qn) <= Len(q) /\ Len(cn) <= Len(c)
    BY TextProps DEF Laid
  <2>2. Len(qn) \in Nat \ {0} /\ Len(cn) \in Nat \ {0}
    BY DEF NormalForms
  <2>3. Len(q) \in Nat /\ Len(c) \in Nat
    BY <2>1
  <2> HIDE DEF q, c
  <2> QED
    BY <2>1, <2>2, <2>3
<1> HIDE DEF q, c
<1>3. M \in Nat /\ M > 0 /\ Len(q) <= M /\ Len(c) <= M /\ (M = Len(q) \/ M = Len(c))
  BY <1>2
<1>4. L \in Nat /\ L <= M /\ L >= Len(c) - Len(q) /\ (L = 0 => q = c)
  BY <1>2, <1>3, LevenshteinProps
<1>5. /\ IsFiniteSet(Q) /\ IsFiniteSet(C) /\ Cardinality(Q) <= Len(qn) /\ Cardinality(Q) \in Nat
      /\ Q # {}
  <2>1. ASSUME NEW w \in NormalForms
        PROVE  IsFiniteSet(Range(w)) /\ Cardinality(Range(w)) <= Len(w) /\ Cardinality(Range(w)) \in Nat
    <3> DEFINE D == 1 .. Len(w)
    <3>1. Len(w) \in Nat /\ w \in Surjection(D, Range(w)) /\ IsFiniteSet(D) /\ Cardinality(D) = Len(w)
      <4>1. Len(w) \in Nat /\ DOMAIN w = D /\ w = [k \in D |-> w[k]]
        BY DEF NormalForms
      <4>2. w \in Surjection(D, Range(w))
        BY <4>1 DEF Surjection, Range
      <4>3. IsFiniteSet(D) /\ Cardinality(D) = Len(w)
        <5>1. \A k \in Nat : IsFiniteSet(1 .. k) /\ Cardinality(1 .. k) = k
          BY FS_Interval
        <5> QED
          BY <4>1, <5>1
      <4> QED
        BY <4>1, <4>2, <4>3
    <3> HIDE DEF D
    <3> QED
      BY <3>1, FS_Surjection, FS_CardinalityType
  <2>2. Q # {}
    <3>1. 1 \in DOMAIN qn
      BY DEF NormalForms
    <3> QED
      BY <3>1 DEF Range
  <2> QED
    BY <2>1, <2>2
<1> HIDE DEF Q, C
<1>6. /\ I \in Nat /\ U \in Nat /\ U > 0 /\ I <= U /\ I <= Cardinality(Q)
  <2>1. IsFiniteSet(Q \union C) /\ IsFiniteSet(Q \intersect C) /\ I <= Cardinality(Q)
    BY <1>5, FS_Union, FS_Intersection
  <2>2. I \in Nat /\ U \in Nat
    BY <2>1, FS_CardinalityType
  <2>3. Q \intersect C \in SUBSET (Q \union C)
    OBVIOUS
  <2>4. I <= U
    BY <2>1, <2>3, FS_Subset
  <2>5. U # 0
    <3>1. Q \union C # {}
      BY <1>5
    <3> QED
      BY <2>1, <3>1, FS_EmptySet
  <2> HIDE DEF I, U
  <2> QED
    BY <2>1, <2>2, <2>4, <2>5
<1> HIDE DEF I, U, M, L
<1>7. /\ n \in Nat /\ d \in Nat \ {0} /\ n <= d
      /\ (I < U /\ I <= 698) \/ (I = U /\ 700 * L > M) => 2000 * n < 1999 * d
  <2>1. I \in Nat /\ U \in Nat /\ M \in Nat /\ L \in Nat /\ U > 0 /\ M > 0 /\ I <= U /\ L <= M
    BY <1>3, <1>4, <1>6
  <2>2. WeightOf(I, U, M, L) \in Nat /\ WeightOfAll(U, M) \in Nat \ {0}
    BY <2>1, WeightProps
  <2>3. WeightOf(I, U, M, L) <= WeightOfAll(U, M)
    BY <2>1, WeightProps
  <2>4. I < U /\ I <= 698 => 2000 * WeightOf(I, U, M, L) < 1999 * WeightOfAll(U, M)
    BY <2>1, WeightProps
  <2>5. I = U /\ 700 * L > M => 2000 * WeightOf(I, U, M, L) < 1999 * WeightOfAll(U, M)
    BY <2>1, WeightProps
  <2> QED
    BY <2>2, <2>3, <2>4, <2>5
<1> HIDE DEF n, d
<1>8. ASSUME qn # cn, Len(q) <= 698 PROVE 2000 * n < 1999 * d
  <2>1. L # 0
    BY <1>4, <1>8, TextIsInjective DEF q, c
  <2>2. 700 * L > M
    BY <1>2, <1>3, <1>4, <1>8, <2>1
  <2>3. I <= 698
    BY <1>2, <1>5, <1>6, <1>8
  <2> QED
    BY <1>6, <1>7, <2>2, <2>3
<1>9. <<n, d>> \in Fractions
  BY <1>7 DEF Fractions
<1> QED
  BY <1>1, <1>8, <1>9 DEF LongestQuery, q

\* The likeness of two names is a fraction; nine tenths when all words asked for are
\* there; and close to one only for the same name.
LEMMA SimilarityProps ==
    ASSUME NEW q, IsName(q), NEW c, IsName(c)
    PROVE  /\ similarity(q, c) \in Fractions
           /\ KeptLetters(q) # {} /\ KeptLetters(q) \subseteq KeptLetters(c) => ~Below(similarity(q, c), <<90, 100>>)
           /\ Len(Text(normalizeName(q))) <= LongestQuery /\ 2000 * similarity(q, c)[1] >= 1999 * similarity(q, c)[2]
              => normalizeName(q) = normalizeName(c)
<1> DEFINE qn == normalizeName(q)
           cn == normalizeName(c)
           s == Weighted(qn, cn)
           t == <<90, 100>>
<1>1. /\ qn \in NormalForms /\ Range(qn) = KeptLetters(q)
      /\ cn \in NormalForms /\ Range(cn) = KeptLetters(c)
  BY NormalProps
<1>2. similarity(q, c) = IF qn = <<>> \/ cn = <<>> THEN Zero ELSE IF qn = cn THEN One ELSE Score(qn, cn)
  BY DEF similarity
<1>3. /\ Zero \in Fractions /\ One \in Fractions /\ t \in Fractions
      /\ ~(2000 * Zero[1] >= 1999 * Zero[2]) /\ ~(2000 * t[1] >= 1999 * t[2]) /\ ~Below(One, t)
  BY DEF Zero, One, Fractions, Below
<1>4. Range(<<>>) = {}
  BY DEF Range
<1> HIDE DEF qn, cn, t
<1>5. CASE qn = <<>> \/ cn = <<>>
  <2>1. similarity(q, c) = Zero
    BY <1>2, <1>5
  <2>2. ~(KeptLetters(q) # {} /\ KeptLetters(q) \subseteq KeptLetters(c))
    BY <1>1, <1>4, <1>5
  <2> QED
    BY <1>3, <2>1, <2>2
<1>6. CASE qn # <<>> /\ cn # <<>> /\ qn = cn
  BY <1>2, <1>3, <1>6 DEF qn, cn, t
<1>7. CASE qn # <<>> /\ cn # <<>> /\ qn # cn
  <2>1. /\ s \in Fractions
        /\ Len(Text(qn)) <= LongestQuery => 2000 * s[1] < 1999 * s[2]
    BY <1>1, <1>7, WeightedProps
  <2>2. similarity(q, c) = Score(qn, cn)
    BY <1>2, <1>7
  <2>3. /\ Range(qn) \subseteq Range(cn) => Score(qn, cn) = Larger(s, t)
        /\ ~(Range(qn) \subseteq Range(cn)) => Score(qn, cn) = s
    BY DEF Score, t
  <2> HIDE DEF s
  <2>4. s[1] \in Nat /\ s[2] \in Nat
    BY <2>1 DEF Fractions
  <2>5. Larger(s, t) \in {s, t} /\ ~Below(Larger(s, t), t)
    BY <1>3, <2>1, BelowProps DEF Larger
  <2>6. /\ Score(qn, cn) \in {s, t}
        /\ Range(qn) \subseteq Range(cn) => ~Below(Score(qn, cn), t)
    BY <2>3, <2>5
  <2>7. Len(Text(qn)) <= LongestQuery => ~(2000 * Score(qn, cn)[1] >= 1999 * Score(qn, cn)[2])
    BY <1>3, <2>1, <2>4, <2>6
  <2>8. similarity(q, c) \in Fractions
    BY <1>3, <2>1, <2>2, <2>6
  <2>9. KeptLetters(q) \subseteq KeptLetters(c) => ~Below(similarity(q, c), t)
    BY <1>1, <2>2, <2>6
  <2>10. Len(Text(qn)) <= LongestQuery => ~(2000 * similarity(q, c)[1] >= 1999 * similarity(q, c)[2])
    BY <2>2, <2>7
  <2> QED
    BY <2>8, <2>9, <2>10 DEF t, qn
<1> QED
  BY <1>5, <1>6, <1>7

----------------------------------------------------------------------------
(* Name matching: the inductive invariant.                                 *)

\* The k-th name of a record of a list, and how close it is to what is asked for:
\* NameAt and Likeness, of any query and list.
NameIn(x, r, k) == IF k = 0 THEN x[r].name ELSE x[r].aliases[k]
LikenessIn(q, x, r, k) == similarity(q, NameIn(x, r, k))
Aliases(x, r) == Len(x[r].aliases)

\* A name is the closest of a record's first names, and the record's own if none is
\* closer.
IsClosest(q, x, r, k, last) ==
    /\ k \in 0 .. last
    /\ \A l \in 0 .. last : ~Below(LikenessIn(q, x, r, k), LikenessIn(q, x, r, l))
    /\ k # 0 => Below(LikenessIn(q, x, r, 0), LikenessIn(q, x, r, k))

MatchRecords == [rec : Nat, name : Nat, score : 0 .. 1000]

IsMatch(q, x, m) ==
    /\ IsClosest(q, x, m.rec, m.name, Aliases(x, m.rec))
    /\ m.score = Rounded(LikenessIn(q, x, m.rec, m.name))

IsHit(q, x, t, r) == \E k \in 0 .. Aliases(x, r) : ~Below(LikenessIn(q, x, r, k), <<t, 100>>)

\* The matches of a list's records before the r-th.
AreMatches(q, x, t, ms, r) ==
    /\ ms \in Seq(MatchRecords)
    /\ \A k \in DOMAIN ms : ms[k].rec \in 1 .. r - 1 /\ IsMatch(q, x, ms[k])
    /\ \A k, l \in DOMAIN ms : ms[k].rec = ms[l].rec => k = l
    /\ \A s \in 1 .. r - 1 : (\E m \in Range(ms) : m.rec = s) <=> IsHit(q, x, t, s)

\* The best so far is of a record's names so far.
IsBestSoFar(q, x, r, l, s, k) ==
    /\ r \in DOMAIN x /\ l \in 1 .. Aliases(x, r) + 1
    /\ IsClosest(q, x, r, k, l - 1) /\ s = LikenessIn(q, x, r, k)

IsDescending(ms) == \A k, l \in DOMAIN ms : k < l => ms[k].score >= ms[l].score

MatchTypes ==
    /\ query \in Queries /\ index \in Indexes /\ threshold \in Thresholds
    /\ rec \in 1 .. Len(index) + 1 /\ alias \in Nat /\ best \in Fractions /\ sorted \in BOOLEAN

BestSoFar == alias > 0 => IsBestSoFar(query, index, rec, alias, best, bestName)
MatchesSoFar == AreMatches(query, index, threshold, matches, rec)
MatchSorted == sorted => rec > Len(index) /\ IsDescending(matches)

MatchIInv == MatchTypes /\ BestSoFar /\ MatchesSoFar /\ MatchSorted

LEMMA IndexProps ==
    ASSUME NEW q \in Queries, NEW x \in Indexes
    PROVE  /\ Len(x) \in Nat /\ DOMAIN x = 1 .. Len(x)
           /\ IsName(q) /\ Len(Text(normalizeName(q))) <= LongestQuery
           /\ \A r \in DOMAIN x :
                /\ Aliases(x, r) \in Nat /\ DOMAIN x[r].aliases = 1 .. Aliases(x, r)
                /\ \A k \in 0 .. Aliases(x, r) : IsName(NameIn(x, r, k)) /\ LikenessIn(q, x, r, k) \in Fractions
<1>1. /\ Len(x) \in Nat /\ DOMAIN x = 1 .. Len(x) /\ IsName(q)
      /\ Len(Text(normalizeName(q))) <= LongestQuery
  BY NamesAssumption, LengthAssumption
<1>2. ASSUME NEW r \in DOMAIN x
      PROVE  /\ Aliases(x, r) \in Nat /\ DOMAIN x[r].aliases = 1 .. Aliases(x, r)
             /\ \A k \in 0 .. Aliases(x, r) : IsName(NameIn(x, r, k)) /\ LikenessIn(q, x, r, k) \in Fractions
  <2>1. IsName(x[r].name) /\ IsAliases(x[r].aliases)
    BY <1>2, NamesAssumption
  <2>2. /\ Aliases(x, r) \in Nat /\ DOMAIN x[r].aliases = 1 .. Aliases(x, r)
        /\ \A k \in 1 .. Aliases(x, r) : IsName(x[r].aliases[k])
    BY <2>1 DEF IsAliases, IsName, Aliases
  <2>3. ASSUME NEW k \in 0 .. Aliases(x, r) PROVE IsName(NameIn(x, r, k))
    <3>1. k = 0 \/ k \in 1 .. Aliases(x, r)
      BY <2>2
    <3> QED
      BY <2>1, <2>2, <3>1 DEF NameIn
  <2> QED
    BY <1>1, <2>2, <2>3, SimilarityProps DEF LikenessIn
<1> QED
  BY <1>1, <1>2

LEMMA ThresholdProps == \A t \in Thresholds : t \in 50 .. 100 /\ <<t, 100>> \in Fractions
BY NamesAssumption DEF Fractions

\* The record's own name is the first to be the closest.
LEMMA FirstIsBest ==
    ASSUME NEW q \in Queries, NEW x \in Indexes, NEW r \in DOMAIN x
    PROVE  IsBestSoFar(q, x, r, 1, LikenessIn(q, x, r, 0), 0)
<1>1. Aliases(x, r) \in Nat /\ LikenessIn(q, x, r, 0) \in Fractions
  BY IndexProps
<1>2. \A l \in 0 .. 1 - 1 : l = 0
  OBVIOUS
<1>3. IsClosest(q, x, r, 0, 1 - 1)
  BY <1>1, <1>2, BelowProps DEF IsClosest
<1> QED
  BY <1>1, <1>3 DEF IsBestSoFar

\* The next alias replaces the best if it is closer.
LEMMA NextIsBest ==
    ASSUME NEW q \in Queries, NEW x \in Indexes, NEW r, NEW l \in Nat, NEW s, NEW k,
           IsBestSoFar(q, x, r, l, s, k), l <= Aliases(x, r),
           NEW next, next = LikenessIn(q, x, r, l)
    PROVE  /\ Below(s, next) => IsBestSoFar(q, x, r, l + 1, next, l)
           /\ ~Below(s, next) => IsBestSoFar(q, x, r, l + 1, s, k)
<1>1. /\ r \in DOMAIN x /\ l \in 1 .. Aliases(x, r) + 1
      /\ IsClosest(q, x, r, k, l - 1) /\ s = LikenessIn(q, x, r, k)
  BY DEF IsBestSoFar
<1>2. Aliases(x, r) \in Nat /\ \A n \in 0 .. Aliases(x, r) : LikenessIn(q, x, r, n) \in Fractions
  BY <1>1, IndexProps
<1>3. /\ l > 0 /\ l + 1 \in 1 .. Aliases(x, r) + 1 /\ l + 1 - 1 = l /\ l # 0 /\ l \in 0 .. l
      /\ 0 \in 0 .. l - 1 /\ 0 \in 0 .. Aliases(x, r)
      /\ \A n \in 0 .. l : (n \in 0 .. l - 1 \/ n = l) /\ n \in 0 .. Aliases(x, r)
      /\ \A n \in 0 .. l - 1 : n \in 0 .. l
  BY <1>1, <1>2
<1>4. /\ k \in 0 .. l - 1 /\ \A n \in 0 .. l - 1 : ~Below(s, LikenessIn(q, x, r, n))
      /\ k # 0 => Below(LikenessIn(q, x, r, 0), s)
  BY <1>1 DEF IsClosest
<1>5. s \in Fractions /\ next \in Fractions /\ \A n \in 0 .. l : LikenessIn(q, x, r, n) \in Fractions
  BY <1>1, <1>2, <1>3, <1>4
<1>6. ASSUME Below(s, next) PROVE IsBestSoFar(q, x, r, l + 1, next, l)
  <2>1. ~Below(next, s) /\ ~Below(next, next)
    BY <1>5, <1>6, BelowProps
  <2>2. ASSUME NEW n \in 0 .. l PROVE ~Below(next, LikenessIn(q, x, r, n))
    <3>1. CASE n = l
      BY <2>1, <3>1
    <3>2. CASE n # l
      <4>1. ~Below(s, LikenessIn(q, x, r, n)) /\ LikenessIn(q, x, r, n) \in Fractions
        BY <1>3, <1>4, <1>5, <3>2
      <4> QED
        BY <1>5, <2>1, <4>1, BelowProps
    <3> QED
      BY <3>1, <3>2
  <2>3. Below(LikenessIn(q, x, r, 0), next)
    <3>1. ~Below(s, LikenessIn(q, x, r, 0)) /\ LikenessIn(q, x, r, 0) \in Fractions
      BY <1>2, <1>3, <1>4
    <3> QED
      BY <1>5, <1>6, <3>1, BelowProps
  <2>4. IsClosest(q, x, r, l, l)
    BY <1>3, <2>2, <2>3 DEF IsClosest
  <2> QED
    BY <1>1, <1>3, <2>4 DEF IsBestSoFar
<1>7. ASSUME ~Below(s, next) PROVE IsBestSoFar(q, x, r, l + 1, s, k)
  <2>1. \A n \in 0 .. l : ~Below(s, LikenessIn(q, x, r, n))
    BY <1>3, <1>4, <1>7
  <2>2. IsClosest(q, x, r, k, l)
    BY <1>1, <1>3, <1>4, <2>1 DEF IsClosest
  <2> QED
    BY <1>1, <1>3, <2>2 DEF IsBestSoFar
<1> QED
  BY <1>6, <1>7

\* A record whose names have all been compared is a match if its best one is near enough.
LEMMA NextMatch ==
    ASSUME NEW q \in Queries, NEW x \in Indexes, NEW t \in Thresholds, NEW ms, NEW r \in DOMAIN x,
           AreMatches(q, x, t, ms, r), NEW s, NEW k,
           IsBestSoFar(q, x, r, Aliases(x, r) + 1, s, k),
           NEW m, m = [rec |-> r, name |-> k, score |-> Rounded(s)]
    PROVE  /\ ~Below(s, <<t, 100>>) => AreMatches(q, x, t, Append(ms, m), r + 1)
           /\ Below(s, <<t, 100>>) => AreMatches(q, x, t, ms, r + 1)
<1> DEFINE last == Aliases(x, r)
           N == Len(ms)
<1>1. last \in Nat /\ r \in Nat /\ r > 0 /\ \A n \in 0 .. last : LikenessIn(q, x, r, n) \in Fractions
  BY IndexProps
<1>2. IsClosest(q, x, r, k, last) /\ s = LikenessIn(q, x, r, k)
  <2> DEFINE l == last + 1
  <2>1. IsBestSoFar(q, x, r, l, s, k)
    OBVIOUS
  <2>2. l - 1 = last
    BY <1>1
  <2> HIDE DEF last, l
  <2> QED
    BY <2>1, <2>2 DEF IsBestSoFar
<1>3. k \in 0 .. last /\ \A n \in 0 .. last : ~Below(s, LikenessIn(q, x, r, n))
  BY <1>2 DEF IsClosest
<1>4. s \in Fractions /\ Rounded(s) \in 0 .. 1000 /\ k \in Nat
  <2>1. s \in Fractions
    BY <1>1, <1>2, <1>3
  <2> QED
    BY <1>1, <1>3, <2>1, RoundedProps
<1>5. IsHit(q, x, t, r) <=> ~Below(s, <<t, 100>>)
  <2> DEFINE near == <<t, 100>>
  <2>1. near \in Fractions
    BY ThresholdProps
  <2> HIDE DEF near
  <2>2. ASSUME NEW n \in 0 .. last, ~Below(LikenessIn(q, x, r, n), near) PROVE ~Below(s, near)
    <3>1. ~Below(s, LikenessIn(q, x, r, n)) /\ LikenessIn(q, x, r, n) \in Fractions
      BY <1>1, <1>3
    <3> QED
      BY <1>4, <2>1, <2>2, <3>1, BelowProps
  <2> QED
    BY <1>2, <1>3, <2>2 DEF IsHit, near
<1>6. /\ ms \in Seq(MatchRecords) /\ N \in Nat /\ DOMAIN ms = 1 .. N
      /\ \A n \in 1 .. N : ms[n].rec \in 1 .. r - 1 /\ IsMatch(q, x, ms[n])
      /\ \A n, l \in 1 .. N : ms[n].rec = ms[l].rec => n = l
      /\ \A n \in 1 .. r - 1 : (\E y \in Range(ms) : y.rec = n) <=> IsHit(q, x, t, n)
  BY DEF AreMatches
<1>7. /\ r + 1 - 1 = r /\ r \in 1 .. r
      /\ \A n \in 1 .. r : n \in 1 .. r - 1 \/ n = r
      /\ \A n \in 1 .. r - 1 : n \in 1 .. r /\ n # r
  BY <1>1
<1>8. \A y \in Range(ms) : y.rec # r
  BY <1>6, <1>7 DEF Range
<1>9. ASSUME ~Below(s, <<t, 100>>) PROVE AreMatches(q, x, t, Append(ms, m), r + 1)
  <2> DEFINE n == Append(ms, m)
  <2>1. m \in MatchRecords /\ m.rec = r
    BY <1>1, <1>4 DEF MatchRecords
  <2>2. IsMatch(q, x, m)
    BY <1>2 DEF IsMatch
  <2>3. /\ n \in Seq(MatchRecords) /\ DOMAIN n = 1 .. N + 1
        /\ \A l \in 1 .. N : n[l] = ms[l]
        /\ n[N + 1] = m
    BY <1>6, <2>1
  <2>4. \A l \in 1 .. N + 1 : l \in 1 .. N \/ l = N + 1
    BY <1>6
  <2> HIDE DEF n
  <2>5. \A l \in DOMAIN n : n[l].rec \in 1 .. r /\ IsMatch(q, x, n[l])
    BY <1>6, <1>7, <2>1, <2>2, <2>3, <2>4
  <2>6. \A l \in 1 .. N : n[l].rec # r
    BY <1>6, <1>7, <2>3
  <2>7. \A l, o \in DOMAIN n : n[l].rec = n[o].rec => l = o
    BY <1>6, <2>1, <2>3, <2>4, <2>6
  <2>8. Range(n) = Range(ms) \union {m}
    BY <1>6, <2>3, <2>4 DEF Range
  <2>9. \A l \in 1 .. r : (\E y \in Range(n) : y.rec = l) <=> IsHit(q, x, t, l)
    <3>1. \A l : (\E y \in Range(n) : y.rec = l) <=> (\E y \in Range(ms) : y.rec = l) \/ l = r
      BY <2>1, <2>8
    <3> QED
      BY <1>5, <1>6, <1>7, <1>9, <3>1
  <2>10. AreMatches(q, x, t, n, r + 1)
    BY <1>7, <2>3, <2>5, <2>7, <2>9 DEF AreMatches
  <2> QED
    BY <2>10 DEF n
<1>10. ASSUME Below(s, <<t, 100>>) PROVE AreMatches(q, x, t, ms, r + 1)
  <2>1. \A n \in 1 .. r : (\E y \in Range(ms) : y.rec = n) <=> IsHit(q, x, t, n)
    BY <1>5, <1>6, <1>7, <1>8, <1>10
  <2>2. \A n \in 1 .. N : ms[n].rec \in 1 .. r
    BY <1>6, <1>7
  <2> QED
    BY <1>6, <1>7, <2>1, <2>2 DEF AreMatches
<1> QED
  BY <1>9, <1>10

----------------------------------------------------------------------------
(* Name matching: sorting.                                                 *)

InPlaceOf(s, n) == CHOOSE m \in s : Cardinality({y \in s : InOrder(y, m)}) = n - 1

\* Matches of different records are in one order.
LEMMA InPlaceOfProps ==
    ASSUME NEW S \in SUBSET MatchRecords, IsFiniteSet(S), \A y, z \in S : y.rec = z.rec => y = z
    PROVE  /\ \A n \in 1 .. Cardinality(S) : InPlaceOf(S, n) \in S
           /\ \A n, l \in 1 .. Cardinality(S) : InPlaceOf(S, n) = InPlaceOf(S, l) => n = l
           /\ \A n, l \in 1 .. Cardinality(S) : n < l => InPlaceOf(S, n).score >= InPlaceOf(S, l).score
           /\ \A y \in S : \E n \in 1 .. Cardinality(S) : InPlaceOf(S, n) = y
<1> DEFINE R == {p \in S \X S : InOrder(p[1], p[2])}
           N == Cardinality(S)
<1>1. \A y, z \in S : <<y, z>> \in R <=> InOrder(y, z)
  OBVIOUS
<1>2. \A y \in S : y.rec \in Nat /\ y.score \in Nat
  BY DEF MatchRecords
<1>3. /\ \A y \in S : <<y, y>> \notin R
      /\ \A y, z \in S : y # z => <<y, z>> \in R \/ <<z, y>> \in R
      /\ \A y, z, w \in S : <<y, z>> \in R /\ <<z, w>> \in R => <<y, w>> \in R
  <2>1. \A y \in S : ~InOrder(y, y)
    BY <1>2 DEF InOrder
  <2>2. \A y, z \in S : y # z => InOrder(y, z) \/ InOrder(z, y)
    BY <1>2 DEF InOrder
  <2>3. \A y, z, w \in S : InOrder(y, z) /\ InOrder(z, w) => InOrder(y, w)
    BY <1>2 DEF InOrder
  <2> QED
    BY <1>1, <2>1, <2>2, <2>3
<1>4. \A y \in S : Rank(S, R, y) = Cardinality({z \in S : InOrder(z, y)})
  <2>1. \A y \in S : {z \in S : <<z, y>> \in R} = {z \in S : InOrder(z, y)}
    BY <1>1
  <2> QED
    BY <2>1 DEF Rank
<1> HIDE DEF R
<1>5. /\ N \in Nat
      /\ \A y \in S : Rank(S, R, y) \in 0 .. N - 1
      /\ \A y, z \in S : <<y, z>> \in R => Rank(S, R, y) < Rank(S, R, z)
      /\ \A y, z \in S : Rank(S, R, y) = Rank(S, R, z) => y = z
      /\ \A n \in 0 .. N - 1 : \E y \in S : Rank(S, R, y) = n
  <2>1. N \in Nat
    BY FS_CardinalityType
  <2>2. \A y \in S : Rank(S, R, y) \in 0 .. N - 1
    BY <1>3, Ranks
  <2>3. \A y, z \in S : <<y, z>> \in R => Rank(S, R, y) < Rank(S, R, z)
    BY <1>3, Ranks
  <2>4. \A y, z \in S : Rank(S, R, y) = Rank(S, R, z) => y = z
    BY <1>3, Ranks
  <2>5. \A n \in 0 .. N - 1 : \E y \in S : Rank(S, R, y) = n
    BY <1>3, Ranks
  <2> HIDE DEF N
  <2> QED
    BY <2>1, <2>2, <2>3, <2>4, <2>5
<1> HIDE DEF N
<1>6. ASSUME NEW n \in 1 .. N PROVE InPlaceOf(S, n) \in S /\ Rank(S, R, InPlaceOf(S, n)) = n - 1
  <2>1. n - 1 \in 0 .. N - 1
    BY <1>5
  <2>2. \E y \in S : Cardinality({z \in S : InOrder(z, y)}) = n - 1
    BY <1>4, <1>5, <2>1
  <2>3. InPlaceOf(S, n) \in S /\ Cardinality({z \in S : InOrder(z, InPlaceOf(S, n))}) = n - 1
    BY <2>2 DEF InPlaceOf
  <2> QED
    BY <1>4, <2>3
<1>7. ASSUME NEW n \in 1 .. N, NEW l \in 1 .. N, InPlaceOf(S, n) = InPlaceOf(S, l) PROVE n = l
  <2>1. n - 1 = l - 1
    BY <1>6, <1>7
  <2> QED
    BY <1>5, <2>1
<1>8. ASSUME NEW n \in 1 .. N, NEW l \in 1 .. N, n < l
      PROVE  InPlaceOf(S, n).score >= InPlaceOf(S, l).score
  <2> DEFINE y == InPlaceOf(S, n)
             z == InPlaceOf(S, l)
  <2>1. y \in S /\ z \in S /\ Rank(S, R, y) = n - 1 /\ Rank(S, R, z) = l - 1 /\ y # z
    BY <1>5, <1>6, <1>7, <1>8
  <2> HIDE DEF y, z
  <2>2. <<z, y>> \notin R
    <3>1. ~(l - 1 < n - 1)
      BY <1>5, <1>8
    <3> QED
      BY <1>5, <2>1, <3>1
  <2>3. InOrder(y, z)
    BY <1>1, <1>3, <2>1, <2>2
  <2>4. y.score >= z.score
    BY <1>2, <2>1, <2>3 DEF InOrder
  <2> QED
    BY <2>4 DEF y, z
<1>9. ASSUME NEW y \in S PROVE \E n \in 1 .. N : InPlaceOf(S, n) = y
  <2> DEFINE n == Rank(S, R, y) + 1
  <2>1. n \in 1 .. N /\ n - 1 = Rank(S, R, y)
    BY <1>5
  <2> HIDE DEF n
  <2>2. InPlaceOf(S, n) = y
    BY <1>5, <1>6, <2>1
  <2> QED
    BY <2>1, <2>2
<1> QED
  BY <1>6, <1>7, <1>8, <1>9 DEF N

\* Sorting keeps the matches and puts the highest scores first.
LEMMA SortedMatches ==
    ASSUME NEW q, NEW x, NEW t, NEW ms, NEW r, AreMatches(q, x, t, ms, r),
           NEW n, n = [k \in DOMAIN ms |-> InPlaceOf(Range(ms), k)]
    PROVE  AreMatches(q, x, t, n, r) /\ IsDescending(n)
<1> DEFINE S == Range(ms)
           N == Len(ms)
<1>1. /\ ms \in Seq(MatchRecords) /\ N \in Nat /\ DOMAIN ms = 1 .. N
      /\ \A k \in 1 .. N : ms[k].rec \in 1 .. r - 1 /\ IsMatch(q, x, ms[k]) /\ ms[k] \in MatchRecords
      /\ \A k, l \in 1 .. N : ms[k].rec = ms[l].rec => k = l
      /\ \A k \in 1 .. r - 1 : (\E m \in S : m.rec = k) <=> IsHit(q, x, t, k)
  BY DEF AreMatches
<1>2. /\ S \in SUBSET MatchRecords /\ \A y, z \in S : y.rec = z.rec => y = z
      /\ \A y \in S : y.rec \in 1 .. r - 1 /\ IsMatch(q, x, y)
      /\ S = {ms[k] : k \in 1 .. N}
  BY <1>1 DEF Range
<1>3. IsFiniteSet(S) /\ Cardinality(S) = N
  <2> DEFINE D == 1 .. N
  <2>1. IsFiniteSet(D) /\ Cardinality(D) = N
    BY <1>1, FS_Interval
  <2>2. \A k, l \in D : ms[k] = ms[l] => k = l
    BY <1>1
  <2>3. S = {ms[k] : k \in D}
    BY <1>2
  <2> HIDE DEF D, S
  <2>4. IsFiniteSet({ms[k] : k \in D}) /\ Cardinality({ms[k] : k \in D}) = Cardinality(D)
    BY <2>1, <2>2, ImageProps
  <2> QED
    BY <2>1, <2>3, <2>4
<1> HIDE DEF S
<1>4. /\ \A k \in 1 .. N : InPlaceOf(S, k) \in S
      /\ \A k, l \in 1 .. N : InPlaceOf(S, k) = InPlaceOf(S, l) => k = l
      /\ \A k, l \in 1 .. N : k < l => InPlaceOf(S, k).score >= InPlaceOf(S, l).score
      /\ \A y \in S : \E k \in 1 .. N : InPlaceOf(S, k) = y
  BY <1>2, <1>3, InPlaceOfProps
<1>5. DOMAIN n = 1 .. N /\ \A k \in 1 .. N : n[k] = InPlaceOf(S, k)
  BY <1>1 DEF S
<1>6. n \in Seq(MatchRecords)
  <2>1. n = [k \in 1 .. N |-> InPlaceOf(S, k)]
    BY <1>1 DEF S
  <2>2. n \in [1 .. N -> MatchRecords]
    BY <1>2, <1>4, <2>1
  <2> QED
    BY <1>1, <2>2
<1>7. Range(n) = S
  <2>1. DOMAIN n = 1 .. N
    BY <1>5
  <2>2. \A y : y \in Range(n) <=> \E k \in 1 .. N : y = n[k]
    BY <2>1, Zenon DEF Range
  <2>3. \A y \in Range(n) : y \in S
    BY <1>4, <1>5, <2>2
  <2>4. \A y \in S : y \in Range(n)
    BY <1>4, <1>5, <2>2
  <2> QED
    BY <2>3, <2>4
<1>8. \A k, l \in 1 .. N : n[k].rec = n[l].rec => k = l
  <2> TAKE k, l \in 1 .. N
  <2>1. n[k] \in S /\ n[l] \in S /\ n[k] = InPlaceOf(S, k) /\ n[l] = InPlaceOf(S, l)
    BY <1>4, <1>5
  <2>2. n[k].rec = n[l].rec => n[k] = n[l]
    BY <1>2, <2>1
  <2> QED
    BY <1>4, <2>1, <2>2
<1>9. AreMatches(q, x, t, n, r)
  <2>1. \A k \in 1 .. N : n[k].rec \in 1 .. r - 1 /\ IsMatch(q, x, n[k])
    <3> TAKE k \in 1 .. N
    <3>1. n[k] \in S
      BY <1>4, <1>5
    <3> QED
      BY <1>2, <3>1
  <2>2. \A k \in 1 .. r - 1 : (\E m \in Range(n) : m.rec = k) <=> IsHit(q, x, t, k)
    BY <1>1, <1>7
  <2>3. DOMAIN n = 1 .. N
    BY <1>5
  <2> QED
    BY <1>6, <1>8, <2>1, <2>2, <2>3 DEF AreMatches
<1>10. IsDescending(n)
  BY <1>4, <1>5 DEF IsDescending
<1> QED
  BY <1>9, <1>10

----------------------------------------------------------------------------
(* Name matching: every action preserves the invariant.                    *)

LEMMA MatchInitIInv == MatchInit => MatchIInv
<1> SUFFICES ASSUME MatchInit PROVE MatchIInv
  OBVIOUS
<1>1. MatchTypes
  <2>1. Zero \in Fractions
    BY DEF Zero, Fractions
  <2>2. Len(index) \in Nat /\ index \in Indexes /\ query \in Queries /\ threshold \in Thresholds
    BY IndexProps DEF MatchInit
  <2>3. 1 \in 1 .. Len(index) + 1
    BY <2>2
  <2> QED
    BY <2>1, <2>2, <2>3 DEF MatchInit, MatchTypes
<1>2. BestSoFar /\ MatchSorted
  BY DEF MatchInit, BestSoFar, MatchSorted
<1>3. MatchesSoFar
  <2>1. matches = <<>> /\ rec = 1
    BY DEF MatchInit
  <2>2. 1 .. 1 - 1 = {} /\ <<>> \in Seq(MatchRecords) /\ DOMAIN <<>> = {}
    OBVIOUS
  <2> QED
    BY <2>1, <2>2 DEF MatchesSoFar, AreMatches
<1> QED
  BY <1>1, <1>2, <1>3 DEF MatchIInv

LEMMA NameStep == MatchIInv /\ Name => MatchIInv'
<1> SUFFICES ASSUME MatchIInv, Name PROVE MatchIInv'
  OBVIOUS
<1>1. /\ query \in Queries /\ index \in Indexes /\ rec \in 1 .. Len(index) + 1
      /\ rec <= Len(index) /\ best' = LikenessIn(query, index, rec, 0) /\ bestName' = 0 /\ alias' = 1
      /\ UNCHANGED <<query, index, threshold, rec, matches, sorted>>
  BY DEF MatchIInv, MatchTypes, Name, LikenessIn, NameIn
<1>2. rec \in DOMAIN index
  BY <1>1, IndexProps
<1>3. IsBestSoFar(query, index, rec, 1, LikenessIn(query, index, rec, 0), 0)
  BY <1>1, <1>2, FirstIsBest
<1>4. LikenessIn(query, index, rec, 0) \in Fractions
  <2>1. Aliases(index, rec) \in Nat /\ 0 \in 0 .. Aliases(index, rec)
    BY <1>1, <1>2, IndexProps
  <2> QED
    BY <1>1, <1>2, <2>1, IndexProps
<1>5. MatchTypes'
  BY <1>1, <1>4 DEF MatchIInv, MatchTypes
<1>6. BestSoFar'
  BY <1>1, <1>3 DEF BestSoFar
<1>7. MatchesSoFar' /\ MatchSorted'
  BY <1>1 DEF MatchIInv, MatchesSoFar, MatchSorted
<1> QED
  BY <1>5, <1>6, <1>7 DEF MatchIInv

LEMMA AliasStep == MatchIInv /\ Alias => MatchIInv'
<1> SUFFICES ASSUME MatchIInv, Alias PROVE MatchIInv'
  OBVIOUS
<1> DEFINE s == LikenessIn(query, index, rec, alias)
<1>1. /\ query \in Queries /\ index \in Indexes /\ rec \in 1 .. Len(index) + 1 /\ rec <= Len(index)
      /\ alias \in DOMAIN index[rec].aliases /\ alias \in Nat /\ best \in Fractions /\ alias' = alias + 1
      /\ UNCHANGED <<query, index, threshold, rec, matches, sorted>>
  BY DEF MatchIInv, MatchTypes, Alias
<1>2. rec \in DOMAIN index
  BY <1>1, IndexProps
<1>3. alias \in 1 .. Aliases(index, rec) /\ alias > 0 /\ alias <= Aliases(index, rec) /\ s \in Fractions
  <2>1. Aliases(index, rec) \in Nat /\ DOMAIN index[rec].aliases = 1 .. Aliases(index, rec)
    BY <1>1, <1>2, IndexProps
  <2>2. alias \in 0 .. Aliases(index, rec) /\ alias > 0 /\ alias <= Aliases(index, rec)
    BY <1>1, <2>1
  <2> QED
    BY <1>1, <1>2, <2>1, <2>2, IndexProps
<1>4. s = similarity(query, index[rec].aliases[alias])
  BY <1>3 DEF LikenessIn, NameIn
<1>5. IF Below(best, s) THEN best' = s /\ bestName' = alias ELSE best' = best /\ bestName' = bestName
  BY <1>4 DEF Alias, Better
<1>6. IsBestSoFar(query, index, rec, alias, best, bestName)
  BY <1>3 DEF MatchIInv, BestSoFar
<1> HIDE DEF s
<1>7. /\ Below(best, s) => IsBestSoFar(query, index, rec, alias + 1, s, alias)
      /\ ~Below(best, s) => IsBestSoFar(query, index, rec, alias + 1, best, bestName)
  BY <1>1, <1>3, <1>6, NextIsBest DEF s
<1>8. IsBestSoFar(query, index, rec, alias + 1, best', bestName') /\ best' \in Fractions
  BY <1>1, <1>3, <1>5, <1>7
<1>9. MatchTypes'
  BY <1>1, <1>8 DEF MatchIInv, MatchTypes
<1>10. BestSoFar'
  BY <1>1, <1>8 DEF BestSoFar
<1>11. MatchesSoFar' /\ MatchSorted'
  BY <1>1 DEF MatchIInv, MatchesSoFar, MatchSorted
<1> QED
  BY <1>9, <1>10, <1>11 DEF MatchIInv

LEMMA RecordStep == MatchIInv /\ Record => MatchIInv'
<1> SUFFICES ASSUME MatchIInv, Record PROVE MatchIInv'
  OBVIOUS
<1> DEFINE m == [rec |-> rec, name |-> bestName, score |-> Rounded(best)]
<1>1. /\ query \in Queries /\ index \in Indexes /\ threshold \in Thresholds /\ alias \in Nat
      /\ rec \in 1 .. Len(index) + 1 /\ rec <= Len(index) /\ alias > Aliases(index, rec)
      /\ rec' = rec + 1 /\ alias' = 0
      /\ UNCHANGED <<query, index, threshold, best, bestName, sorted>>
      /\ matches' = IF Hit THEN Append(matches, m) ELSE matches
  BY DEF MatchIInv, MatchTypes, Record, Aliases
<1>2. rec \in DOMAIN index /\ Len(index) \in Nat
  BY <1>1, IndexProps
<1>3. Aliases(index, rec) \in Nat
  BY <1>1, <1>2, IndexProps
<1>4. IsBestSoFar(query, index, rec, Aliases(index, rec) + 1, best, bestName)
  <2>1. IsBestSoFar(query, index, rec, alias, best, bestName)
    BY <1>1, <1>3 DEF MatchIInv, BestSoFar
  <2>2. alias = Aliases(index, rec) + 1
    BY <1>1, <1>3, <2>1 DEF IsBestSoFar
  <2> QED
    BY <2>1, <2>2
<1>5. AreMatches(query, index, threshold, matches, rec)
  BY DEF MatchIInv, MatchesSoFar
<1> HIDE DEF m
<1>6. /\ ~Below(best, <<threshold, 100>>) => AreMatches(query, index, threshold, Append(matches, m), rec + 1)
      /\ Below(best, <<threshold, 100>>) => AreMatches(query, index, threshold, matches, rec + 1)
  BY <1>1, <1>2, <1>4, <1>5, NextMatch DEF m
<1>7. AreMatches(query, index, threshold, matches', rec + 1)
  BY <1>1, <1>6 DEF Hit
<1>8. MatchesSoFar'
  BY <1>1, <1>7 DEF MatchesSoFar
<1>9. MatchTypes'
  BY <1>1, <1>2 DEF MatchIInv, MatchTypes
<1>10. BestSoFar' /\ MatchSorted'
  <2>1. ~sorted
    BY <1>1, <1>2 DEF MatchIInv, MatchSorted
  <2> QED
    BY <1>1, <2>1 DEF BestSoFar, MatchSorted
<1> QED
  BY <1>8, <1>9, <1>10 DEF MatchIInv

LEMMA SortStep == MatchIInv /\ Sort => MatchIInv'
<1> SUFFICES ASSUME MatchIInv, Sort PROVE MatchIInv'
  OBVIOUS
<1>1. /\ UNCHANGED <<query, index, threshold, rec, alias, best, bestName>> /\ sorted' = TRUE
      /\ rec > Len(index)
      /\ matches' = [k \in DOMAIN matches |-> InPlaceOf(Range(matches), k)]
  BY DEF Sort, InPlaceOf
<1>2. AreMatches(query, index, threshold, matches, rec)
  BY DEF MatchIInv, MatchesSoFar
<1>3. AreMatches(query, index, threshold, matches', rec) /\ IsDescending(matches')
  BY <1>1, <1>2, SortedMatches
<1>4. MatchesSoFar' /\ MatchSorted'
  BY <1>1, <1>3 DEF MatchesSoFar, MatchSorted
<1>5. MatchTypes' /\ BestSoFar'
  BY <1>1 DEF MatchIInv, MatchTypes, BestSoFar
<1> QED
  BY <1>4, <1>5 DEF MatchIInv

LEMMA MatchInvariance == MatchSpec => []MatchIInv
<1>1. MatchIInv /\ [MatchNext]_matchVars => MatchIInv'
  <2>1. MatchIInv /\ UNCHANGED matchVars => MatchIInv'
    BY DEF matchVars, MatchIInv, MatchTypes, BestSoFar, MatchesSoFar, MatchSorted
  <2> QED
    BY <2>1, NameStep, AliasStep, RecordStep, SortStep DEF MatchNext
<1> QED
  BY <1>1, MatchInitIInv, PTL DEF MatchSpec

----------------------------------------------------------------------------
(* Name matching: what the invariant says.                                 *)

\* What every property starts from.
LEMMA MatchProps ==
    ASSUME MatchIInv
    PROVE  /\ query \in Queries /\ index \in Indexes /\ threshold \in Thresholds
           /\ Len(index) \in Nat /\ DOMAIN index = 1 .. Len(index) /\ rec \in 1 .. Len(index) + 1
           /\ \A r \in DOMAIN index : Aliases(index, r) \in Nat /\ NamesOf(r) = 0 .. Aliases(index, r)
           /\ \A r, k : NameAt(r, k) = NameIn(index, r, k) /\ Likeness(r, k) = LikenessIn(query, index, r, k)
           /\ \A r : Matched(r) <=> \E m \in Range(matches) : m.rec = r
           /\ matches \in Seq(MatchRecords)
           /\ \A m \in Range(matches) :
                /\ m.rec \in 1 .. rec - 1 /\ m.rec \in DOMAIN index /\ IsMatch(query, index, m) /\ m \in MatchRecords
           /\ \A k, l \in DOMAIN matches : matches[k].rec = matches[l].rec => k = l
           /\ \A r \in 1 .. rec - 1 : Matched(r) <=> IsHit(query, index, threshold, r)
<1>1. /\ query \in Queries /\ index \in Indexes /\ threshold \in Thresholds /\ rec \in 1 .. Len(index) + 1
  BY DEF MatchIInv, MatchTypes
<1>2. Len(index) \in Nat /\ DOMAIN index = 1 .. Len(index) /\ \A r \in DOMAIN index : Aliases(index, r) \in Nat
  BY <1>1, IndexProps
<1>3. \A r \in DOMAIN index : NamesOf(r) = 0 .. Aliases(index, r)
  BY DEF NamesOf, Aliases
<1>4. \A r, k : NameAt(r, k) = NameIn(index, r, k) /\ Likeness(r, k) = LikenessIn(query, index, r, k)
  BY DEF NameAt, NameIn, Likeness, LikenessIn
<1>5. AreMatches(query, index, threshold, matches, rec)
  BY DEF MatchIInv, MatchesSoFar
<1>6. \A r \in 1 .. rec - 1 : r \in DOMAIN index
  BY <1>1, <1>2
<1>7. /\ matches \in Seq(MatchRecords)
      /\ \A k \in DOMAIN matches :
            matches[k].rec \in 1 .. rec - 1 /\ IsMatch(query, index, matches[k]) /\ matches[k] \in MatchRecords
      /\ \A k, l \in DOMAIN matches : matches[k].rec = matches[l].rec => k = l
      /\ \A r \in 1 .. rec - 1 : (\E m \in Range(matches) : m.rec = r) <=> IsHit(query, index, threshold, r)
  BY <1>5 DEF AreMatches
<1>8. \A m \in Range(matches) :
          /\ m.rec \in 1 .. rec - 1 /\ m.rec \in DOMAIN index /\ IsMatch(query, index, m) /\ m \in MatchRecords
  BY <1>6, <1>7 DEF Range
<1>9. \A r : Matched(r) <=> \E m \in Range(matches) : m.rec = r
  BY DEF Matched
<1> QED
  BY <1>1, <1>2, <1>3, <1>4, <1>7, <1>8, <1>9

LEMMA MatchTypeFollows == MatchIInv => MatchTypeOK
<1> SUFFICES ASSUME MatchIInv PROVE MatchTypeOK
  OBVIOUS
<1>1. best[1] \in Nat /\ best[2] \in Nat \ {0} /\ ~Below(One, best)
  <2>1. best \in Fractions
    BY DEF MatchIInv, MatchTypes
  <2> QED
    BY <2>1 DEF Fractions, Below, One
<1>2. ASSUME alias > 0 PROVE bestName \in NamesOf(rec)
  <2>1. IsBestSoFar(query, index, rec, alias, best, bestName)
    BY <1>2 DEF MatchIInv, BestSoFar
  <2>2. rec \in DOMAIN index /\ alias \in 1 .. Aliases(index, rec) + 1 /\ bestName \in 0 .. alias - 1
    BY <2>1 DEF IsBestSoFar, IsClosest
  <2>3. Aliases(index, rec) \in Nat /\ NamesOf(rec) = 0 .. Aliases(index, rec)
    BY <2>2, MatchProps
  <2> QED
    BY <2>2, <2>3
<1>3. \A m \in Range(matches) : m.rec \in DOMAIN index /\ m.score \in 0 .. 1000
  <2> TAKE m \in Range(matches)
  <2>1. m.rec \in DOMAIN index /\ m \in MatchRecords
    BY MatchProps
  <2> QED
    BY <2>1 DEF MatchRecords
<1> QED
  BY <1>1, <1>2, <1>3 DEF MatchIInv, MatchTypes, MatchTypeOK

LEMMA EveryNameCountsFollows == MatchIInv => EveryNameCounts
<1> SUFFICES ASSUME MatchIInv, sorted, NEW r \in DOMAIN index
             PROVE  /\ Matched(r) <=> \E k \in NamesOf(r) : Reaches(r, k, threshold)
                    /\ \A m \in Range(matches) : m.rec = r =>
                        /\ m.score = Rounded(Likeness(r, m.name))
                        /\ \A k \in NamesOf(r) : ~Below(Likeness(r, m.name), Likeness(r, k))
                        /\ m.name # 0 => Below(Likeness(r, 0), Likeness(r, m.name))
  BY DEF EveryNameCounts
<1>1. r \in 1 .. rec - 1 /\ NamesOf(r) = 0 .. Aliases(index, r)
  <2>1. rec > Len(index)
    BY DEF MatchIInv, MatchSorted
  <2>2. r \in 1 .. Len(index) /\ Len(index) \in Nat /\ rec \in Nat /\ NamesOf(r) = 0 .. Aliases(index, r)
    BY MatchProps
  <2> QED
    BY <2>1, <2>2
<1>2. \A k : Likeness(r, k) = LikenessIn(query, index, r, k)
  BY MatchProps
<1>3. Matched(r) <=> \E k \in NamesOf(r) : Reaches(r, k, threshold)
  <2>1. Matched(r) <=> IsHit(query, index, threshold, r)
    BY <1>1, MatchProps
  <2> QED
    BY <1>1, <1>2, <2>1 DEF IsHit, Reaches
<1>4. ASSUME NEW m \in Range(matches), m.rec = r
      PROVE  /\ m.score = Rounded(Likeness(r, m.name))
             /\ \A k \in NamesOf(r) : ~Below(Likeness(r, m.name), Likeness(r, k))
             /\ m.name # 0 => Below(Likeness(r, 0), Likeness(r, m.name))
  <2>1. IsMatch(query, index, m)
    BY MatchProps
  <2> QED
    BY <1>1, <1>2, <1>4, <2>1 DEF IsMatch, IsClosest
<1> QED
  BY <1>3, <1>4

LEMMA BestFirstFollows == MatchIInv => BestFirst
<1> SUFFICES ASSUME MatchIInv, sorted, NEW k \in DOMAIN matches, NEW l \in DOMAIN matches, k < l
             PROVE  matches[k].score >= matches[l].score /\ matches[k].rec # matches[l].rec
  BY DEF BestFirst
<1>1. matches[k].score >= matches[l].score
  BY DEF MatchIInv, MatchSorted, IsDescending
<1>2. matches[k].rec # matches[l].rec
  <2>1. DOMAIN matches = 1 .. Len(matches) /\ k \in Int /\ l \in Int
    BY MatchProps
  <2>2. k # l
    BY <2>1
  <2> QED
    BY <2>2, MatchProps
<1> QED
  BY <1>1, <1>2

LEMMA AllWordsAreEnoughFollows == MatchIInv => AllWordsAreEnough
<1> SUFFICES ASSUME MatchIInv, sorted, threshold <= 90, NEW r \in DOMAIN index, NEW k \in NamesOf(r),
                    {w \in Range(query) : w.script # "foreign"} # {},
                    {w.letters : w \in {v \in Range(query) : v.script # "foreign"}} \subseteq
                        {w.letters : w \in {v \in Range(NameAt(r, k)) : v.script # "foreign"}}
             PROVE  Matched(r)
  BY DEF AllWordsAreEnough
<1>1. /\ r \in 1 .. rec - 1 /\ k \in 0 .. Aliases(index, r) /\ IsName(query)
      /\ NameAt(r, k) = NameIn(index, r, k) /\ IsName(NameAt(r, k))
  <2>1. rec > Len(index)
    BY DEF MatchIInv, MatchSorted
  <2>2. /\ r \in 1 .. Len(index) /\ Len(index) \in Nat /\ rec \in Nat /\ NamesOf(r) = 0 .. Aliases(index, r)
        /\ query \in Queries /\ index \in Indexes /\ NameAt(r, k) = NameIn(index, r, k)
    BY MatchProps
  <2> QED
    BY <2>1, <2>2, IndexProps
<1>2. \A n : {w.letters : w \in {v \in Range(n) : v.script # "foreign"}} = KeptLetters(n)
  BY DEF KeptLetters, Range
<1>3. KeptLetters(query) # {} /\ KeptLetters(query) \subseteq KeptLetters(NameAt(r, k))
  <2>1. {w.letters : w \in {v \in Range(query) : v.script # "foreign"}} # {}
    OBVIOUS
  <2> QED
    BY <1>2, <2>1
<1> DEFINE s == similarity(query, NameAt(r, k))
<1>4. s \in Fractions /\ ~Below(s, <<90, 100>>)
  BY <1>1, <1>3, SimilarityProps
<1>5. s = LikenessIn(query, index, r, k)
  BY <1>1 DEF LikenessIn
<1> HIDE DEF s
<1>6. ~Below(s, <<threshold, 100>>)
  <2>1. s[1] \in Nat /\ s[2] \in Nat \ {0} /\ threshold \in Nat
    BY <1>4, ThresholdProps, MatchProps DEF Fractions
  <2> DEFINE c == s[1]
             d == s[2]
  <2>2. ~(c * 100 < 90 * d)
    BY <1>4 DEF Below
  <2>3. c \in Nat /\ d \in Nat
    BY <2>1
  <2> HIDE DEF c, d
  <2>4. threshold * d <= 90 * d
    BY <2>1, <2>3, SMT
  <2>5. ~(c * 100 < threshold * d)
    <3>1. threshold * d \in Int
      BY <2>1, <2>3
    <3> QED
      BY <2>2, <2>3, <2>4, <3>1
  <2> QED
    BY <2>5 DEF Below, c, d
<1>7. IsHit(query, index, threshold, r)
  BY <1>1, <1>5, <1>6 DEF IsHit
<1> QED
  BY <1>1, <1>7, MatchProps

LEMMA CertainIsSameFollows == MatchIInv => CertainIsSame
<1> SUFFICES ASSUME MatchIInv, NEW m \in Range(matches), m.score = 1000
             PROVE  normalizeName(query) = normalizeName(NameAt(m.rec, m.name))
  BY DEF CertainIsSame
<1> DEFINE n == NameIn(index, m.rec, m.name)
           s == similarity(query, n)
<1>1. /\ m.rec \in DOMAIN index /\ IsMatch(query, index, m) /\ query \in Queries /\ index \in Indexes
      /\ NameAt(m.rec, m.name) = n
  BY MatchProps
<1>2. m.name \in 0 .. Aliases(index, m.rec) /\ Rounded(s) = 1000
  BY <1>1 DEF IsMatch, IsClosest, LikenessIn
<1>3. IsName(query) /\ IsName(n) /\ Len(Text(normalizeName(query))) <= LongestQuery
  BY <1>1, <1>2, IndexProps
<1> HIDE DEF n
<1>4. s \in Fractions
  BY <1>3, SimilarityProps
<1>5. 2000 * s[1] >= 1999 * s[2]
  <2> HIDE DEF s
  <2> QED
    BY <1>2, <1>4, RoundedProps
<1>6. normalizeName(query) = normalizeName(n)
  BY <1>3, <1>5, SimilarityProps
<1> QED
  BY <1>1, <1>6

\* Whoever is asked for is found by any name, in the right order and with no more
\* confidence than deserved, for every list, every query of at most LongestQuery
\* characters and every threshold (screenNameAgainstIndex).
THEOREM MatchesAreFairHolds == MatchSpec => []MatchesAreFair
<1>1. MatchIInv => MatchesAreFair
  BY MatchTypeFollows, EveryNameCountsFollows, BestFirstFollows, AllWordsAreEnoughFollows, CertainIsSameFollows
     DEF MatchesAreFair
<1> QED
  BY <1>1, MatchInvariance, PTL

----------------------------------------------------------------------------
(* Company lookup: candidates.                                             *)

\* Titles, tickers and numbers order the entries.
LEMMA BeforeProps ==
    /\ \A e \in Entries : ~Before(e, e)
    /\ \A d, e \in Entries : d # e => Before(d, e) \/ Before(e, d)
    /\ \A d, e, f \in Entries : Before(d, e) /\ Before(e, f) => Before(d, f)
<1>1. \A e \in Entries : e.cik \in Nat /\ e.ticker \in Nat /\ e.title \in Nat
  BY DEF Entries
<1>2. \A e \in Entries : ~Before(e, e)
  BY <1>1 DEF Before
<1>3. ASSUME NEW d \in Entries, NEW e \in Entries, d # e PROVE Before(d, e) \/ Before(e, d)
  <2>1. d.cik # e.cik \/ d.ticker # e.ticker \/ d.title # e.title
    BY <1>3 DEF Entries
  <2> QED
    BY <1>1, <2>1 DEF Before
<1>4. ASSUME NEW d \in Entries, NEW e \in Entries, NEW f \in Entries, Before(d, e), Before(e, f)
      PROVE  Before(d, f)
  BY <1>1, <1>4 DEF Before
<1> QED
  BY <1>2, <1>3, <1>4

\* No entry is twice in a list.
LEMMA ListProps ==
    ASSUME NEW list \in LookupLists
    PROVE  /\ Len(list) \in Nat /\ DOMAIN list = 1 .. Len(list) /\ IsFiniteSet(DOMAIN list)
           /\ \A k \in DOMAIN list : list[k] \in Entries
           /\ \A k, l \in DOMAIN list : list[k].ticker = list[l].ticker => k = l
           /\ \A k, l \in DOMAIN list : list[k] = list[l] => k = l
<1>1. list \in Seq(Entries)
  BY ListsAssumption
<1>2. \A k, l \in DOMAIN list : list[k].ticker = list[l].ticker => k = l
  BY ListsAssumption
<1>3. \A k, l \in DOMAIN list : list[k] = list[l] => k = l
  BY <1>2
<1>4. Len(list) \in Nat /\ DOMAIN list = 1 .. Len(list) /\ \A k \in DOMAIN list : list[k] \in Entries
  BY <1>1
<1>5. IsFiniteSet(DOMAIN list)
  BY <1>4, FS_Interval
<1> QED
  BY <1>2, <1>3, <1>4, <1>5

\* The entry that so many of a set come before.
InPlace(es, n) == CHOOSE e \in es : Cardinality({d \in es : Before(d, e)}) = n - 1

LEMMA AtMostProps == \A n \in Nat : AtMost(n) \in Nat /\ AtMost(n) <= n /\ (n > 0 => AtMost(n) > 0)
BY LimitAssumption DEF AtMost

\* A set of entries has one in every place, and another in another.
LEMMA InPlaceProps ==
    ASSUME NEW es \in SUBSET Entries, IsFiniteSet(es)
    PROVE  /\ Cardinality(es) \in Nat
           /\ \A n \in 1 .. Cardinality(es) :
                /\ InPlace(es, n) \in es
                /\ Cardinality({d \in es : Before(d, InPlace(es, n))}) = n - 1
                /\ \A e \in es : Cardinality({d \in es : Before(d, e)}) = n - 1 => e = InPlace(es, n)
<1> DEFINE R == {p \in Entries \X Entries : Before(p[1], p[2])}
<1>1. \A d, e \in es : <<d, e>> \in R <=> Before(d, e)
  OBVIOUS
<1>2. /\ \A x \in es : <<x, x>> \notin R
      /\ \A x, y \in es : x # y => <<x, y>> \in R \/ <<y, x>> \in R
      /\ \A x, y, z \in es : <<x, y>> \in R /\ <<y, z>> \in R => <<x, z>> \in R
  BY <1>1, BeforeProps
<1>3. \A e \in es : {y \in es : <<y, e>> \in R} = {d \in es : Before(d, e)}
  BY <1>1
<1>4. \A e \in es : Rank(es, R, e) = Cardinality({d \in es : Before(d, e)})
  BY <1>3 DEF Rank
<1> HIDE DEF R
<1>5. /\ Cardinality(es) \in Nat
      /\ \A x, y \in es : Rank(es, R, x) = Rank(es, R, y) => x = y
      /\ \A n \in 0 .. Cardinality(es) - 1 : \E x \in es : Rank(es, R, x) = n
  BY <1>2, Ranks
<1>6. ASSUME NEW n \in 1 .. Cardinality(es)
      PROVE  /\ InPlace(es, n) \in es
             /\ Cardinality({d \in es : Before(d, InPlace(es, n))}) = n - 1
             /\ \A e \in es : Cardinality({d \in es : Before(d, e)}) = n - 1 => e = InPlace(es, n)
  <2>1. n - 1 \in 0 .. Cardinality(es) - 1
    BY <1>5
  <2>2. \E e \in es : Cardinality({d \in es : Before(d, e)}) = n - 1
    BY <1>4, <1>5, <2>1
  <2>3. InPlace(es, n) \in es /\ Cardinality({d \in es : Before(d, InPlace(es, n))}) = n - 1
    BY <2>2 DEF InPlace
  <2> QED
    BY <1>4, <1>5, <2>3
<1> QED
  BY <1>5, <1>6

\* What is listed depends on which entries were found, not on where.
LEMMA CandidatesProps ==
    ASSUME NEW list \in LookupLists, NEW found \in SUBSET DOMAIN list,
           NEW es, es = {list[k] : k \in found}
    PROVE  /\ IsFiniteSet(es) /\ es \in SUBSET Entries /\ Cardinality(es) = Cardinality(found)
           /\ IsFiniteSet(found) /\ Cardinality(found) \in Nat
           /\ Candidates(list, found) = [n \in 1 .. AtMost(Cardinality(es)) |-> InPlace(es, n)]
<1> DEFINE earlier(k) == {l \in found : Before(list[l], list[k]) \/ (list[l] = list[k] /\ l < k)}
<1>1. IsFiniteSet(found) /\ Cardinality(found) \in Nat /\ \A k \in found : k \in Nat
  BY ListProps, FS_Subset, FS_CardinalityType
<1>2. IsFiniteSet(es) /\ Cardinality(es) = Cardinality(found)
  <2>1. \A k, l \in found : list[k] = list[l] => k = l
    BY ListProps
  <2>2. IsFiniteSet({list[k] : k \in found}) /\ Cardinality({list[k] : k \in found}) = Cardinality(found)
    BY <1>1, <2>1, ImageProps
  <2> QED
    BY <2>2
<1>3. es \in SUBSET Entries
  BY ListProps
<1>4. ASSUME NEW k \in found PROVE Cardinality(earlier(k)) = Cardinality({d \in es : Before(d, list[k])})
  <2>1. earlier(k) = {l \in found : Before(list[l], list[k])}
    BY <1>1, ListProps
  <2>2. {list[l] : l \in earlier(k)} = {d \in es : Before(d, list[k])}
    BY <2>1
  <2>3. IsFiniteSet(earlier(k)) /\ \A l, m \in earlier(k) : list[l] = list[m] => l = m
    BY <1>1, <2>1, FS_Subset, ListProps
  <2> HIDE DEF earlier
  <2>4. Cardinality({list[l] : l \in earlier(k)}) = Cardinality(earlier(k))
    BY <2>3, ImageProps
  <2> QED
    BY <2>2, <2>4
<1>5. \A n \in 1 .. Cardinality(es) :
          /\ InPlace(es, n) \in es
          /\ Cardinality({d \in es : Before(d, InPlace(es, n))}) = n - 1
          /\ \A e \in es : Cardinality({d \in es : Before(d, e)}) = n - 1 => e = InPlace(es, n)
  BY <1>2, <1>3, InPlaceProps
<1>6. ASSUME NEW n \in 1 .. AtMost(Cardinality(found))
      PROVE  list[CHOOSE k \in found : Cardinality(earlier(k)) = n - 1] = InPlace(es, n)
  <2>1. n \in 1 .. Cardinality(es)
    BY <1>1, <1>2, AtMostProps
  <2> HIDE DEF earlier
  <2>2. PICK k \in found : list[k] = InPlace(es, n)
    BY <1>5, <2>1
  <2>3. Cardinality(earlier(k)) = n - 1
    <3>1. {d \in es : Before(d, list[k])} = {d \in es : Before(d, InPlace(es, n))}
      BY <2>2
    <3> QED
      BY <1>4, <1>5, <2>1, <3>1
  <2> DEFINE c == CHOOSE l \in found : Cardinality(earlier(l)) = n - 1
  <2>4. c \in found /\ Cardinality(earlier(c)) = n - 1
    BY <2>3
  <2> HIDE DEF c
  <2>5. list[c] \in es /\ Cardinality({d \in es : Before(d, list[c])}) = n - 1
    BY <1>4, <2>4
  <2>6. list[c] = InPlace(es, n)
    BY <1>5, <2>1, <2>5
  <2> QED
    BY <2>6 DEF c
<1>7. Candidates(list, found) = [n \in 1 .. AtMost(Cardinality(es)) |-> InPlace(es, n)]
  BY <1>2, <1>6 DEF Candidates
<1> QED
  BY <1>1, <1>2, <1>3, <1>7

----------------------------------------------------------------------------
(* Company lookup: which entries are found.                                *)

\* A text that says of every title of the list how it compares with it.
IsText(q, list) ==
    /\ q.kind = "text"
    /\ \A k \in DOMAIN list : q.likeness[list[k].title] \in {"exact", "prefix", "substring", "none"}

\* The four ways of matching, in the order they are tried, are the levels from the top.
LEMMA LevelProps ==
    ASSUME NEW list, NEW q, IsText(q, list), NEW k \in DOMAIN list
    PROVE  /\ Level(list[k], q) \in 0 .. 4
           /\ Level(list[k], q) >= 4 <=> IsTicker(list[k], q)
           /\ Level(list[k], q) >= 3 <=> IsTicker(list[k], q) \/ IsTitle(list[k], q)
           /\ Level(list[k], q) >= 2 <=> IsTicker(list[k], q) \/ StartsTitle(list[k], q)
           /\ Level(list[k], q) >= 1 <=> IsTicker(list[k], q) \/ InTitle(list[k], q)
<1>1. q.likeness[list[k].title] \in {"exact", "prefix", "substring", "none"}
  BY DEF IsText
<1> QED
  BY <1>1 DEF Level, IsTitle, StartsTitle, InTitle

\* The entries of the highest level reached are the best.
LEMMA BestAtLevel ==
    ASSUME NEW list, NEW q, IsText(q, list), NEW n \in 1 .. 4,
           \A k \in DOMAIN list : Level(list[k], q) <= n,
           NEW found, found = {k \in DOMAIN list : Level(list[k], q) >= n}, found # {}
    PROVE  {list[k] : k \in found} = Best(list, q)
<1>1. \A k \in DOMAIN list : Level(list[k], q) \in 0 .. 4
  BY LevelProps
<1>2. PICK top \in DOMAIN list : Level(list[top], q) = n
  BY <1>1
<1>3. ASSUME NEW k \in DOMAIN list
      PROVE  k \in found <=> Level(list[k], q) > 0 /\ \A l \in DOMAIN list : Level(list[l], q) <= Level(list[k], q)
  BY <1>1, <1>2
<1> QED
  BY <1>3 DEF Best, LookupEntriesOf

\* Something is answered when something was found.
LEMMA ChooseProps ==
    ASSUME NEW list, NEW found, NEW method
    PROVE  /\ found = {} => Choose(list, found, method) = Nothing
           /\ found # {} => /\ Choose(list, found, method) # Nothing
                            /\ Choose(list, found, method).status \in {"resolved", "ambiguous"}
<1>1. \A cik, count, candidates :
        Resolved(cik, method).status = "resolved" /\ Ambiguous(count, candidates).status = "ambiguous"
  BY DEF Resolved, Ambiguous
<1>2. Nothing.status = "nothing"
  BY DEF Nothing
<1>3. found = {} => Choose(list, found, method) = Nothing
  BY FS_EmptySet DEF Choose
<1>4. ASSUME found # {} PROVE Choose(list, found, method).status \in {"resolved", "ambiguous"}
  <2>1. CASE Cardinality(found) = 1
    <3>1. Choose(list, found, method) = Resolved(list[First(found)].cik, method)
      BY <1>4, <2>1 DEF Choose
    <3> QED
      BY <1>1, <3>1
  <2>2. CASE Cardinality(found) # 1
    <3>1. Choose(list, found, method) = Ambiguous(Cardinality(found), Candidates(list, found))
      BY <1>4, <2>2 DEF Choose
    <3> QED
      BY <1>1, <3>1
  <2> QED
    BY <2>1, <2>2
<1> QED
  BY <1>2, <1>3, <1>4

LEMMA ResolutionStatus ==
    ASSUME NEW list, NEW q
    PROVE  Resolution(q, list).status \in {"resolved", "ambiguous", "nothing"}
<1>1. \A found, method : Choose(list, found, method).status \in {"resolved", "ambiguous", "nothing"}
  BY ChooseProps DEF Nothing
<1>2. \A cik, method : Resolved(cik, method).status = "resolved"
  BY DEF Resolved
<1> QED
  BY <1>1, <1>2 DEF Resolution, OrElse

\* A text is resolved by what matches it best, whatever way that is.
LEMMA ResolutionIsOfBest ==
    ASSUME NEW list, NEW q, IsText(q, list)
    PROVE  \E found, method :
                /\ found \in SUBSET DOMAIN list
                /\ {list[k] : k \in found} = Best(list, q)
                /\ Resolution(q, list) = Choose(list, found, method)
                /\ \A k \in DOMAIN list : IsTicker(list[k], q) =>
                        method = "ticker" /\ found = {l \in DOMAIN list : IsTicker(list[l], q)}
<1> DEFINE T == Found(list, q, "ticker")
           X == Found(list, q, "exact_name")
           P == Found(list, q, "unique_prefix")
           I == Found(list, q, "unique_substring")
<1>1. /\ T = {k \in DOMAIN list : IsTicker(list[k], q)} /\ X = {k \in DOMAIN list : IsTitle(list[k], q)}
      /\ P = {k \in DOMAIN list : StartsTitle(list[k], q)} /\ I = {k \in DOMAIN list : InTitle(list[k], q)}
  BY DEF Found, Fits
<1>2. Resolution(q, list) =
        OrElse(Choose(list, T, "ticker"),
               OrElse(Choose(list, X, "exact_name"),
                      OrElse(Choose(list, P, "unique_prefix"), Choose(list, I, "unique_substring"))))
  BY DEF Resolution, IsText
<1> HIDE DEF T, X, P, I
<1>3. \A k \in DOMAIN list :
        /\ Level(list[k], q) \in 0 .. 4
        /\ Level(list[k], q) >= 4 <=> k \in T
        /\ Level(list[k], q) >= 3 <=> k \in T \/ k \in X
        /\ Level(list[k], q) >= 2 <=> k \in T \/ k \in P
        /\ Level(list[k], q) >= 1 <=> k \in T \/ k \in I
  BY <1>1, LevelProps
<1>4. T \in SUBSET DOMAIN list /\ X \in SUBSET DOMAIN list /\ P \in SUBSET DOMAIN list /\ I \in SUBSET DOMAIN list
  BY <1>1
<1>5. CASE T # {}
  <2>1. T = {k \in DOMAIN list : Level(list[k], q) >= 4} /\ \A k \in DOMAIN list : Level(list[k], q) <= 4
    BY <1>3, <1>4
  <2>2. {list[k] : k \in T} = Best(list, q)
    BY <1>5, <2>1, BestAtLevel
  <2>3. Resolution(q, list) = Choose(list, T, "ticker")
    BY <1>2, <1>5, ChooseProps DEF OrElse
  <2> QED
    BY <1>1, <1>4, <2>2, <2>3
<1>6. CASE T = {}
  <2>1. \A k \in DOMAIN list : ~IsTicker(list[k], q)
    BY <1>1, <1>6
  <2>2. CASE X # {}
    <3>1. X = {k \in DOMAIN list : Level(list[k], q) >= 3} /\ \A k \in DOMAIN list : Level(list[k], q) <= 3
      BY <1>3, <1>4, <1>6
    <3>2. {list[k] : k \in X} = Best(list, q)
      BY <2>2, <3>1, BestAtLevel
    <3>3. Resolution(q, list) = Choose(list, X, "exact_name")
      BY <1>2, <1>6, <2>2, ChooseProps DEF OrElse
    <3> QED
      BY <1>4, <2>1, <3>2, <3>3
  <2>3. CASE X = {} /\ P # {}
    <3>1. P = {k \in DOMAIN list : Level(list[k], q) >= 2} /\ \A k \in DOMAIN list : Level(list[k], q) <= 2
      BY <1>3, <1>4, <1>6, <2>3
    <3>2. {list[k] : k \in P} = Best(list, q)
      BY <2>3, <3>1, BestAtLevel
    <3>3. Resolution(q, list) = Choose(list, P, "unique_prefix")
      BY <1>2, <1>6, <2>3, ChooseProps DEF OrElse
    <3> QED
      BY <1>4, <2>1, <3>2, <3>3
  <2>4. CASE X = {} /\ P = {} /\ I # {}
    <3>1. I = {k \in DOMAIN list : Level(list[k], q) >= 1} /\ \A k \in DOMAIN list : Level(list[k], q) <= 1
      BY <1>3, <1>4, <1>6, <2>4
    <3>2. {list[k] : k \in I} = Best(list, q)
      BY <2>4, <3>1, BestAtLevel
    <3>3. Resolution(q, list) = Choose(list, I, "unique_substring")
      BY <1>2, <1>6, <2>4, ChooseProps DEF OrElse
    <3> QED
      BY <1>4, <2>1, <3>2, <3>3
  <2>5. CASE X = {} /\ P = {} /\ I = {}
    <3>1. \A k \in DOMAIN list : Level(list[k], q) = 0
      BY <1>3, <1>6, <2>5
    <3>2. Best(list, q) = {}
      BY <3>1 DEF Best, LookupEntriesOf
    <3>3. Resolution(q, list) = Choose(list, I, "unique_substring")
      BY <1>2, <1>6, <2>5, ChooseProps DEF OrElse
    <3>4. {list[k] : k \in I} = Best(list, q)
      BY <2>5, <3>2
    <3> QED
      BY <1>4, <2>1, <3>3, <3>4
  <2> QED
    BY <2>2, <2>3, <2>4, <2>5
<1> QED
  BY <1>5, <1>6

\* What a list resolves a text to, by its best entries alone.
LEMMA ResolutionProps ==
    ASSUME NEW list \in LookupLists, NEW q, IsText(q, list), NEW top, top = Best(list, q)
    PROVE  /\ IsFiniteSet(top) /\ top \in SUBSET Entries /\ Cardinality(top) \in Nat
           /\ top = {} => Resolution(q, list) = Nothing
           /\ Cardinality(top) = 1 =>
                \E method : \A e \in top : Resolution(q, list) = Resolved(e.cik, method)
           /\ Cardinality(top) > 1 =>
                Resolution(q, list) =
                    Ambiguous(Cardinality(top), [n \in 1 .. AtMost(Cardinality(top)) |-> InPlace(top, n)])
<1>1. PICK found, method :
            /\ found \in SUBSET DOMAIN list
            /\ {list[k] : k \in found} = top
            /\ Resolution(q, list) = Choose(list, found, method)
  BY ResolutionIsOfBest
<1>2. /\ IsFiniteSet(top) /\ top \in SUBSET Entries /\ Cardinality(top) = Cardinality(found)
      /\ IsFiniteSet(found) /\ Cardinality(found) \in Nat
      /\ Candidates(list, found) = [n \in 1 .. AtMost(Cardinality(top)) |-> InPlace(top, n)]
  BY <1>1, CandidatesProps
<1>3. top = {} => Resolution(q, list) = Nothing
  BY <1>1, ChooseProps
<1>4. ASSUME Cardinality(top) = 1
      PROVE  \A e \in top : Resolution(q, list) = Resolved(e.cik, method)
  <2>1. PICK k : found = {k}
    BY <1>2, <1>4, FS_Singleton
  <2>2. k \in Nat /\ top = {list[k]}
    BY <1>1, <2>1, ListProps
  <2>3. First(found) = k
    BY <2>1, <2>2 DEF First
  <2>4. found # {} /\ Cardinality(found) = 1
    BY <1>2, <1>4, <2>1
  <2> QED
    BY <1>1, <2>2, <2>3, <2>4 DEF Choose
<1>5. ASSUME Cardinality(top) > 1
      PROVE  Resolution(q, list) =
                Ambiguous(Cardinality(top), [n \in 1 .. AtMost(Cardinality(top)) |-> InPlace(top, n)])
  <2>1. found # {} /\ Cardinality(found) # 1
    BY <1>2, <1>5, FS_EmptySet
  <2> QED
    BY <1>1, <1>2, <2>1 DEF Choose
<1> QED
  BY <1>2, <1>3, <1>4, <1>5

----------------------------------------------------------------------------
(* Company lookup: the answers.                                            *)

\* The inductive invariant: a filer is fetched only when the query was resolved, and an
\* answer that names filers is what the query resolves to.
FetchesResolved ==
    fetched # 0 => answer.status # "ambiguous" /\ Resolution(lookupQuery, entries).status = "resolved"

AnswersResolution ==
    answer.status \in {"ambiguous", "resolved"} => answer = Resolution(lookupQuery, entries)

LookupIInv ==
    /\ entries \in LookupLists /\ lookupQuery \in LookupQueries
    /\ answer.status \in {"none", "error", "not_found", "ambiguous", "resolved"}
    /\ FetchesResolved /\ AnswersResolution

LEMMA LookupInvariance == LookupSpec => []LookupIInv
<1>1. LookupInit => LookupIInv
  BY DEF LookupInit, LookupIInv, FetchesResolved, AnswersResolution, NoAnswer
<1>2. LookupIInv /\ [LookupNext]_lookupVars => LookupIInv'
  <2> SUFFICES ASSUME LookupIInv, [LookupNext]_lookupVars PROVE LookupIInv'
    OBVIOUS
  <2> USE DEF LookupIInv, FetchesResolved, AnswersResolution
  <2>1. CASE ListFails
    BY <2>1 DEF ListFails
  <2>2. CASE Resolve
    <3> DEFINE r == Resolution(lookupQuery, entries)
    <3>1. entries' = entries /\ lookupQuery' = lookupQuery /\ answer.status = "none" /\ fetched = 0
      BY <2>2 DEF Resolve, NoAnswer
    <3>2. CASE r.status = "resolved"
      <4>1. answer' = answer
        BY <2>2, <3>2 DEF Resolve
      <4> QED
        BY <3>1, <3>2, <4>1
    <3>3. CASE r.status = "ambiguous"
      <4>1. answer' = r /\ fetched' = fetched
        BY <2>2, <3>3 DEF Resolve
      <4> HIDE DEF r
      <4> QED
        BY <3>1, <3>3, <4>1 DEF r
    <3>4. CASE r.status = "nothing"
      <4>1. answer'.status = "not_found" /\ fetched' = fetched
        BY <2>2, <3>4 DEF Resolve
      <4> QED
        BY <3>1, <4>1
    <3> QED
      BY <3>2, <3>3, <3>4, ResolutionStatus
  <2>3. CASE SubmissionsArrive
    <3> DEFINE r == Resolution(lookupQuery, entries)
    <3>1. /\ entries' = entries /\ lookupQuery' = lookupQuery /\ fetched' = fetched
          /\ answer' \in {r, [status |-> "not_found"], [status |-> "error"]}
          /\ r.status = "resolved"
      BY <2>3 DEF SubmissionsArrive
    <3> HIDE DEF r
    <3> QED
      BY <3>1 DEF r
  <2>4. CASE UNCHANGED lookupVars
    BY <2>4 DEF lookupVars
  <2> QED
    BY <2>1, <2>2, <2>3, <2>4 DEF LookupNext
<1> QED
  BY <1>1, <1>2, PTL DEF LookupSpec

\* A query of the model that is a text says how it compares with every title.
LEMMA QueryIsText ==
    ASSUME NEW q \in LookupQueries, NEW list \in LookupLists
    PROVE  q.kind = "cik" \/ IsText(q, list)
BY QueriesAssumption DEF IsText, Texts

LEMMA ResolvedIsTheBestFollows == LookupIInv => ResolvedIsTheBest
<1> SUFFICES ASSUME LookupIInv, answer.status = "resolved", lookupQuery.kind = "text",
                    NEW top, top = Best(entries, lookupQuery)
             PROVE  Cardinality(top) = 1 /\ \A e \in top : e.cik = answer.cik
  BY DEF ResolvedIsTheBest
<1>1. answer = Resolution(lookupQuery, entries) /\ IsText(lookupQuery, entries) /\ entries \in LookupLists
  BY QueryIsText DEF LookupIInv, AnswersResolution
<1>2. /\ IsFiniteSet(top) /\ Cardinality(top) \in Nat
      /\ top = {} => answer = Nothing
      /\ Cardinality(top) = 1 => \E method : \A e \in top : answer = Resolved(e.cik, method)
      /\ Cardinality(top) > 1 =>
            answer = Ambiguous(Cardinality(top), [n \in 1 .. AtMost(Cardinality(top)) |-> InPlace(top, n)])
  BY <1>1, ResolutionProps
<1>3. top # {}
  BY <1>2 DEF Nothing
<1>4. ~(Cardinality(top) > 1)
  BY <1>2 DEF Ambiguous
<1>5. Cardinality(top) = 1
  BY <1>2, <1>3, <1>4, FS_EmptySet
<1>6. \A e \in top : e.cik = answer.cik
  BY <1>2, <1>5 DEF Resolved
<1> QED
  BY <1>5, <1>6

\* What an ambiguous answer says.
LEMMA AmbiguousProps ==
    ASSUME LookupIInv, answer.status = "ambiguous", NEW top, top = Best(entries, lookupQuery)
    PROVE  /\ entries \in LookupLists /\ IsText(lookupQuery, entries) /\ lookupQuery.kind = "text"
           /\ answer = Resolution(lookupQuery, entries)
           /\ IsFiniteSet(top) /\ top \in SUBSET Entries /\ Cardinality(top) \in Nat /\ Cardinality(top) > 1
           /\ answer.count = Cardinality(top)
           /\ answer.candidates = [n \in 1 .. AtMost(Cardinality(top)) |-> InPlace(top, n)]
<1>1. answer = Resolution(lookupQuery, entries) /\ entries \in LookupLists /\ lookupQuery \in LookupQueries
  BY DEF LookupIInv, AnswersResolution
<1>2. lookupQuery.kind # "cik"
  BY <1>1 DEF Resolution, Resolved
<1>3. IsText(lookupQuery, entries) /\ lookupQuery.kind = "text"
  BY <1>1, <1>2, QueryIsText DEF IsText
<1>4. /\ IsFiniteSet(top) /\ top \in SUBSET Entries /\ Cardinality(top) \in Nat
      /\ top = {} => answer = Nothing
      /\ Cardinality(top) = 1 => \E method : \A e \in top : answer = Resolved(e.cik, method)
      /\ Cardinality(top) > 1 =>
            answer = Ambiguous(Cardinality(top), [n \in 1 .. AtMost(Cardinality(top)) |-> InPlace(top, n)])
  BY <1>1, <1>3, ResolutionProps
<1>5. top # {}
  BY <1>4 DEF Nothing
<1>6. Cardinality(top) # 1
  <2>1. \A e, method : Resolved(e, method).status = "resolved"
    BY DEF Resolved
  <2>2. ASSUME Cardinality(top) = 1 PROVE FALSE
    <3>1. PICK method : \A e \in top : answer = Resolved(e.cik, method)
      BY <1>4, <2>2
    <3> QED
      BY <1>5, <2>1, <3>1
  <2> QED
    BY <2>2
<1>7. Cardinality(top) > 1
  BY <1>4, <1>5, <1>6, FS_EmptySet
<1> QED
  BY <1>1, <1>3, <1>4, <1>7 DEF Ambiguous

LEMMA AmbiguousIsCompleteFollows == LookupIInv => AmbiguousIsComplete
<1> DEFINE named == {answer.candidates[n] : n \in DOMAIN answer.candidates}
<1> SUFFICES ASSUME LookupIInv, answer.status = "ambiguous", NEW top, top = Best(entries, lookupQuery)
             PROVE  /\ answer.count = Cardinality(top)
                    /\ named \subseteq top /\ Cardinality(named) = Len(answer.candidates)
                    /\ Len(answer.candidates) = AtMost(answer.count)
  BY DEF AmbiguousIsComplete
<1> DEFINE size == Cardinality(top)
           f == answer.candidates
           T == 1 .. AtMost(size)
<1>1. /\ IsFiniteSet(top) /\ top \in SUBSET Entries /\ size \in Nat /\ answer.count = size
      /\ f = [n \in T |-> InPlace(top, n)]
  BY AmbiguousProps
<1>2. AtMost(size) \in Nat /\ T \subseteq 1 .. size
  BY <1>1, AtMostProps
<1>3. \A n \in 1 .. size :
        /\ InPlace(top, n) \in top
        /\ Cardinality({d \in top : Before(d, InPlace(top, n))}) = n - 1
  BY <1>1, InPlaceProps
<1>4. DOMAIN f = T /\ Len(f) = AtMost(size)
  BY <1>1, <1>2
<1>5. \A n \in T : f[n] \in top
  BY <1>1, <1>2, <1>3
<1>6. \A m, n \in T : f[m] = f[n] => m = n
  <2> SUFFICES ASSUME NEW m \in T, NEW n \in T, f[m] = f[n] PROVE m = n
    OBVIOUS
  <2>1. InPlace(top, m) = InPlace(top, n)
    BY <1>1
  <2>2. m - 1 = n - 1
    <3>1. {d \in top : Before(d, InPlace(top, m))} = {d \in top : Before(d, InPlace(top, n))}
      BY <2>1
    <3> QED
      BY <1>2, <1>3, <3>1
  <2> QED
    BY <1>2, <2>2
<1>7. IsFiniteSet(T) /\ Cardinality(T) = AtMost(size)
  BY <1>2, FS_Interval
<1>8. Cardinality({f[n] : n \in T}) = AtMost(size)
  <2> HIDE DEF f, T
  <2> QED
    BY <1>6, <1>7, ImageProps
<1> QED
  BY <1>1, <1>4, <1>5, <1>8

LEMMA OrderDoesNotMatterFollows == LookupIInv => OrderDoesNotMatter
<1> SUFFICES ASSUME LookupIInv, answer.status = "ambiguous", NEW list \in LookupLists,
                    LookupEntriesOf(list) = LookupEntriesOf(entries)
             PROVE  Resolution(lookupQuery, list) = answer
  BY DEF OrderDoesNotMatter
<1>1. Best(list, lookupQuery) = Best(entries, lookupQuery)
  BY DEF Best
<1> DEFINE top == Best(entries, lookupQuery)
<1>2. /\ IsText(lookupQuery, entries) /\ entries \in LookupLists /\ Cardinality(top) > 1
      /\ lookupQuery \in LookupQueries /\ lookupQuery.kind = "text"
      /\ answer = Resolution(lookupQuery, entries)
  BY AmbiguousProps DEF LookupIInv
<1>3. IsText(lookupQuery, list)
  BY <1>2, QueryIsText
<1> HIDE DEF top
<1>4. \A l \in LookupLists : IsText(lookupQuery, l) /\ top = Best(l, lookupQuery) =>
        Resolution(lookupQuery, l) =
            Ambiguous(Cardinality(top), [n \in 1 .. AtMost(Cardinality(top)) |-> InPlace(top, n)])
  BY <1>2, ResolutionProps
<1> QED
  BY <1>1, <1>2, <1>3, <1>4 DEF top

LEMMA CandidatesResolveFollows == LookupIInv => CandidatesResolve
<1> SUFFICES ASSUME LookupIInv, answer.status = "ambiguous",
                    NEW n \in DOMAIN answer.candidates, NEW q \in Texts,
                    NEW c, c = answer.candidates[n]
             PROVE  Resolution(TextQuery(c.ticker, q.likeness), entries) = Resolved(c.cik, "ticker")
  BY DEF CandidatesResolve
<1> DEFINE t == TextQuery(c.ticker, q.likeness)
           top == Best(entries, lookupQuery)
<1>1. /\ entries \in LookupLists /\ IsFiniteSet(top) /\ top \in SUBSET Entries /\ Cardinality(top) \in Nat
      /\ answer.candidates = [m \in 1 .. AtMost(Cardinality(top)) |-> InPlace(top, m)]
  BY AmbiguousProps
<1>2. c \in top
  <2> HIDE DEF top
  <2>1. n \in 1 .. AtMost(Cardinality(top)) /\ c = InPlace(top, n)
    BY <1>1
  <2>2. n \in 1 .. Cardinality(top)
    BY <1>1, <2>1, AtMostProps
  <2>3. InPlace(top, n) \in top
    BY <1>1, <2>2, InPlaceProps
  <2> QED
    BY <2>1, <2>3
<1>3. PICK k \in DOMAIN entries : entries[k] = c
  BY <1>2 DEF Best, LookupEntriesOf
<1>4. t.kind = "text" /\ t.ticker = c.ticker /\ t.likeness = q.likeness
  BY DEF TextQuery
<1>5. IsText(t, entries)
  BY <1>1, <1>4, QueriesAssumption DEF IsText
<1> HIDE DEF t, top
<1>6. {l \in DOMAIN entries : IsTicker(entries[l], t)} = {k}
  <2>1. ASSUME NEW l \in DOMAIN entries, IsTicker(entries[l], t) PROVE l = k
    <3>1. entries[l].ticker = entries[k].ticker
      BY <1>3, <1>4, <2>1 DEF IsTicker
    <3> QED
      BY <1>1, <3>1, ListProps
  <2>2. IsTicker(entries[k], t)
    BY <1>3, <1>4 DEF IsTicker
  <2> QED
    BY <2>1, <2>2
<1>7. Resolution(t, entries) = Choose(entries, {k}, "ticker")
  <2>1. IsTicker(entries[k], t)
    BY <1>6
  <2> QED
    BY <1>5, <1>6, <2>1, ResolutionIsOfBest
<1>8. First({k}) = k /\ Cardinality({k}) = 1
  <2>1. k \in Nat
    BY <1>1, ListProps
  <2>2. First({k}) = CHOOSE x \in {k} : TRUE
    BY <2>1 DEF First
  <2> QED
    BY <2>2, FS_Singleton
<1>9. Choose(entries, {k}, "ticker") = Resolved(c.cik, "ticker")
  BY <1>3, <1>8 DEF Choose
<1> QED
  BY <1>7, <1>9 DEF t

\* A lookup selects none of several, and says of several what leads on: for lists of any
\* length in any order, whatever tickers and titles are in them.
THEOREM ResolutionIsFairHolds == LookupSpec => []ResolutionIsFair
<1>1. LookupIInv => LookupTypeOK
  BY DEF LookupIInv, FetchesResolved, LookupTypeOK
<1>2. LookupIInv => ResolutionIsFair
  BY <1>1, ResolvedIsTheBestFollows, AmbiguousIsCompleteFollows, OrderDoesNotMatterFollows,
     CandidatesResolveFollows DEF ResolutionIsFair
<1> QED
  BY <1>2, LookupInvariance, PTL
=============================================================================
