----------------------------- MODULE NameDataset -----------------------------
(***************************************************************************)
(* The cached OFAC SDN name list and its refreshes (src/src/ofac.ts,       *)
(* loadSdnIndex and refresh), as requests of one Node process share it.    *)
(*                                                                         *)
(* loadSdnIndex awaits only the shared refresh.  When that settles, its    *)
(* `finally`, the assignments of cache or lastRefreshFailure and the       *)
(* return of every waiting call run in one drain of the microtask queue,   *)
(* so a settlement is one action.  Time stamps are ages (see Breaker); a   *)
(* list is the number of records the validation counted, 0 for no list.    *)
(***************************************************************************)
EXTENDS Integers, FiniteSets

CONSTANTS
    Callers,        \* requests that may be inside loadSdnIndex at the same time
    Sizes,          \* the record counts of lists OFAC may publish
    RefreshAfter,   \* REFRESH_AFTER_MS
    RetryAfter,     \* REFRESH_RETRY_MS
    MaxAge,         \* maxDatasetAgeMs()
    FetchTimeout,   \* fetchText's abort timer
    Forever         \* the age at which ages saturate (a bound of the model)

ASSUME SizesAssumption == Sizes \subseteq Nat \ {0}
ASSUME TimesAssumption ==
    /\ RefreshAfter \in Nat /\ RetryAfter \in Nat /\ MaxAge \in Nat
    /\ FetchTimeout \in Nat /\ Forever \in Nat
    /\ FetchTimeout < RetryAfter /\ RetryAfter <= RefreshAfter
    /\ RefreshAfter <= MaxAge /\ MaxAge + FetchTimeout <= Forever

VARIABLES
    cache,          \* the last validated list
    failureAge,     \* the age of lastRefreshFailure.at, Forever for null
    inflight,       \* the shared refresh
    call,           \* each caller's loadSdnIndex call
    source,         \* what OFAC serves: a count, or 0 for nothing that validates
    brokeAge        \* how long ago a refresh last failed (history)

vars == <<cache, failureAge, inflight, call, source, brokeAge>>

Age == 0 .. Forever
Older(a) == IF a < Forever THEN a + 1 ELSE Forever

Lists == [records: Sizes \union {0}, age: Age]
NoList == [records |-> 0, age |-> Forever]
OlderList(l) == [l EXCEPT !.age = Older(@)]

Refreshes == [on: BOOLEAN, age: Age]
NoRefresh == [on |-> FALSE, age |-> 0]

(***************************************************************************)
(* A call is idle, waiting at `await inflight` (age is the age of its      *)
(* `now`, list its `usable`), or has returned: served with list, or        *)
(* refused with OfacNameScreeningUnavailableError.                         *)
(***************************************************************************)
Calls == [phase: {"idle", "waiting", "served", "refused"}, age: Age, list: Lists]

Idle == [phase |-> "idle", age |-> 0, list |-> NoList]
Served(l) == [phase |-> "served", age |-> 0, list |-> l]
Refused == [phase |-> "refused", age |-> 0, list |-> NoList]

Waiting(c) == call[c].phase = "waiting"

----------------------------------------------------------------------------
\* Mutant: the freshness window off by one.
InDate_off_by_one(l) == l.records > 0 /\ l.age <= MaxAge

\* The list may still be served: loadSdnIndex's `usable`.
InDate(l) == l.records > 0 /\ l.age < MaxAge
Usable == IF InDate(cache) THEN cache ELSE NoList

\* Mutant: the pause after a failure is left out.
NoNeedToRefresh_no_pause == InDate(cache) /\ cache.age < RefreshAfter

NoNeedToRefresh ==
    InDate(cache) /\ (cache.age < RefreshAfter \/ failureAge < RetryAfter)

\* Mutants: only a longer list is accepted; any list is.
Plausible_growing(previous, records) == records > previous
Plausible_any(previous, records) == TRUE

\* validateOfacDataset's check against `previous` (MAX_REDUCTION_FRACTION is 0.1).
Plausible(previous, records) == 10 * records >= 9 * previous

Accepts == source > 0 /\ Plausible(cache.records, source)

----------------------------------------------------------------------------
Init ==
    /\ cache = NoList
    /\ failureAge = Forever
    /\ inflight = NoRefresh
    /\ call = [c \in Callers |-> Idle]
    /\ source \in Sizes \union {0}
    /\ brokeAge = Forever

\* The cached list is served without a fetch.
ServeCached(c) ==
    /\ call[c].phase = "idle"
    /\ NoNeedToRefresh
    /\ call' = [call EXCEPT ![c] = Served(cache)]
    /\ UNCHANGED <<cache, failureAge, inflight, source, brokeAge>>

\* The call waits for the refresh under way, or starts one.
AwaitRefresh(c) ==
    /\ call[c].phase = "idle"
    /\ ~NoNeedToRefresh
    /\ inflight' = IF inflight.on THEN inflight ELSE [on |-> TRUE, age |-> 0]
    /\ call' = [call EXCEPT ![c] = [phase |-> "waiting", age |-> 0, list |-> Usable]]
    /\ UNCHANGED <<cache, failureAge, source, brokeAge>>

\* Mutant: the new list has no record count.
Fetched_uncounted == [records |-> -1, age |-> inflight.age]

\* refresh's result: fetchedAt is the `now` of the call that started it.
Fetched == [records |-> source, age |-> inflight.age]

\* The refresh validates; every waiting call returns the new list.
RefreshSucceeds ==
    /\ inflight.on
    /\ Accepts
    /\ inflight' = NoRefresh
    /\ cache' = Fetched
    /\ failureAge' = Forever
    /\ call' = [c \in Callers |-> IF Waiting(c) THEN Served(cache') ELSE call[c]]
    /\ UNCHANGED <<source, brokeAge>>

\* The calls that resume each write their own `now`; the last to join is the last to.
JoinedLast(c) ==
    Waiting(c) /\ \A d \in Callers : Waiting(d) => call[c].age <= call[d].age

\* Mutant: the failure is forgotten.
FailureStamp_none(c) == Forever

FailureStamp(c) == call[c].age

\* Mutant: `if (usable) return usable` is left out.
Fallback_refuses(c) == Refused

Fallback(c) == IF call[c].list.records > 0 THEN Served(call[c].list) ELSE Refused

\* Mutant: inflight is not cleared (no `finally`).
Cleared_kept == inflight
Cleared == NoRefresh

\* The download fails, or the pair it brought is rejected.
RefreshFails ==
    /\ inflight.on
    /\ ~Accepts
    /\ inflight' = Cleared
    /\ \E c \in Callers : JoinedLast(c) /\ failureAge' = FailureStamp(c)
    /\ call' = [c \in Callers |-> IF Waiting(c) THEN Fallback(c) ELSE call[c]]
    /\ brokeAge' = 0
    /\ UNCHANGED <<cache, source>>

\* The request has used its answer; the next one may arrive.
Leave(c) ==
    /\ call[c].phase \in {"served", "refused"}
    /\ call' = [call EXCEPT ![c] = Idle]
    /\ UNCHANGED <<cache, failureAge, inflight, source, brokeAge>>

\* Time passes; a download is aborted at its timeout.
Tick ==
    /\ inflight.on => inflight.age < FetchTimeout
    /\ cache' = OlderList(cache)
    /\ failureAge' = Older(failureAge)
    /\ inflight' = IF inflight.on THEN [inflight EXCEPT !.age = Older(@)] ELSE inflight
    /\ call' = [c \in Callers |->
                  IF Waiting(c)
                  THEN [call[c] EXCEPT !.age = Older(@), !.list = OlderList(@)] ELSE call[c]]
    /\ brokeAge' = Older(brokeAge)
    /\ UNCHANGED source

\* OFAC publishes another list, goes down, serves rubbish, or comes back.
Publish ==
    /\ source' \in (Sizes \union {0}) \ {source}
    /\ UNCHANGED <<cache, failureAge, inflight, call, brokeAge>>

Ask(c) == ServeCached(c) \/ AwaitRefresh(c)

Next ==
    \/ \E c \in Callers : ServeCached(c)
    \/ \E c \in Callers : AwaitRefresh(c)
    \/ RefreshSucceeds
    \/ RefreshFails
    \/ \E c \in Callers : Leave(c)
    \/ Tick
    \/ Publish

Spec == Init /\ [][Next]_vars

(***************************************************************************)
(* Requests keep arriving and leaving, a refresh ends one way or the       *)
(* other (its abort timer fires), and time passes.                         *)
(***************************************************************************)
Fairness ==
    /\ \A c \in Callers : WF_vars(Ask(c)) /\ WF_vars(Leave(c))
    /\ WF_vars(RefreshSucceeds \/ RefreshFails)
    /\ WF_vars(Tick)

FairSpec == Spec /\ Fairness

----------------------------------------------------------------------------
TypeOK ==
    /\ cache \in Lists
    /\ failureAge \in Age
    /\ inflight \in Refreshes
    /\ call \in [Callers -> Calls]
    /\ source \in Sizes \union {0}
    /\ brokeAge \in Age

(***************************************************************************)
(* One refresh at a time, and it belongs to the calls that wait: there is  *)
(* one exactly while some call waits, no waiting call is older than it,    *)
(* and the list a waiting call would fall back to is still the cached one  *)
(* (`inflight ??= ...finally`, loadSdnIndex).                              *)
(***************************************************************************)
SharedRefresh ==
    /\ inflight.on <=> \E c \in Callers : Waiting(c)
    /\ inflight.on => inflight.age <= FetchTimeout /\ inflight.age <= cache.age
    /\ \A c \in Callers : Waiting(c) =>
          /\ call[c].age <= inflight.age
          /\ call[c].list.records > 0 =>
                /\ call[c].list = cache
                /\ call[c].list.age < MaxAge + call[c].age
          /\ call[c].list.records = 0 => ~(cache.records > 0 /\ cache.age < MaxAge)

(***************************************************************************)
(* The failure stamp is at most a download older than the failure, although*)
(* calls that joined late overwrite the stamp of the one that started the  *)
(* refresh; and when there is none the list is as recent as that: only a   *)
(* success clears it (`lastRefreshFailure`, loadSdnIndex).                 *)
(***************************************************************************)
StampedFailures ==
    (IF failureAge < Forever THEN failureAge ELSE cache.age) <= brokeAge + FetchTimeout

(***************************************************************************)
(* A served list is not empty and was in date when its call judged it,     *)
(* which is before `await inflight`: it may be past the staleness bound    *)
(* when it is served after a refresh that failed (loadSdnIndex, `usable`), *)
(* but by no more than its call has waited, which is one download at most. *)
(***************************************************************************)
GetsServed(c) == call[c].phase # "served" /\ call'[c].phase = "served"
ServedInDate ==
    [][\A c \in Callers : GetsServed(c) =>
          /\ call'[c].list.records > 0
          /\ call'[c].list.age < MaxAge + call[c].age
          /\ call'[c].list.age < MaxAge + FetchTimeout]_vars

(***************************************************************************)
(* A failed refresh never turns a list that could be served into a         *)
(* refusal: a call is refused only when the cached list is out of date.    *)
(***************************************************************************)
GetsRefused(c) == call[c].phase # "refused" /\ call'[c].phase = "refused"
RefusedOnlyWhenExpired ==
    [][\A c \in Callers : GetsRefused(c) => ~(cache.records > 0 /\ cache.age < MaxAge)]_vars

(***************************************************************************)
(* The cached list is only ever replaced by one that was fetched later and *)
(* is not implausibly shorter ("a rejected pair never displaces a good     *)
(* one", refresh).                                                         *)
(***************************************************************************)
OnlyImproves ==
    [][cache' \notin {cache, OlderList(cache)} =>
          /\ 10 * cache'.records >= 9 * cache.records
          /\ cache'.age <= inflight.age /\ inflight.age <= cache.age]_vars

(***************************************************************************)
(* While a list can be served, a failed refresh is followed by a pause:    *)
(* REFRESH_RETRY_MS less the one download the stamp may predate it by.     *)
(***************************************************************************)
PausesAfterFailure ==
    [][~inflight.on /\ inflight'.on /\ InDate(cache) => brokeAge + FetchTimeout >= RetryAfter]_vars

(***************************************************************************)
(* Once OFAC serves, for good, a list no shorter than the cached one,      *)
(* requests stop being refused.                                            *)
(***************************************************************************)
RefusalsEnd ==
    <>[](source > 0 /\ source >= cache.records)
        => <>[](\A c \in Callers : call[c].phase # "refused")

\* The inductive invariant: the types, one refresh shared by the calls that wait, and
\* what the failure stamp may say (loadSdnIndex).
IInv == TypeOK /\ SharedRefresh /\ StampedFailures

\* What a call may get (loadSdnIndex): a list that was in date before the call waited for
\* the refresh, so past its bound by one download at most; and a refusal only if the list
\* that is cached when the refresh has failed is out of date.
ListInDate == ServedInDate /\ RefusedOnlyWhenExpired

\* A refresh, of one call or shared by many, leaves a better list or a pause behind
\* (refresh, lastRefreshFailure).
RefreshDiscipline == OnlyImproves /\ PausesAfterFailure
=============================================================================
