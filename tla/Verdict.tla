------------------------------- MODULE Verdict -------------------------------
(***************************************************************************)
(* One evaluation of a PASS / WARN / BLOCK verdict: the screening of the   *)
(* subject beside the exposure check, whose workers screen the direct      *)
(* counterparties with a shared index (src/src/verdict.ts,                 *)
(* src/src/exposure.ts).                                                   *)
(*                                                                         *)
(* The routes evaluate a verdict under a pinned snapshot; called without   *)
(* one, as test/exposure.ts does, every screening reads the store again.   *)
(* A counterparty is its index in the list the page of transfers yields,   *)
(* and whether a snapshot lists it is left open: each is screened once.    *)
(***************************************************************************)
EXTENDS Integers, FiniteSets

CONSTANTS
    MaxFound,       \* counterparties one page may show (PAGE_SIZE transfers)
    MaxToScreen,    \* MAX_COUNTERPARTIES_TO_SCREEN
    Concurrency,    \* SCREEN_CONCURRENCY
    LastVersion     \* snapshots that may be activated (a bound of the model)

ASSUME LimitsAssumption ==
    /\ MaxFound \in Nat
    /\ MaxToScreen \in Nat \ {0}
    /\ Concurrency \in Nat \ {0}
    /\ LastVersion \in Nat \ {0}

VARIABLES
    pinned,         \* the snapshot pinned for this evaluation, 0 for none
    store,          \* the active snapshot in the database
    subject,        \* the outcome of the subject's own screening
    lookup,         \* what became of the request for the page of transfers
    found,          \* how many counterparties it showed
    next,           \* the index shared by the workers
    at,             \* the index each worker is at
    screened,       \* the number of counterparties screened
    sanctioned,     \* those found listed
    verdict,        \* the answer
    outcome,        \* what the screening of each counterparty gave (history)
    used            \* the snapshots that results were computed from (history)

vars == <<pinned, store, subject, lookup, found, next, at, screened, sanctioned, verdict,
          outcome, used>>

Indices == 0 .. MaxToScreen - 1
Workers == 1 .. Concurrency
Listings == {"listed", "clear"}
Outcomes == Listings \union {"none", "error"}

Smaller(m, n) == IF m <= n THEN m ELSE n

\* Mutant: the list is not cut off.
Considered_all == found

\* toScreen.length, and the counterparties the slice leaves out.
Considered == Smaller(found, MaxToScreen)
Omitted == found - Considered
ScreeningFailures == Considered - screened

\* A worker beyond the list's end has returned (or was never started).
Busy(w) == lookup = "found" /\ at[w] < Considered

Init ==
    /\ pinned \in {0, 1}
    /\ store \in [version: {1}, usable: BOOLEAN]
    /\ subject = "none"
    /\ lookup = "none"
    /\ found = 0
    /\ next = 0
    /\ at = [w \in Workers |-> MaxToScreen]
    /\ screened = 0
    /\ sanctioned = {}
    /\ verdict = "none"
    /\ outcome = [i \in Indices |-> "none"]
    /\ used = {}

----------------------------------------------------------------------------
\* Mutant: the pinned snapshot is not looked at.
SnapshotOf_reload == IF store.usable THEN store.version ELSE 0

\* screenAddress: `pinnedSnapshot() ?? await loadUsableSnapshot()`, 0 if it throws.
SnapshotOf == IF pinned # 0 THEN pinned ELSE IF store.usable THEN store.version ELSE 0

\* What a screening may give, and what it was computed from.
Results == IF SnapshotOf = 0 THEN {"error"} ELSE Listings
Uses == used \union ({SnapshotOf} \ {0})

ScreenSubject ==
    /\ subject = "none"
    /\ subject' \in Results
    /\ used' = Uses
    /\ UNCHANGED <<pinned, store, lookup, found, next, at, screened, sanctioned, verdict, outcome>>

\* The page cannot be had, or is not what it should be.
LookupFails ==
    /\ lookup = "none"
    /\ lookup' = "failed"
    /\ UNCHANGED <<pinned, store, subject, found, next, at, screened, sanctioned, verdict,
                   outcome, used>>

\* Every worker runs up to its first await: worker w has taken index w - 1.
LookupSucceeds ==
    /\ lookup = "none"
    /\ lookup' = "found"
    /\ found' \in 0 .. MaxFound
    /\ next' = Smaller(Concurrency, Considered')
    /\ at' = [w \in Workers |-> IF w <= Considered' THEN w - 1 ELSE MaxToScreen]
    /\ UNCHANGED <<pinned, store, subject, screened, sanctioned, verdict, outcome, used>>

\* Mutants: the index is read but not advanced; a failed screening is tried again.
Claim_lost(w, result) == [index |-> next, next |-> next]
Claim_retry(w, result) ==
    IF result = "error" THEN [index |-> at[w], next |-> next]
    ELSE [index |-> next, next |-> next + 1]

\* `i = next++`: what the worker takes, and what the shared index becomes.
Claim(w, result) == [index |-> next, next |-> next + 1]

\* Mutant: a screening that throws is counted all the same.
CountScreened_always(result) == screened + 1

CountScreened(result) == IF result = "error" THEN screened ELSE screened + 1

\* A screening settles; the worker counts it and goes on to the next index.
ScreenOne(w) ==
    /\ Busy(w)
    /\ \E result \in Results :
        /\ outcome' = [outcome EXCEPT ![at[w]] = result]
        /\ screened' = CountScreened(result)
        /\ sanctioned' = IF result = "listed" THEN sanctioned \union {at[w]} ELSE sanctioned
        /\ next' = Claim(w, result).next
        /\ at' = [at EXCEPT ![w] = Claim(w, result).index]
    /\ used' = Uses
    /\ UNCHANGED <<pinned, store, subject, lookup, found, verdict>>

\* checkDirectExposure has returned.
ExposureDone == lookup = "failed" \/ (lookup = "found" /\ \A w \in Workers : ~Busy(w))

\* Mutant: a full list does not count as complete.
Complete_not_full == lookup = "found" /\ found < MaxToScreen /\ ScreeningFailures = 0

Complete == lookup = "found" /\ Omitted = 0 /\ ScreeningFailures = 0

\* buildVerdictData.
Decide ==
    IF subject = "listed" THEN "BLOCK"
    ELSE IF sanctioned # {} THEN "WARN"
    ELSE IF ~Complete THEN "WARN"
    ELSE "PASS"

Conclude ==
    /\ verdict = "none"
    /\ subject \in Listings
    /\ ExposureDone
    /\ verdict' = Decide
    /\ UNCHANGED <<pinned, store, subject, lookup, found, next, at, screened, sanctioned,
                   outcome, used>>

\* The subject's screening throws: Promise.all rejects, the workers run on.
Reject ==
    /\ verdict = "none"
    /\ subject = "error"
    /\ verdict' = "error"
    /\ UNCHANGED <<pinned, store, subject, lookup, found, next, at, screened, sanctioned,
                   outcome, used>>

Activate ==
    /\ store.version < LastVersion
    /\ store' = [version |-> store.version + 1, usable |-> TRUE]
    /\ UNCHANGED <<pinned, subject, lookup, found, next, at, screened, sanctioned, verdict,
                   outcome, used>>

StoreFlips ==
    /\ store' = [store EXCEPT !.usable = ~@]
    /\ UNCHANGED <<pinned, subject, lookup, found, next, at, screened, sanctioned, verdict,
                   outcome, used>>

Next ==
    \/ ScreenSubject
    \/ LookupFails
    \/ LookupSucceeds
    \/ \E w \in Workers : ScreenOne(w)
    \/ Conclude
    \/ Reject
    \/ Activate
    \/ StoreFlips

Spec == Init /\ [][Next]_vars

(***************************************************************************)
(* Every await ends one way or the other; nothing is assumed of the store. *)
(***************************************************************************)
Fairness ==
    /\ WF_vars(ScreenSubject)
    /\ WF_vars(LookupFails \/ LookupSucceeds)
    /\ \A w \in Workers : WF_vars(ScreenOne(w))
    /\ WF_vars(Conclude) /\ WF_vars(Reject)

FairSpec == Spec /\ Fairness

----------------------------------------------------------------------------
TypeOK ==
    /\ pinned \in 0 .. LastVersion
    /\ store \in [version: 1 .. LastVersion, usable: BOOLEAN]
    /\ subject \in Outcomes
    /\ lookup \in {"none", "failed", "found"}
    /\ found \in 0 .. MaxFound
    /\ next \in Nat
    /\ at \in [Workers -> Nat]
    /\ screened \in Nat
    /\ sanctioned \in SUBSET Indices
    /\ verdict \in {"none", "PASS", "WARN", "BLOCK", "error"}
    /\ outcome \in [Indices -> Outcomes]
    /\ used \in SUBSET (1 .. LastVersion)

(***************************************************************************)
(* The workers divide the list: no two are at the same counterparty, every *)
(* one below the shared index is being screened or has been, none above it *)
(* has been touched, and the counts say what happened (`i = next++` before *)
(* the await, screenCounterparties).                                       *)
(***************************************************************************)
Settled == {i \in Indices : outcome[i] # "none"}
Good == {i \in Indices : outcome[i] \in Listings}

WorkDivided ==
    /\ \A w \in Workers : Busy(w) => at[w] < next /\ at[w] \notin Settled
    /\ \A v, w \in Workers : Busy(v) /\ Busy(w) /\ at[v] = at[w] => v = w
    /\ \A i \in Indices : lookup = "found" /\ i < next /\ i < Considered =>
          i \in Settled \/ \E w \in Workers : Busy(w) /\ at[w] = i
    /\ Settled \subseteq {i \in 0 .. Considered - 1 : i < next}
    /\ screened = Cardinality(Good)
    /\ sanctioned = {i \in Indices : outcome[i] = "listed"}

(***************************************************************************)
(* PASS means that the subject and every counterparty found were screened  *)
(* and none is listed: neither a failed lookup, nor a failed screening,    *)
(* nor a counterparty beyond the limit ever reads as clean.                *)
(***************************************************************************)
PassMeansClear ==
    verdict = "PASS" =>
        /\ subject = "clear"
        /\ lookup = "found" /\ found <= MaxToScreen
        /\ \A i \in 0 .. found - 1 : outcome[i] = "clear"

(***************************************************************************)
(* WARN is never gratuitous: a counterparty is listed, or something that   *)
(* was to be evaluated was not; and the subject itself is not listed.      *)
(***************************************************************************)
WarnMeansSomething ==
    verdict = "WARN" =>
        /\ subject = "clear"
        /\ \/ lookup = "failed"
           \/ found > MaxToScreen
           \/ \E i \in 0 .. found - 1 : outcome[i] \in {"listed", "error"}

(***************************************************************************)
(* Under a pinned snapshot the subject and every counterparty are screened *)
(* against that one, whatever is activated meanwhile, and no screening     *)
(* fails, so a verdict that was paid for is never an error.                *)
(***************************************************************************)
OnePinnedSnapshot ==
    pinned # 0 =>
        /\ used \subseteq {pinned}
        /\ subject # "error" /\ verdict # "error"
        /\ \A i \in Indices : outcome[i] # "error"

(***************************************************************************)
(* Every evaluation ends, with the store up or down.                       *)
(***************************************************************************)
Concludes == <>(verdict # "none")

\* Every counterparty is somebody's, once, and the counts that the decision reads are
\* right at every await of the workers (screenCounterparties).
WorkIsCounted == TypeOK /\ WorkDivided

\* A verdict is earned: a PASS by screening everything there is, a WARN by a reason, and
\* under a pinned snapshot both by that one alone (evaluateVerdict, buildVerdictData).
DecisionIsEarned == PassMeansClear /\ WarnMeansSomething /\ OnePinnedSnapshot
=============================================================================
