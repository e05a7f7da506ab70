--------------------------- MODULE ScreeningProofs ---------------------------
(***************************************************************************)
(* Proofs about the screening of wallets: the evaluation of a verdict, for *)
(* any number of workers and counterparties and any limit, and the list it *)
(* screens against, for any publications, clocks and policy.               *)
(***************************************************************************)
EXTENDS Verdict, SdnSnapshot, FiniteSetTheorems, TLAPS

(***************************************************************************)
(* What the invariants lean on: nothing is found before the lookup, the    *)
(* list is never left without a worker before its end, and a decision is   *)
(* taken when there is nothing left to do.                                 *)
(***************************************************************************)
Ordered ==
    /\ lookup # "found" => found = 0 /\ next = 0
    /\ lookup = "found" /\ next < Considered => \E w \in Workers : Busy(w)
    /\ verdict \in {"PASS", "WARN"} => ExposureDone /\ subject = "clear"

IInv ==
    TypeOK /\ WorkDivided /\ Ordered /\ PassMeansClear /\ WarnMeansSomething /\ OnePinnedSnapshot

LEMMA ConsideredProps ==
    ASSUME TypeOK
    PROVE  /\ Considered \in Nat /\ Considered <= found /\ Considered <= MaxToScreen
           /\ found <= MaxToScreen => Considered = found
           /\ found > MaxToScreen => Considered = MaxToScreen
BY LimitsAssumption DEF TypeOK, Considered, Smaller

LEMMA InitIInv == Init => IInv
<1> SUFFICES ASSUME Init PROVE IInv
  OBVIOUS
<1>1. TypeOK
  BY LimitsAssumption DEF Init, TypeOK, Outcomes, Listings
<1>2. Settled = {} /\ Good = {} /\ \A w \in Workers : ~Busy(w)
  BY DEF Init, Settled, Good, Listings, Busy
<1>3. WorkDivided
  BY <1>2, FS_EmptySet DEF Init, WorkDivided
<1>4. Ordered /\ PassMeansClear /\ WarnMeansSomething /\ OnePinnedSnapshot
  BY DEF Init, Ordered, PassMeansClear, WarnMeansSomething, OnePinnedSnapshot
<1> QED
  BY <1>1, <1>3, <1>4 DEF IInv

----------------------------------------------------------------------------
(* What a screening may give.                                              *)

LEMMA ResultsProps ==
    ASSUME TypeOK
    PROVE  /\ Results \subseteq Outcomes \ {"none"}
           /\ Uses \in SUBSET (1 .. LastVersion)
           /\ pinned # 0 => Results = Listings /\ Uses = used \union {pinned}
<1>1. SnapshotOf \in 0 .. LastVersion /\ (pinned # 0 => SnapshotOf = pinned)
  BY LimitsAssumption DEF TypeOK, SnapshotOf
<1>2. Results \subseteq Outcomes \ {"none"}
  BY DEF Results, Outcomes, Listings
<1>3. Uses \in SUBSET (1 .. LastVersion)
  BY <1>1, LimitsAssumption DEF TypeOK, Uses
<1>4. pinned # 0 => Results = Listings /\ Uses = used \union {pinned}
  BY <1>1 DEF Results, Uses
<1> QED
  BY <1>2, <1>3, <1>4

\* The parts of the invariant that only speak of the work.
Work == <<lookup, found, next, at, screened, sanctioned, outcome>>

LEMMA WorkKept == ASSUME WorkDivided, UNCHANGED Work PROVE WorkDivided'
BY DEF Work, WorkDivided, Busy, Settled, Good, Considered, Smaller

LEMMA ScreenSubjectIInv == ASSUME IInv, ScreenSubject PROVE IInv'
<1>1. subject' \in Results /\ used' = Uses /\ subject = "none"
      /\ UNCHANGED <<pinned, store, verdict>> /\ UNCHANGED Work
  BY DEF ScreenSubject, Work
<1>2. TypeOK'
  BY <1>1, ResultsProps DEF IInv, TypeOK, Work
<1>3. WorkDivided'
  BY <1>1, WorkKept DEF IInv
<1>4. verdict \notin {"PASS", "WARN"}
  BY <1>1 DEF IInv, Ordered
<1>5. Ordered' /\ PassMeansClear' /\ WarnMeansSomething'
  BY <1>1, <1>4
     DEF IInv, Ordered, PassMeansClear, WarnMeansSomething, Work, Busy, Considered, Smaller
<1>6. OnePinnedSnapshot'
  BY <1>1, ResultsProps DEF IInv, OnePinnedSnapshot, Work, Listings
<1> QED
  BY <1>2, <1>3, <1>5, <1>6 DEF IInv

LEMMA LookupFailsIInv == ASSUME IInv, LookupFails PROVE IInv'
<1>1. lookup = "none" /\ lookup' = "failed"
      /\ UNCHANGED <<pinned, store, subject, found, next, at, screened, sanctioned, verdict,
                     outcome, used>>
  BY DEF LookupFails
<1>2. TypeOK'
  BY <1>1 DEF IInv, TypeOK
<1>3. WorkDivided'
  BY <1>1 DEF IInv, WorkDivided, Busy, Settled, Good, Considered, Smaller
<1>4. verdict \notin {"PASS", "WARN"}
  BY <1>1 DEF IInv, Ordered, ExposureDone
<1>5. Ordered' /\ PassMeansClear' /\ WarnMeansSomething' /\ OnePinnedSnapshot'
  BY <1>1, <1>4
     DEF IInv, Ordered, PassMeansClear, WarnMeansSomething, OnePinnedSnapshot
<1> QED
  BY <1>2, <1>3, <1>5 DEF IInv

LEMMA LookupSucceedsIInv == ASSUME IInv, LookupSucceeds PROVE IInv'
<1>1. /\ lookup = "none" /\ lookup' = "found" /\ found' \in 0 .. MaxFound
      /\ next' = Smaller(Concurrency, Considered')
      /\ at' = [w \in Workers |-> IF w <= Considered' THEN w - 1 ELSE MaxToScreen]
      /\ UNCHANGED <<pinned, store, subject, screened, sanctioned, verdict, outcome, used>>
  BY DEF LookupSucceeds
<1>2. /\ Considered' \in Nat /\ Considered' <= MaxToScreen
      /\ next' \in Nat /\ next' <= Concurrency /\ next' <= Considered'
      /\ next' < Considered' => next' = Concurrency
  BY <1>1, LimitsAssumption DEF Considered, Smaller
<1>3. TypeOK'
  BY <1>1, <1>2, LimitsAssumption DEF IInv, TypeOK, Workers
<1>4. Considered = 0 /\ Settled = {}
  BY <1>1, LimitsAssumption DEF IInv, WorkDivided, Ordered, Considered, Smaller
<1>5. Settled' = {} /\ Good' = Good
  BY <1>1, <1>4 DEF Settled, Good
<1>6. \A w \in Workers : Busy(w)' <=> w <= Considered'
  BY <1>1, <1>2, LimitsAssumption DEF Busy, Workers
<1>7. WorkDivided'
  <2>1. \A w \in Workers : Busy(w)' => at'[w] < next' /\ at'[w] \notin Settled'
    BY <1>1, <1>2, <1>5, <1>6, LimitsAssumption DEF Workers
  <2>2. \A v, w \in Workers : Busy(v)' /\ Busy(w)' /\ at'[v] = at'[w] => v = w
    BY <1>1, <1>6 DEF Workers
  <2>3. ASSUME NEW i \in Indices, i < next', i < Considered'
        PROVE  \E w \in Workers : Busy(w)' /\ at'[w] = i
    <3>1. i + 1 \in Workers /\ i + 1 <= Considered'
      BY <1>2, <2>3, LimitsAssumption DEF Indices, Workers
    <3>2. at'[i + 1] = i
      BY <1>1, <3>1 DEF Indices
    <3> QED
      BY <1>6, <3>1, <3>2
  <2>4. screened' = Cardinality(Good')
        /\ sanctioned' = {i \in Indices : outcome'[i] = "listed"}
    BY <1>1, <1>5 DEF IInv, WorkDivided
  <2> QED
    BY <1>5, <2>1, <2>2, <2>3, <2>4 DEF WorkDivided
<1>8. verdict \notin {"PASS", "WARN"}
  BY <1>1 DEF IInv, Ordered, ExposureDone
<1>9. Ordered'
  <2>1. next' < Considered' => Busy(1)' /\ 1 \in Workers
    BY <1>2, <1>6, LimitsAssumption DEF Workers
  <2> QED
    BY <1>1, <1>8, <2>1 DEF Ordered
<1>10. PassMeansClear' /\ WarnMeansSomething' /\ OnePinnedSnapshot'
  BY <1>1, <1>8 DEF IInv, PassMeansClear, WarnMeansSomething, OnePinnedSnapshot
<1> QED
  BY <1>3, <1>7, <1>9, <1>10 DEF IInv

----------------------------------------------------------------------------
(* A worker's step.                                                        *)

LEMMA ScreenOneIInv == ASSUME IInv, NEW w \in Workers, ScreenOne(w) PROVE IInv'
<1>1. PICK result \in Results :
        /\ outcome' = [outcome EXCEPT ![at[w]] = result]
        /\ screened' = CountScreened(result)
        /\ sanctioned' = IF result = "listed" THEN sanctioned \union {at[w]} ELSE sanctioned
        /\ next' = Claim(w, result).next
        /\ at' = [at EXCEPT ![w] = Claim(w, result).index]
  BY DEF ScreenOne
<1>2. Busy(w) /\ used' = Uses /\ UNCHANGED <<pinned, store, subject, lookup, found, verdict>>
  BY DEF ScreenOne
<1> DEFINE here == at[w]
<1>3. TypeOK /\ result \in Outcomes \ {"none"}
  BY ResultsProps DEF IInv
<1>4. Considered \in Nat /\ Considered <= MaxToScreen /\ Considered' = Considered
  BY <1>2, <1>3, ConsideredProps DEF Considered
<1>5. here \in Indices /\ here < Considered /\ here < next /\ here \notin Settled
  BY <1>2, <1>3, <1>4, LimitsAssumption DEF Busy, IInv, TypeOK, WorkDivided, Indices
<1>6. /\ next' = next + 1 /\ next \in Nat
      /\ at' \in [Workers -> Nat] /\ at'[w] = next
      /\ \A v \in Workers : v # w => at'[v] = at[v]
  BY <1>1, <1>3 DEF Claim, TypeOK
<1>7. /\ outcome' \in [Indices -> Outcomes] /\ outcome'[here] = result
      /\ \A i \in Indices : i # here => outcome'[i] = outcome[i]
  BY <1>1, <1>3, <1>5 DEF TypeOK
<1>8. Settled' = Settled \union {here}
  BY <1>3, <1>5, <1>7 DEF Settled
<1>9. TypeOK'
  BY <1>1, <1>2, <1>3, <1>5, <1>6, <1>7, ResultsProps DEF TypeOK, CountScreened
<1>10. \A v \in Workers : v # w => (Busy(v)' <=> Busy(v)) /\ (Busy(v) => at[v] # here)
  BY <1>2, <1>4, <1>6 DEF Busy, IInv, WorkDivided
<1>11. Settled \subseteq {i \in 0 .. Considered - 1 : i < next}
  BY DEF IInv, WorkDivided
<1>12. \A v \in Workers : Busy(v)' => at'[v] < next' /\ at'[v] \notin Settled'
  <2>1. ASSUME NEW v \in Workers, Busy(v)', v # w
        PROVE  at'[v] < next' /\ at'[v] \notin Settled'
    BY <1>3, <1>6, <1>8, <1>10, <2>1 DEF IInv, WorkDivided, TypeOK
  <2>2. at'[w] < next' /\ at'[w] \notin Settled'
    BY <1>5, <1>6, <1>8, <1>11
  <2> QED
    BY <2>1, <2>2
<1>13. \A u, v \in Workers : Busy(u)' /\ Busy(v)' /\ at'[u] = at'[v] => u = v
  <2>1. ASSUME NEW v \in Workers, v # w, Busy(v)' PROVE at'[v] < next
    BY <1>6, <1>10, <2>1 DEF IInv, WorkDivided
  <2>2. ASSUME NEW u \in Workers, NEW v \in Workers, u # w, v # w, Busy(u)', Busy(v)',
               at'[u] = at'[v]
        PROVE  u = v
    BY <1>6, <1>10, <2>2 DEF IInv, WorkDivided
  <2> QED
    BY <1>6, <2>1, <2>2
<1>14. ASSUME NEW i \in Indices, lookup' = "found", i < next', i < Considered'
       PROVE  i \in Settled' \/ \E v \in Workers : Busy(v)' /\ at'[v] = i
  <2>1. CASE i = next
    BY <1>2, <1>4, <1>6, <1>14, <2>1 DEF Busy
  <2>2. CASE i # next
    <3>1. i < next
      BY <1>6, <1>14, <2>2 DEF Indices
    <3>2. CASE i \in Settled
      BY <1>8, <3>2
    <3>3. CASE i \notin Settled
      <4>1. PICK v \in Workers : Busy(v) /\ at[v] = i
        BY <1>2, <1>4, <1>14, <3>1, <3>3 DEF IInv, WorkDivided
      <4>2. CASE v = w
        BY <1>8, <4>1, <4>2
      <4>3. CASE v # w
        BY <1>6, <1>10, <4>1, <4>3
      <4> QED
        BY <4>2, <4>3
    <3> QED
      BY <3>2, <3>3
  <2> QED
    BY <2>1, <2>2
<1>15. Settled' \subseteq {i \in 0 .. Considered' - 1 : i < next'}
  <2>1. here \in 0 .. Considered' - 1 /\ here < next'
    BY <1>4, <1>5, <1>6 DEF Indices
  <2>2. ASSUME NEW i \in Settled PROVE i \in 0 .. Considered' - 1 /\ i < next'
    BY <1>4, <1>6, <1>11
  <2> QED
    BY <1>8, <2>1, <2>2
<1>16. screened' = Cardinality(Good')
  <2>1. IsFiniteSet(Good) /\ screened = Cardinality(Good)
    <3>1. IsFiniteSet(Indices)
      BY LimitsAssumption, FS_Interval DEF Indices
    <3> QED
      BY <3>1, FS_Subset DEF Good, IInv, WorkDivided
  <2>2. here \notin Good
    BY <1>5 DEF Good, Settled, Listings
  <2>3. CASE result = "error"
    <3>1. Good' = Good
      BY <1>7, <2>2, <2>3 DEF Good, Listings
    <3> QED
      BY <1>1, <2>1, <2>3, <3>1 DEF CountScreened
  <2>4. CASE result # "error"
    <3>1. Good' = Good \union {here}
      BY <1>3, <1>5, <1>7, <2>4 DEF Good, Outcomes, Listings
    <3> QED
      BY <1>1, <2>1, <2>2, <2>4, <3>1, FS_AddElement DEF CountScreened
  <2> QED
    BY <2>3, <2>4
<1>17. sanctioned' = {i \in Indices : outcome'[i] = "listed"}
  <2>1. sanctioned = {i \in Indices : outcome[i] = "listed"} /\ outcome[here] = "none"
    BY <1>5 DEF IInv, WorkDivided, Settled
  <2>2. CASE result = "listed"
    BY <1>1, <1>5, <1>7, <2>1, <2>2
  <2>3. CASE result # "listed"
    BY <1>1, <1>5, <1>7, <2>1, <2>3
  <2> QED
    BY <2>2, <2>3
<1>18. WorkDivided'
  BY <1>12, <1>13, <1>14, <1>15, <1>16, <1>17 DEF WorkDivided
<1>19. verdict \notin {"PASS", "WARN"}
  BY <1>2 DEF IInv, Ordered, ExposureDone, Busy
<1>20. Ordered'
  <2>1. next' < Considered' => Busy(w)'
    BY <1>2, <1>4, <1>6 DEF Busy
  <2> QED
    BY <1>2, <1>19, <2>1 DEF Ordered, Busy
<1>21. PassMeansClear' /\ WarnMeansSomething'
  BY <1>2, <1>19 DEF PassMeansClear, WarnMeansSomething
<1>22. OnePinnedSnapshot'
  BY <1>2, <1>3, <1>5, <1>7, ResultsProps DEF IInv, OnePinnedSnapshot, Listings
<1> QED
  BY <1>9, <1>18, <1>20, <1>21, <1>22 DEF IInv

----------------------------------------------------------------------------
(* The decision.                                                           *)

\* Full marks leave no counterparty out, and anything less leaves one.
LEMMA GoodCounts ==
    ASSUME IInv
    PROVE  screened = Considered <=> Good = 0 .. Considered - 1
<1>1. Considered \in Nat
  BY ConsideredProps DEF IInv
<1>2. IsFiniteSet(0 .. Considered - 1) /\ Cardinality(0 .. Considered - 1) = Considered
  BY <1>1, FS_Interval
<1>3. Good \subseteq 0 .. Considered - 1
  BY DEF IInv, WorkDivided, Good, Settled, Listings
<1>4. screened = Cardinality(Good)
  BY DEF IInv, WorkDivided
<1> QED
  BY <1>2, <1>3, <1>4, FS_Subset

LEMMA ConcludeIInv == ASSUME IInv, Conclude PROVE IInv'
<1>1. /\ subject \in Listings /\ ExposureDone /\ verdict' = Decide
      /\ UNCHANGED <<pinned, store, subject, used>> /\ UNCHANGED Work
  BY DEF Conclude, Work
<1>2. /\ TypeOK /\ Considered \in Nat /\ Considered <= found /\ Considered <= MaxToScreen
      /\ found <= MaxToScreen => Considered = found
      /\ found > MaxToScreen => Considered = MaxToScreen
      /\ found \in Nat /\ screened \in Nat
  BY ConsideredProps DEF IInv, TypeOK
<1>3. TypeOK'
  BY <1>1, <1>2 DEF TypeOK, Work, Decide
<1>4. WorkDivided'
  BY <1>1, WorkKept DEF IInv
<1>5. verdict' \in {"PASS", "WARN"} => subject = "clear"
  BY <1>1 DEF Decide, Listings
<1>6. Ordered'
  BY <1>1, <1>5 DEF IInv, Ordered, Work, ExposureDone, Busy, Considered, Smaller
<1>7. sanctioned = {i \in Indices : outcome[i] = "listed"}
  BY DEF IInv, WorkDivided
<1>8. ASSUME verdict' = "PASS" PROVE PassMeansClear'
  <2>1. subject = "clear" /\ sanctioned = {} /\ Complete
    BY <1>1, <1>5, <1>8 DEF Decide
  <2>2. lookup = "found" /\ found <= MaxToScreen /\ Considered = found /\ screened = Considered
    BY <1>2, <2>1, LimitsAssumption DEF Complete, Omitted, ScreeningFailures
  <2>3. Good = 0 .. found - 1
    BY <2>2, GoodCounts
  <2>4. \A i \in 0 .. found - 1 : outcome[i] = "clear"
    BY <1>7, <2>1, <2>3 DEF Good, Listings
  <2> QED
    BY <1>1, <2>1, <2>2, <2>4 DEF PassMeansClear, Work
<1>9. ASSUME verdict' = "WARN" PROVE WarnMeansSomething'
  <2>1. subject = "clear" /\ (sanctioned # {} \/ ~Complete)
    BY <1>1, <1>5, <1>9 DEF Decide
  <2>2. CASE sanctioned # {}
    <3>1. PICK i \in Indices : outcome[i] = "listed"
      BY <1>7, <2>2
    <3>2. i \in 0 .. Considered - 1
      BY <3>1 DEF IInv, WorkDivided, Settled
    <3>3. i \in 0 .. found - 1
      BY <1>2, <3>2
    <3> QED
      BY <1>1, <2>1, <3>1, <3>3 DEF WarnMeansSomething, Work
  <2>3. CASE lookup # "found"
    BY <1>1, <2>1, <2>3 DEF WarnMeansSomething, Work, ExposureDone
  <2>4. CASE lookup = "found" /\ found > MaxToScreen
    BY <1>1, <2>1, <2>4 DEF WarnMeansSomething, Work
  <2>5. CASE lookup = "found" /\ found <= MaxToScreen /\ ~Complete
    <3>1. screened # Considered
      BY <1>2, <2>5 DEF Complete, Omitted, ScreeningFailures
    <3>2. PICK i \in 0 .. Considered - 1 : i \notin Good
      <4>1. Good \subseteq 0 .. Considered - 1
        BY DEF IInv, WorkDivided, Good, Settled, Listings
      <4> QED
        BY <3>1, <4>1, GoodCounts
    <3>3. i \in Indices /\ i < Considered
      BY <1>2, LimitsAssumption DEF Indices
    <3>4. next >= Considered /\ \A w \in Workers : ~Busy(w)
      BY <1>1, <1>2, <2>5 DEF ExposureDone, IInv, Ordered, TypeOK
    <3>5. i \in Settled
      BY <1>2, <2>5, <3>3, <3>4 DEF IInv, WorkDivided, TypeOK, Indices
    <3>6. outcome[i] = "error" /\ i \in 0 .. found - 1
      BY <1>2, <3>2, <3>3, <3>5 DEF Good, Settled, TypeOK, Outcomes, Indices
    <3> QED
      BY <1>1, <2>1, <3>6 DEF WarnMeansSomething, Work
  <2> QED
    BY <1>2, <2>1, <2>2, <2>3, <2>4, <2>5, LimitsAssumption
<1>10. PassMeansClear' /\ WarnMeansSomething'
  BY <1>8, <1>9 DEF PassMeansClear, WarnMeansSomething
<1>11. OnePinnedSnapshot'
  BY <1>1 DEF IInv, OnePinnedSnapshot, Work, Decide
<1> QED
  BY <1>3, <1>4, <1>6, <1>10, <1>11 DEF IInv

LEMMA RejectIInv == ASSUME IInv, Reject PROVE IInv'
<1>1. /\ subject = "error" /\ verdict' = "error"
      /\ UNCHANGED <<pinned, store, subject, used>> /\ UNCHANGED Work
  BY DEF Reject, Work
<1>2. TypeOK'
  BY <1>1 DEF IInv, TypeOK, Work
<1>3. WorkDivided'
  BY <1>1, WorkKept DEF IInv
<1>4. Ordered' /\ PassMeansClear' /\ WarnMeansSomething' /\ OnePinnedSnapshot'
  BY <1>1 DEF IInv, Ordered, PassMeansClear, WarnMeansSomething, OnePinnedSnapshot, Work, Busy,
              Considered, Smaller
<1> QED
  BY <1>2, <1>3, <1>4 DEF IInv

\* The store's steps, and stuttering, leave the evaluation alone.
LEMMA StoreIInv ==
    ASSUME IInv, store' \in [version: 1 .. LastVersion, usable: BOOLEAN],
           UNCHANGED <<pinned, subject, lookup, found, next, at, screened, sanctioned, verdict,
                       outcome, used>>
    PROVE  IInv'
<1>1. TypeOK'
  BY DEF IInv, TypeOK
<1>2. WorkDivided'
  BY WorkKept DEF IInv, Work
<1>3. Ordered' /\ PassMeansClear' /\ WarnMeansSomething' /\ OnePinnedSnapshot'
  BY DEF IInv, Ordered, PassMeansClear, WarnMeansSomething, OnePinnedSnapshot, ExposureDone, Busy,
         Considered, Smaller
<1> QED
  BY <1>1, <1>2, <1>3 DEF IInv

LEMMA NextIInv == IInv /\ [Next]_vars => IInv'
<1> SUFFICES ASSUME IInv, [Next]_vars PROVE IInv'
  OBVIOUS
<1>1. store \in [version: 1 .. LastVersion, usable: BOOLEAN]
  BY DEF IInv, TypeOK
<1>2. CASE Activate
  BY <1>1, <1>2, StoreIInv, LimitsAssumption DEF Activate
<1>3. CASE StoreFlips
  BY <1>1, <1>3, StoreIInv DEF StoreFlips
<1>4. CASE UNCHANGED vars
  BY <1>1, <1>4, StoreIInv DEF vars
<1> QED
  BY <1>2, <1>3, <1>4, ScreenSubjectIInv, LookupFailsIInv, LookupSucceedsIInv, ScreenOneIInv,
     ConcludeIInv, RejectIInv DEF Next

----------------------------------------------------------------------------
\* The invariant holds of every evaluation of a verdict.
THEOREM Invariance == Spec => []IInv
BY InitIInv, NextIInv, PTL DEF Spec

(***************************************************************************)
(* Every state is well typed (evaluateVerdict, checkDirectExposure).       *)
(***************************************************************************)
THEOREM TypeCorrect == Spec => []TypeOK
<1>1. IInv => TypeOK
  BY DEF IInv
<1> QED
  BY <1>1, Invariance, PTL

(***************************************************************************)
(* The workers of screenCounterparties divide the list between them, and   *)
(* its counts are right in every state.                                    *)
(***************************************************************************)
THEOREM WorkDividedHolds == Spec => []WorkDivided
<1>1. IInv => WorkDivided
  BY DEF IInv
<1> QED
  BY <1>1, Invariance, PTL

(***************************************************************************)
(* A PASS is earned (buildVerdictData on what checkDirectExposure counts). *)
(***************************************************************************)
THEOREM PassMeansClearHolds == Spec => []PassMeansClear
<1>1. IInv => PassMeansClear
  BY DEF IInv
<1> QED
  BY <1>1, Invariance, PTL

(***************************************************************************)
(* A WARN has a reason (buildVerdictData).                                 *)
(***************************************************************************)
THEOREM WarnMeansSomethingHolds == Spec => []WarnMeansSomething
<1>1. IInv => WarnMeansSomething
  BY DEF IInv
<1> QED
  BY <1>1, Invariance, PTL

(***************************************************************************)
(* A verdict under a pinned snapshot is computed from that one alone and   *)
(* never fails (pinnedSnapshot, screenAddress).                            *)
(***************************************************************************)
THEOREM OnePinnedSnapshotHolds == Spec => []OnePinnedSnapshot
<1>1. IInv => OnePinnedSnapshot
  BY DEF IInv
<1> QED
  BY <1>1, Invariance, PTL

\* The work is divided and counted right at every step of the workers.
THEOREM WorkIsCountedHolds == Spec => []WorkIsCounted
BY TypeCorrect, WorkDividedHolds, PTL DEF WorkIsCounted

\* Every verdict is earned, and under a pinned snapshot by that one.
THEOREM DecisionIsEarnedHolds == Spec => []DecisionIsEarned
BY PassMeansClearHolds, WarnMeansSomethingHolds, OnePinnedSnapshotHolds, PTL DEF DecisionIsEarned

----------------------------------------------------------------------------
(* SdnSnapshot: the inductive invariant.                                   *)

Publications == [list : Lists, date : Int, at : Nat]

SdnTypes ==
    /\ now \in 0 .. MaxTime /\ lead \in Leads
    /\ published \in Seq(Publications) /\ Latest <= MaxPublications
    /\ \A k \in 1 .. Latest : published[k].at <= now
    /\ quarantine \subseteq 1 .. Latest

\* A stored snapshot is the document of a publication, with the rows that are left of it;
\* the next publication came no earlier than, by the readers' clock and with a lag, it
\* was last revalidated.
RowOK(r) ==
    /\ r = [pub |-> r.pub, doc |-> r.doc, retrieved |-> r.retrieved, revalidated |-> r.revalidated,
            rows |-> r.rows, count |-> r.count, unique |-> r.unique]
    /\ r.pub \in 1 .. Latest
    /\ r.doc = DocumentOf(r.pub)
    /\ r.rows \subseteq Evm(r.doc.ids) /\ r.count = Cardinality(Evm(r.doc.ids))
    /\ r.retrieved \in Int /\ r.revalidated \in Int
    /\ r.retrieved <= r.revalidated /\ r.revalidated <= now + lead
    /\ r.pub < Latest => r.revalidated - published[r.pub + 1].at <= lead + MaxLag

SampleOK(s) ==
    /\ s.pub \in 1 .. Latest /\ s.at \in Nat /\ s.at <= now
    /\ s.matches = {i \in published[s.pub].list : i.address = s.address}
    /\ s.listed <=> s.matches # {}
    /\ s.pub < Latest => s.at - published[s.pub + 1].at <= MaxStaleness + lead + MaxLag

SdnIInv ==
    SdnTypes /\ (active # None => RowOK(active)) /\ (sample # None => SampleOK(sample))

LEMMA SdnNumbers ==
    ASSUME SdnTypes
    PROVE  /\ now \in Nat /\ lead \in Nat /\ Latest \in Nat /\ MaxStaleness \in Nat /\ MaxLag \in Nat
           /\ \A k \in 1 .. Latest : published[k] \in Publications
BY PolicyAssumption DEF SdnTypes, Latest

----------------------------------------------------------------------------
(* Documents.                                                              *)

LEMMA DocumentProps ==
    ASSUME NEW list, NEW date
    PROVE  /\ Document(list, date).ids = list /\ Document(list, date).date = date
           /\ Document(list, date).entries = EntriesOf(list)
           /\ Document(list, date).stated = Cardinality(EntriesOf(list))
           /\ Document(list, date).closed = TRUE /\ Document(list, date).stray = FALSE
BY DEF Document

LEMMA ListIsFinite ==
    ASSUME NEW list \in Lists
    PROVE  IsFiniteSet(list) /\ IsFiniteSet(EntriesOf(list)) /\ IsFiniteSet(Evm(list))
<1>1. IsFiniteSet(list)
  BY ListAssumption, FS_Subset
<1>2. [i \in list |-> i.entry] \in Surjection(list, EntriesOf(list))
  BY DEF Surjection, EntriesOf
<1>3. IsFiniteSet(EntriesOf(list))
  BY <1>1, <1>2, FS_Surjection
<1>4. IsFiniteSet(Evm(list))
  BY <1>1, FS_Subset DEF Evm
<1> QED
  BY <1>1, <1>3, <1>4

\* What arrives whole and with the entries it states is what was published.
LEMMA WholeIsOfficial ==
    ASSUME NEW list \in Lists, NEW date, NEW d \in Arrivals(Document(list, date)),
           d.closed = TRUE, d.stray = FALSE, d.stated = Cardinality(d.entries)
    PROVE  d = Document(list, date)
<1> DEFINE o == Document(list, date)
<1>1. \/ d = o \/ d = [o EXCEPT !.closed = FALSE] \/ d = [o EXCEPT !.stray = TRUE]
      \/ \E e \in o.entries : d = [o EXCEPT !.entries = o.entries \ {e}, !.ids = {i \in o.ids : i.entry # e}]
  BY DEF Arrivals
<1>2. d # [o EXCEPT !.closed = FALSE] /\ d # [o EXCEPT !.stray = TRUE]
  BY DEF Document
<1>3. ASSUME NEW e \in o.entries, d = [o EXCEPT !.entries = o.entries \ {e}, !.ids = {i \in o.ids : i.entry # e}]
      PROVE  FALSE
  <2>1. d.entries = o.entries \ {e} /\ d.stated = o.stated
    BY <1>3 DEF Document
  <2>2. o.entries = EntriesOf(list) /\ o.stated = Cardinality(EntriesOf(list))
    BY DEF Document
  <2>4. IsFiniteSet(o.entries)
    BY <2>2, ListIsFinite
  <2> HIDE DEF o
  <2>3. Cardinality(o.entries \ {e}) = Cardinality(o.entries) - 1 /\ Cardinality(o.entries) \in Nat
    BY <2>4, FS_RemoveElement, FS_CardinalityType
  <2> QED
    BY <2>1, <2>2, <2>3
<1> QED
  BY <1>1, <1>2, <1>3

----------------------------------------------------------------------------
(* The steps.                                                              *)

LEMMA SdnInitIInv == SdnInit => SdnIInv
BY PolicyAssumption DEF SdnInit, SdnIInv, SdnTypes, Latest, Publications

LEMMA PublishKeeps == ASSUME SdnIInv, Publish PROVE SdnIInv'
<1>1. PICK list \in Lists, date \in {now + s : s \in DateShifts} :
          published' = Append(published, [list |-> list, date |-> date, at |-> now])
  BY DEF Publish
<1>2. Latest < MaxPublications /\ UNCHANGED <<now, lead, active, quarantine, sample>>
  BY DEF Publish
<1>3. SdnTypes /\ now \in Nat /\ Latest \in Nat /\ lead \in Nat /\ MaxLag \in Nat /\ MaxStaleness \in Nat
  BY SdnNumbers DEF SdnIInv
<1> DEFINE p == [list |-> list, date |-> date, at |-> now]
<1>4. p \in Publications /\ p.at = now
  BY <1>3, PolicyAssumption DEF Publications
<1> HIDE DEF p
<1>5. /\ published' \in Seq(Publications) /\ Latest' = Latest + 1
      /\ \A k \in 1 .. Latest : published'[k] = published[k]
      /\ published'[Latest + 1].at = now
  BY <1>1, <1>3, <1>4 DEF p, SdnTypes, Latest
<1>6. SdnTypes'
  <2>1. Latest' <= MaxPublications /\ quarantine' \subseteq 1 .. Latest'
    BY <1>2, <1>3, <1>5, PolicyAssumption DEF SdnTypes
  <2>2. \A k \in 1 .. Latest' : published'[k].at <= now'
    BY <1>2, <1>3, <1>5 DEF SdnTypes
  <2> QED
    BY <1>2, <1>3, <1>5, <2>1, <2>2 DEF SdnTypes
<1>7. ASSUME active # None PROVE RowOK(active)'
  <2>1. RowOK(active) /\ active' = active
    BY <1>2, <1>7 DEF SdnIInv
  <2>2. active.pub \in 1 .. Latest' /\ published'[active.pub] = published[active.pub]
    BY <1>3, <1>5, <2>1 DEF RowOK
  <2>3. active.pub < Latest' => active.revalidated - published'[active.pub + 1].at <= lead + MaxLag
    <3>1. CASE active.pub = Latest
      BY <1>3, <1>5, <2>1, <3>1 DEF RowOK
    <3>2. CASE active.pub < Latest
      <4>1. active.pub + 1 \in 1 .. Latest
        BY <1>3, <2>1, <3>2 DEF RowOK
      <4>2. published'[active.pub + 1] = published[active.pub + 1]
        BY <1>5, <4>1
      <4> QED
        BY <2>1, <3>2, <4>2 DEF RowOK
    <3> QED
      BY <1>3, <2>1, <3>1, <3>2 DEF RowOK
  <2> QED
    BY <1>2, <2>1, <2>2, <2>3 DEF RowOK, DocumentOf
<1>8. ASSUME sample # None PROVE SampleOK(sample)'
  <2>1. SampleOK(sample) /\ sample' = sample
    BY <1>2, <1>8 DEF SdnIInv
  <2>2. sample.pub \in 1 .. Latest' /\ published'[sample.pub] = published[sample.pub]
    BY <1>3, <1>5, <2>1 DEF SampleOK
  <2>3. sample.pub < Latest =>
            sample.pub + 1 \in 1 .. Latest /\ published'[sample.pub + 1] = published[sample.pub + 1]
    BY <1>3, <1>5, <2>1 DEF SampleOK
  <2>4. sample.pub = Latest => sample.at - published'[sample.pub + 1].at <= 0
    BY <1>3, <1>5, <2>1 DEF SampleOK
  <2> QED
    BY <1>2, <1>3, <1>5, <2>1, <2>2, <2>3, <2>4 DEF SampleOK
<1> QED
  BY <1>2, <1>6, <1>7, <1>8 DEF SdnIInv

\* What the refresh job may do to the active snapshot, with the document of a
\* publication that is offered.
DidRefresh(k, official) ==
    \/ /\ active # None /\ active.doc = official
       /\ active' = [active EXCEPT !.revalidated = now + lead, !.pub = k] /\ quarantine' = quarantine
    \/ quarantine' = quarantine \union {k} /\ active' = active
    \/ /\ active' = Row(k, official, now + lead) /\ quarantine' = quarantine \ {k}
       /\ ~RollsBack(official) /\ (Shrunk(official) => k \in quarantine)

LEMMA OfferedProps ==
    ASSUME SdnIInv, NEW k \in Offered
    PROVE  /\ k \in 1 .. Latest /\ k \in Nat /\ published[k] \in Publications
           /\ k < Latest => now - published[k + 1].at <= MaxLag /\ published[k + 1].at \in Nat
<1>1. k \in 1 .. Latest /\ Latest \in Nat /\ k \in Nat
  BY SdnNumbers DEF SdnIInv, Offered
<1>2. published[k] \in Publications
  BY <1>1, SdnNumbers DEF SdnIInv
<1>3. ASSUME k < Latest PROVE published[k + 1].at \in Nat
  <2>1. k + 1 \in 1 .. Latest
    BY <1>1, <1>3
  <2> QED
    BY <2>1, SdnNumbers DEF SdnIInv, Publications
<1> QED
  BY <1>1, <1>2, <1>3 DEF Offered

LEMMA RefreshProps ==
    ASSUME SdnIInv, Refresh, active' # active \/ quarantine' # quarantine
    PROVE  \E k \in Offered : DidRefresh(k, DocumentOf(k))
<1>0. PICK k \in Offered, approved \in BOOLEAN : \E d \in Arrivals(DocumentOf(k)) :
          /\ approved => k \in quarantine /\ d = DocumentOf(k)
          /\ Receive(k, d, approved)
  BY DEF Refresh
<1> DEFINE official == Document(published[k].list, published[k].date)
<1>1. k \in 1 .. Latest /\ published[k].list \in Lists
  BY OfferedProps DEF Publications
<1>2. PICK d \in Arrivals(official) :
          /\ approved => k \in quarantine /\ d = official
          /\ IF active # None /\ active.doc = d
             THEN active' = [active EXCEPT !.revalidated = now + lead, !.pub = k] /\ UNCHANGED quarantine
             ELSE IF Rejected(d, now + lead) THEN UNCHANGED <<active, quarantine>>
             ELSE IF Shrunk(d) /\ ~approved
             THEN quarantine' = quarantine \union {k} /\ UNCHANGED active
             ELSE active' = Row(k, d, now + lead) /\ quarantine' = quarantine \ {k}
  BY <1>0 DEF Receive, DocumentOf
<1> SUFFICES DidRefresh(k, official)
  BY DEF DocumentOf
<1>3. CASE active # None /\ active.doc = d
  <2>1. d = Document(published[active.pub].list, published[active.pub].date)
    BY <1>3 DEF SdnIInv, RowOK, DocumentOf
  <2>2. d.closed = TRUE /\ d.stray = FALSE /\ d.stated = Cardinality(d.entries)
    BY <2>1 DEF Document
  <2>3. d = official
    BY <1>1, <2>2, WholeIsOfficial
  <2> QED
    BY <1>2, <1>3, <2>3 DEF DidRefresh
<1>4. CASE ~(active # None /\ active.doc = d) /\ ~Rejected(d, now + lead)
  <2>1. d = official
    <3>1. d.closed /\ ~d.stray /\ d.stated = Cardinality(d.entries)
      BY <1>4 DEF Rejected, Parses
    <3>2. d.closed \in BOOLEAN /\ d.stray \in BOOLEAN
      <4>1. official.closed = TRUE /\ official.stray = FALSE /\ {"closed", "stray"} \subseteq DOMAIN official
        BY DEF Document
      <4> HIDE DEF official
      <4> QED
        BY <4>1 DEF Arrivals
    <3> QED
      BY <1>1, <3>1, <3>2, WholeIsOfficial
  <2>2. ~RollsBack(official)
    BY <1>4, <2>1 DEF Rejected
  <2> QED
    BY <1>2, <1>4, <2>1, <2>2 DEF DidRefresh
<1> QED
  BY <1>2, <1>3, <1>4

LEMMA RefreshKeeps == ASSUME SdnIInv, Refresh PROVE SdnIInv'
<1>1. /\ SdnTypes /\ now \in Nat /\ lead \in Nat /\ Latest \in Nat /\ MaxLag \in Nat
      /\ UNCHANGED <<now, published, lead, sample>> /\ Latest' = Latest
  BY SdnNumbers DEF SdnIInv, Refresh, Latest
<1>2. sample' # None => SampleOK(sample)'
  BY <1>1 DEF SdnIInv, SampleOK
<1>3. ASSUME quarantine' \subseteq 1 .. Latest PROVE SdnTypes'
  BY <1>1, <1>3 DEF SdnTypes
<1>4. CASE active' = active /\ quarantine' \subseteq 1 .. Latest
  BY <1>1, <1>2, <1>3, <1>4 DEF SdnIInv, RowOK, DocumentOf
<1>5. ASSUME NEW k \in Offered, active # None, active.doc = DocumentOf(k),
             active' = [active EXCEPT !.revalidated = now + lead, !.pub = k], quarantine' = quarantine
      PROVE  SdnIInv'
  <2>1. RowOK(active)
    BY <1>5 DEF SdnIInv
  <2>2. /\ active' = [pub |-> k, doc |-> active.doc, retrieved |-> active.retrieved,
                      revalidated |-> now + lead, rows |-> active.rows, count |-> active.count,
                      unique |-> active.unique]
    BY <1>5, <2>1 DEF RowOK
  <2>3. /\ active'.pub = k /\ active'.doc = active.doc /\ active'.retrieved = active.retrieved
        /\ active'.revalidated = now + lead /\ active'.rows = active.rows /\ active'.count = active.count
    BY <2>2
  <2>4. active.retrieved <= now + lead
    BY <1>1, <2>1 DEF RowOK
  <2>5. RowOK(active)'
    <3>1. active'.pub \in 1 .. Latest'
      BY <1>1, <2>3, OfferedProps
    <3>2. active'.doc = DocumentOf(active.pub)'
      BY <1>1, <1>5, <2>3 DEF DocumentOf
    <3>6. active'.pub < Latest' => active'.revalidated - published'[active'.pub + 1].at <= lead' + MaxLag
      BY <1>1, <2>3, OfferedProps
    <3>3. /\ active'.rows \subseteq Evm(active'.doc.ids) /\ active'.count = Cardinality(Evm(active'.doc.ids))
          /\ active'.retrieved \in Int /\ active'.retrieved <= active'.revalidated
      BY <2>1, <2>3, <2>4 DEF RowOK
    <3>4. active'.revalidated \in Int /\ active'.revalidated <= now' + lead'
      BY <1>1, <2>3
    <3>5. active' = [pub |-> active'.pub, doc |-> active'.doc, retrieved |-> active'.retrieved,
                     revalidated |-> active'.revalidated, rows |-> active'.rows, count |-> active'.count,
                     unique |-> active'.unique]
      BY <2>2
    <3> QED
      BY <3>1, <3>2, <3>3, <3>4, <3>5, <3>6 DEF RowOK
  <2> QED
    BY <1>1, <1>2, <1>3, <1>5, <2>5 DEF SdnIInv, SdnTypes
<1>6. ASSUME NEW k \in Offered, active' = Row(k, DocumentOf(k), now + lead), quarantine' = quarantine \ {k}
      PROVE  SdnIInv'
  <2>1. /\ k \in 1 .. Latest
        /\ k < Latest => published[k + 1].at \in Nat /\ now + lead - published[k + 1].at <= lead + MaxLag
    BY <1>1, OfferedProps
  <2>2. RowOK(active)'
    <3> DEFINE d == DocumentOf(k)
    <3>1. /\ active'.pub = k /\ active'.doc = d /\ active'.retrieved = now + lead /\ active'.revalidated = now + lead
          /\ active'.rows = Evm(d.ids) /\ active'.count = Cardinality(Evm(d.ids))
          /\ active' = [pub |-> active'.pub, doc |-> active'.doc, retrieved |-> active'.retrieved,
                        revalidated |-> active'.revalidated, rows |-> active'.rows, count |-> active'.count,
                        unique |-> active'.unique]
      BY <1>6 DEF Row
    <3>2. active'.doc = DocumentOf(active.pub)'
      BY <1>1, <3>1 DEF DocumentOf
    <3> HIDE DEF d
    <3>3. active'.pub < Latest' => active'.revalidated - published'[active'.pub + 1].at <= lead' + MaxLag
      BY <1>1, <2>1, <3>1
    <3>4. /\ active'.pub \in 1 .. Latest' /\ active'.retrieved \in Int /\ active'.revalidated \in Int
          /\ active'.retrieved <= active'.revalidated /\ active'.revalidated <= now' + lead'
      BY <1>1, <2>1, <3>1
    <3>5. active'.rows \subseteq Evm(active'.doc.ids) /\ active'.count = Cardinality(Evm(active'.doc.ids))
      BY <3>1
    <3> QED
      BY <3>1, <3>2, <3>3, <3>4, <3>5 DEF RowOK
  <2> QED
    BY <1>1, <1>2, <1>3, <1>6, <2>2 DEF SdnIInv, SdnTypes
<1>7. CASE active' = active /\ quarantine' = quarantine
  BY <1>1, <1>4, <1>7 DEF SdnTypes
<1>8. CASE active' # active \/ quarantine' # quarantine
  <2>1. PICK k \in Offered : DidRefresh(k, DocumentOf(k))
    BY <1>8, RefreshProps
  <2>2. CASE quarantine' = quarantine \union {k} /\ active' = active
    BY <1>1, <1>4, <2>2, OfferedProps DEF SdnTypes
  <2> QED
    BY <1>5, <1>6, <2>1, <2>2 DEF DidRefresh
<1> QED
  BY <1>7, <1>8

\* The rows that are left are all of them if their number is right.
LEMMA UsableIsWhole ==
    ASSUME SdnIInv, Usable
    PROVE  active # None /\ RowOK(active) /\ active.rows = Evm(published[active.pub].list)
<1>1. active # None /\ RowOK(active) /\ Cardinality(active.rows) = active.count
  BY DEF Usable, RowsMatch, SdnIInv
<1>2. active.pub \in 1 .. Latest /\ active.doc.ids = published[active.pub].list
  BY <1>1 DEF RowOK, DocumentOf, Document
<1>3. published[active.pub].list \in Lists
  BY <1>2, SdnNumbers DEF SdnIInv, Publications
<1>4. IsFiniteSet(Evm(published[active.pub].list))
  BY <1>3, ListIsFinite
<1> QED
  BY <1>1, <1>2, <1>4, FS_Subset DEF RowOK

LEMMA ScreenKeeps == ASSUME SdnIInv, NEW address \in EvmAddresses, Screen(address) PROVE SdnIInv'
<1>1. /\ SdnTypes /\ now \in Nat /\ lead \in Nat /\ Latest \in Nat /\ MaxStaleness \in Nat /\ MaxLag \in Nat
      /\ UNCHANGED <<now, published, lead, active, quarantine>> /\ Latest' = Latest
  BY SdnNumbers DEF SdnIInv, Screen, Latest
<1>2. active # None /\ RowOK(active) /\ active.rows = Evm(published[active.pub].list)
  BY UsableIsWhole DEF Screen
<1>3. /\ sample'.address = address /\ (sample'.listed <=> Matches(active, address) # {})
      /\ sample'.matches = Matches(active, address) /\ sample'.pub = active.pub /\ sample'.at = now
  BY DEF Screen
<1>4. Matches(active, address) = {i \in published[active.pub].list : i.address = address}
  BY <1>2 DEF Matches, Evm
<1>5. now - active.revalidated <= MaxStaleness
  BY DEF Screen, Usable, Fresh
<1>6. published[active.pub + 1].at \in Nat \/ active.pub = Latest
  BY <1>1, <1>2, SdnNumbers DEF RowOK, Publications
<1>7. SampleOK(sample)'
  BY <1>1, <1>2, <1>3, <1>4, <1>5, <1>6 DEF SampleOK, RowOK
<1> QED
  BY <1>1, <1>2, <1>7 DEF SdnIInv, SdnTypes, RowOK, DocumentOf

LEMMA SdnNextIInv == SdnIInv /\ [SdnNext]_sdnVars => SdnIInv'
<1> SUFFICES ASSUME SdnIInv, [SdnNext]_sdnVars PROVE SdnIInv'
  OBVIOUS
<1>1. SdnTypes /\ now \in Nat /\ lead \in Nat /\ Latest \in Nat
  BY SdnNumbers DEF SdnIInv
<1>2. CASE Tick
  <2>1. now' = now + 1 /\ now < MaxTime /\ UNCHANGED <<published, lead, active, quarantine, sample>> /\ Latest' = Latest
    BY <1>2 DEF Tick, Latest
  <2>2. SdnTypes'
    <3>1. \A k \in 1 .. Latest : published[k].at \in Nat
      BY SdnNumbers DEF SdnIInv, Publications
    <3> QED
      BY <1>1, <2>1, <3>1, PolicyAssumption DEF SdnTypes
  <2>3. active # None => RowOK(active)'
    BY <1>1, <2>1 DEF SdnIInv, RowOK, DocumentOf
  <2>4. sample # None => SampleOK(sample)'
    BY <1>1, <2>1 DEF SdnIInv, SampleOK
  <2> QED
    BY <2>1, <2>2, <2>3, <2>4 DEF SdnIInv
<1>3. ASSUME active' = None \/ active' = active \/ (active # None /\ \E i : active' = [active EXCEPT !.rows = @ \ {i}]),
             UNCHANGED <<now, published, lead, quarantine, sample>>
      PROVE  SdnIInv'
  <2>1. Latest' = Latest
    BY <1>3 DEF Latest
  <2>2. SdnTypes' /\ (sample' # None => SampleOK(sample)')
    BY <1>1, <1>3, <2>1 DEF SdnIInv, SdnTypes, SampleOK
  <2>3. active' # None => RowOK(active)'
    <3>1. CASE active' = active
      BY <1>3, <2>1, <3>1 DEF SdnIInv, RowOK, DocumentOf
    <3>2. ASSUME active # None, NEW i, active' = [active EXCEPT !.rows = @ \ {i}] PROVE RowOK(active)'
      <4>1. RowOK(active)
        BY <3>2 DEF SdnIInv
      <4>2. active' = [pub |-> active.pub, doc |-> active.doc, retrieved |-> active.retrieved,
                       revalidated |-> active.revalidated, rows |-> active.rows \ {i}, count |-> active.count,
                       unique |-> active.unique]
        BY <3>2, <4>1 DEF RowOK
      <4> QED
        BY <1>3, <2>1, <4>1, <4>2 DEF RowOK, DocumentOf
    <3> QED
      BY <1>3, <3>1, <3>2
  <2> QED
    BY <2>2, <2>3 DEF SdnIInv
<1>4. CASE Stop
  BY <1>3, <1>4 DEF Stop
<1>5. CASE LoseRow
  BY <1>3, <1>5 DEF LoseRow
<1>6. CASE UNCHANGED sdnVars
  BY <1>3, <1>6 DEF sdnVars
<1> QED
  BY <1>2, <1>4, <1>5, <1>6, PublishKeeps, RefreshKeeps, ScreenKeeps DEF SdnNext

LEMMA SdnInvariance == SdnSpec => []SdnIInv
BY SdnInitIInv, SdnNextIInv, PTL DEF SdnSpec

\* Wallets are answered from OFAC's own list, lately its latest, and health says whether
\* they can be, for any lists, clocks ahead, losses and bounds (ofacSdnDigitalCurrency.ts,
\* walletSanctions.ts).
THEOREM AnswersHoldHolds == SdnSpec => []AnswersHold
<1>1. SdnIInv => AnswersHold
  <2> SUFFICES ASSUME SdnIInv PROVE AnswersHold
    OBVIOUS
  <2>1. SdnTypeOK
    <3>1. \A k \in 1 .. Latest : published[k].list \in Lists /\ published[k].at \in 0 .. now
      BY SdnNumbers DEF SdnIInv, SdnTypes, Publications
    <3> QED
      BY <3>1 DEF SdnIInv, SdnTypes, SdnTypeOK, RowOK, SampleOK
  <2>2. AnswerIsOfficial /\ AnswerIsRecent
    BY DEF SdnIInv, SampleOK, AnswerIsOfficial, AnswerIsRecent
  <2>3. StatusIsTrue
    BY DEF StatusIsTrue, Status, Usable
  <2> QED
    BY <2>1, <2>2, <2>3 DEF AnswersHold
<1> QED
  BY <1>1, SdnInvariance, PTL

\* The active list does not shrink or become an earlier day's unless an operator says so,
\* whatever publications arrive, in whatever order and however late (validateCandidate).
THEOREM NoSilentShrinkageHolds == SdnSpec => NoSilentShrinkage
<1>1. ASSUME SdnIInv, SdnNext, active # None, active' # None, active'.pub # active.pub
      PROVE  /\ active'.doc.date >= active.doc.date
             /\ \/ active'.pub \in quarantine
                \/ ~Shrinks(Cardinality(Evm(active.doc.ids)), Cardinality(Evm(active'.doc.ids)))
  <2>1. RowOK(active)
    BY <1>1 DEF SdnIInv
  <2>2. Refresh
    <3>1. CASE LoseRow
      <4>1. PICK i : active' = [active EXCEPT !.rows = @ \ {i}]
        BY <3>1 DEF LoseRow
      <4>2. active'.pub = active.pub
        BY <2>1, <4>1 DEF RowOK
      <4> QED
        BY <1>1, <4>2
    <3> QED
      BY <1>1, <3>1 DEF SdnNext, Publish, Tick, Stop, Screen
  <2>3. active.doc.date \in Int /\ Cardinality(Evm(active.doc.ids)) \in Nat
    <3>1. published[active.pub] \in Publications /\ active.doc.ids = published[active.pub].list
          /\ active.doc.date = published[active.pub].date
      BY <1>1, <2>1, SdnNumbers DEF SdnIInv, RowOK, DocumentOf, Document
    <3> QED
      BY <3>1, ListIsFinite, FS_CardinalityType DEF Publications
  <2>6. PICK k \in Offered : DidRefresh(k, DocumentOf(k))
    BY <1>1, <2>2, RefreshProps
  <2> DEFINE official == DocumentOf(k)
  <2>4. CASE active.doc = official /\ active' = [active EXCEPT !.revalidated = now + lead, !.pub = k]
    <3>1. active'.doc = active.doc
      BY <2>1, <2>4 DEF RowOK
    <3>2. ~Shrinks(Cardinality(Evm(active.doc.ids)), Cardinality(Evm(active.doc.ids)))
      BY <2>3, PolicyAssumption DEF Shrinks
    <3> QED
      BY <2>3, <3>1, <3>2
  <2>5. CASE /\ active' = Row(k, official, now + lead)
             /\ ~RollsBack(official) /\ (Shrunk(official) => k \in quarantine)
    <3>1. active'.doc = official /\ active'.pub = k
      BY <2>5 DEF Row
    <3>2. official.date \in Int
      <4>1. published[k] \in Publications
        BY <1>1, OfferedProps
      <4> QED
        BY <4>1 DEF Publications, DocumentOf, Document
    <3> HIDE DEF official
    <3>3. official.date >= active.doc.date
      BY <1>1, <2>3, <2>5, <3>2 DEF RollsBack
    <3>4. Shrinks(Cardinality(Evm(active.doc.ids)), Cardinality(Evm(official.ids))) => k \in quarantine
      BY <1>1, <2>5 DEF Shrunk
    <3> QED
      BY <3>1, <3>3, <3>4
  <2> QED
    BY <1>1, <2>4, <2>5, <2>6 DEF DidRefresh
<1>2. SdnIInv /\ [SdnNext]_sdnVars =>
        [active # None /\ active' # None /\ active'.pub # active.pub =>
            /\ active'.doc.date >= active.doc.date
            /\ \/ active'.pub \in quarantine
               \/ ~Shrinks(Cardinality(Evm(active.doc.ids)), Cardinality(Evm(active'.doc.ids)))]_sdnVars
  BY <1>1
<1> QED
  BY <1>2, SdnInvariance, PTL DEF SdnSpec, NoSilentShrinkage
=============================================================================
