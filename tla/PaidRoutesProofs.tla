-------------------------- MODULE PaidRoutesProofs --------------------------
(***************************************************************************)
(* Proofs about the paid routes, for every set of clients, every rate      *)
(* limit and any number of snapshots.                                      *)
(***************************************************************************)
EXTENDS PaidRoutes, TLAPS

\* What holds of each client; Meaningful and FromJudged lean on Established.
Sound(c) == Established(c) /\ FromJudged(c) /\ Meaningful(c)

\* The inductive invariant.
IInv == TypeOK /\ \A c \in Clients : Sound(c)

\* A route checks one thing, or /diligence's two.
LEMMA WantsProps ==
    ASSUME TypeOK, NEW c \in Clients
    PROVE  /\ Wants(c) \subseteq Checks
           /\ Wants(c) # {}
           /\ "name" \in Wants(c) => Wants(c) = {"name"}
<1>1. ask[c] \in Asks
  BY DEF TypeOK, ValidAsks
<1>2. Wants(c) \in {{"wallet"}, {"name"}, {"company"}, {"wallet", "company"}}
  BY <1>1 DEF Asks, Wants
<1>3. CASE Wants(c) = {"wallet"}
  BY <1>3 DEF Checks
<1>4. CASE Wants(c) = {"name"}
  BY <1>4 DEF Checks
<1>5. CASE Wants(c) = {"company"}
  BY <1>5 DEF Checks
<1>6. CASE Wants(c) = {"wallet", "company"}
  BY <1>6 DEF Checks
<1> QED
  BY <1>2, <1>3, <1>4, <1>5, <1>6

\* A step that is another client's, or the world's, leaves this client alone.
Same(d) ==
    /\ req'[d] = req[d] /\ reply'[d] = reply[d] /\ pinned'[d] = pinned[d]
    /\ judged'[d] = judged[d] /\ results'[d] = results[d] /\ screened'[d] = screened[d]
    /\ (d \in paid') <=> (d \in paid)
    /\ (d \in settled') <=> (d \in settled)

LEMMA SameSound ==
    ASSUME NEW d \in Clients, Sound(d), Same(d), ask' = ask, signing => signing'
    PROVE  Sound(d)'
<1>1. Established(d)'
  BY DEF Sound, Same, Established, Wants, Final, Firm
<1>2. FromJudged(d)'
  BY DEF Sound, Same, FromJudged
<1>3. Meaningful(d)'
  BY DEF Sound, Same, Meaningful, Wants, Firm
<1> QED
  BY <1>1, <1>2, <1>3 DEF Sound

\* It is enough to look at the client whose step it is.
LEMMA OneClient ==
    ASSUME IInv, TypeOK', NEW c \in Clients, ask' = ask, signing => signing',
           Sound(c)', \A d \in Clients : d # c => Same(d)
    PROVE  IInv'
<1>1. ASSUME NEW d \in Clients PROVE Sound(d)'
  BY SameSound DEF IInv
<1> QED
  BY <1>1 DEF IInv

LEMMA NoClient ==
    ASSUME IInv, TypeOK', ask' = ask, signing => signing', \A d \in Clients : Same(d)
    PROVE  IInv'
<1>1. ASSUME NEW d \in Clients PROVE Sound(d)'
  BY SameSound DEF IInv
<1> QED
  BY <1>1 DEF IInv

LEMMA InitIInv == Init => IInv
<1> SUFFICES ASSUME Init PROVE IInv
  OBVIOUS
<1>1. TypeOK
  BY RateAssumption, VersionAssumption
     DEF Init, TypeOK, IdleRequest, Requests, Replies, Outcomes, NoResults
<1>2. ASSUME NEW c \in Clients PROVE Sound(c)
  BY <1>2 DEF Init, Sound, Established, FromJudged, Meaningful, Final, IdleRequest, NoResults
<1> QED
  BY <1>1, <1>2 DEF IInv

----------------------------------------------------------------------------
(* Every action preserves the invariant.                                   *)

\* What an answer does, whatever it says.
LEMMA AnswerProps ==
    ASSUME TypeOK, NEW c \in Clients, NEW r \in Replies, Answer(c, r)
    PROVE  /\ req' \in [Clients -> Requests] /\ reply' \in [Clients -> Replies]
           /\ pinned' \in [Clients -> 0 .. LastVersion]
           /\ nameList' \in [Clients -> {"none", "inDate", "expired"}]
           /\ req'[c] = IdleRequest /\ reply'[c] = r /\ pinned'[c] = 0
           /\ \A d \in Clients : d # c =>
                req'[d] = req[d] /\ reply'[d] = reply[d] /\ pinned'[d] = pinned[d]
<1>1. IdleRequest \in Requests
  BY DEF IdleRequest, Requests
<1>2. 0 \in 0 .. LastVersion
  BY VersionAssumption
<1> QED
  BY <1>1, <1>2 DEF Answer, TypeOK

\* A request turned away before payment is as sound as one that never came.
LEMMA TurnedAway ==
    ASSUME IInv, NEW c \in Clients, NEW r \in {"503", "402"}, Answer(c, r), c \notin settled,
           bucket' \in [Clients -> 0 .. RateMax],
           UNCHANGED <<ask, results, screened, judged, paid, settled, worldVars>>
    PROVE  IInv'
<1>1. TypeOK /\ r \in Replies
  BY DEF IInv, Replies
<1>2. TypeOK'
  BY <1>1, AnswerProps DEF TypeOK, worldVars
<1>3. ASSUME NEW d \in Clients, d # c PROVE Same(d)
  BY <1>1, <1>3, AnswerProps DEF Same
<1>4. req'[c] = IdleRequest /\ reply'[c] = r /\ pinned'[c] = 0
  BY <1>1, AnswerProps
<1>5. Sound(c)'
  BY <1>4 DEF IInv, Sound, Established, FromJudged, Meaningful, Final, Wants, Firm, IdleRequest
<1> QED
  BY <1>2, <1>3, <1>5, OneClient DEF worldVars

LEMMA LimitedIInv == ASSUME IInv, NEW c \in Clients, Limited(c) PROVE IInv'
<1>1. TypeOK'
  BY DEF Limited, IInv, TypeOK, worldVars, Replies
<1>2. ASSUME NEW d \in Clients, d # c PROVE Same(d)
  BY <1>2 DEF Limited, Same, IInv, TypeOK
<1>3. reply'[c] = "429"
  BY DEF Limited, IInv, TypeOK
<1>4. Sound(c)'
  BY <1>3 DEF Limited, MaySend, IInv, Sound, Established, FromJudged, Meaningful, Final, Wants,
              Firm, worldVars
<1> QED
  BY <1>1, <1>2, <1>4, OneClient DEF Limited, worldVars

LEMMA AdmitIInv == ASSUME IInv, NEW c \in Clients, Admit(c) PROVE IInv'
<1> DEFINE admitted == [phase |-> "gates", ahead |-> Wants(c)]
<1>1. c \notin settled
  BY DEF Admit, MaySend, IInv, Sound, Established
<1>2. bucket' \in [Clients -> 0 .. RateMax]
  BY RateAssumption DEF Admit, IInv, TypeOK
<1>3. CASE Wants(c) = {"name"} /\ ~MaySign
  BY <1>1, <1>2, <1>3, TurnedAway DEF Admit, Refuse
<1>4. CASE ~(Wants(c) = {"name"} /\ ~MaySign)
  <2>1. /\ req' = [req EXCEPT ![c] = admitted] /\ reply' = [reply EXCEPT ![c] = "none"]
        /\ UNCHANGED <<pinned, nameList>>
        /\ UNCHANGED <<ask, results, screened, judged, paid, settled, worldVars>>
    BY <1>4 DEF Admit
  <2>2. Wants(c) \subseteq Checks /\ Wants(c) # {}
    BY WantsProps DEF IInv
  <2>3. admitted \in Requests
    BY <2>2 DEF Requests
  <2>4. TypeOK'
    BY <1>2, <2>1, <2>3 DEF IInv, TypeOK, worldVars, Replies
  <2>5. ASSUME NEW d \in Clients, d # c PROVE Same(d)
    BY <2>1, <2>5 DEF Same, IInv, TypeOK
  <2>6. req'[c] = admitted /\ reply'[c] = "none"
    BY <2>1 DEF IInv, TypeOK
  <2>7. Sound(c)'
    BY <1>1, <1>4, <2>1, <2>2, <2>6
       DEF MaySign, IInv, Sound, Established, FromJudged, Meaningful, Final, Wants, Firm, worldVars
  <2> QED
    BY <2>1, <2>4, <2>5, <2>7, OneClient DEF worldVars
<1> QED
  BY <1>3, <1>4

LEMMA WindowElapsesIInv == ASSUME IInv, NEW c \in Clients, WindowElapses(c) PROVE IInv'
<1>1. TypeOK'
  BY RateAssumption DEF WindowElapses, IInv, TypeOK, worldVars
<1>2. ASSUME NEW d \in Clients PROVE Same(d)
  BY DEF WindowElapses, Same
<1> QED
  BY <1>1, <1>2, NoClient DEF WindowElapses, worldVars

\* Where a request is after a gate it passes.
LEMMA PassGateProps ==
    ASSUME TypeOK, NEW c \in Clients, NEW k \in Checks, AtGate(c, k), PassGate(c, k)
    PROVE  /\ req' \in [Clients -> Requests]
           /\ req'[c].ahead = req[c].ahead \ {k}
           /\ req'[c].phase = IF req[c].ahead \ {k} = {} THEN "charge" ELSE "gates"
           /\ \A d \in Clients : d # c => req'[d] = req[d]
<1> DEFINE after == [phase |-> IF req[c].ahead \ {k} = {} THEN "charge" ELSE "gates",
                     ahead |-> req[c].ahead \ {k}]
<1>1. after \in Requests
  BY DEF TypeOK, Requests
<1>2. req' = [req EXCEPT ![c] = after]
  BY DEF PassGate
<1> QED
  BY <1>1, <1>2 DEF TypeOK

LEMMA SanctionsGateIInv == ASSUME IInv, NEW c \in Clients, SanctionsGate(c) PROVE IInv'
<1>1. TypeOK /\ "wallet" \in Checks /\ AtGate(c, "wallet") /\ c \notin settled
  BY DEF IInv, Checks, SanctionsGate, AtGate, Sound, Established, Final
<1>2. UNCHANGED <<ask, results, screened, paid, settled, bucket, worldVars>>
  BY DEF SanctionsGate
<1>3. CASE ~(store.usable /\ (LastGate(c, "wallet") => MaySign))
  BY <1>1, <1>2, <1>3, TurnedAway DEF SanctionsGate, Refuse, IInv, TypeOK
<1>4. CASE store.usable /\ (LastGate(c, "wallet") => MaySign)
  <2>1. /\ PassGate(c, "wallet")
        /\ pinned' = [pinned EXCEPT ![c] = store.version]
        /\ judged' = [judged EXCEPT ![c] = store.version]
        /\ UNCHANGED <<reply, nameList>>
    BY <1>4 DEF SanctionsGate, PinFor
  <2>2. store.version \in 0 .. LastVersion /\ store.version # 0
    BY VersionAssumption DEF IInv, TypeOK
  <2>3. /\ req' \in [Clients -> Requests]
        /\ req'[c].ahead = req[c].ahead \ {"wallet"}
        /\ req'[c].phase = IF req[c].ahead \ {"wallet"} = {} THEN "charge" ELSE "gates"
        /\ \A d \in Clients : d # c => req'[d] = req[d]
    BY <1>1, <2>1, PassGateProps
  <2>4. TypeOK'
    BY <1>2, <2>1, <2>2, <2>3 DEF IInv, TypeOK, worldVars
  <2>5. ASSUME NEW d \in Clients, d # c PROVE Same(d)
    BY <1>2, <2>1, <2>3, <2>5 DEF Same, IInv, TypeOK
  <2>6. pinned'[c] = store.version /\ judged'[c] = store.version
    BY <2>1 DEF IInv, TypeOK
  <2>7. req[c].ahead \ {"wallet"} = {} => signing
    BY <1>1, <1>4 DEF LastGate, MaySign, AtGate
  <2>8. Wants(c) # {"name"}
    BY <1>1 DEF AtGate, IInv, Sound, Established
  <2>9. Established(c)'
    BY <1>1, <1>2, <2>1, <2>2, <2>3, <2>6, <2>7, <2>8
       DEF AtGate, IInv, Sound, Established, Final, Wants, Firm, worldVars
  <2>10. FromJudged(c)' /\ Meaningful(c)'
    BY <1>1, <1>2, <2>1 DEF IInv, Sound, Established, FromJudged, Meaningful, Final
  <2> QED
    BY <1>2, <2>4, <2>5, <2>9, <2>10, OneClient DEF Sound, worldVars
<1> QED
  BY <1>3, <1>4

LEMMA HealthGateIInv == ASSUME IInv, NEW c \in Clients, HealthGate(c) PROVE IInv'
<1>1. TypeOK /\ "company" \in Checks /\ AtGate(c, "company") /\ c \notin settled
  BY DEF IInv, Checks, HealthGate, AtGate, Sound, Established, Final
<1>2. UNCHANGED <<ask, results, screened, judged, paid, settled, bucket, worldVars>>
  BY DEF HealthGate
<1>3. CASE ~(company.believed /\ MaySign)
  BY <1>1, <1>2, <1>3, TurnedAway DEF HealthGate, Refuse, IInv, TypeOK
<1>4. CASE company.believed /\ MaySign
  <2>1. PassGate(c, "company") /\ UNCHANGED <<reply, pinned, nameList>>
    BY <1>4 DEF HealthGate
  <2>2. /\ req' \in [Clients -> Requests]
        /\ req'[c].ahead = req[c].ahead \ {"company"}
        /\ req'[c].phase = IF req[c].ahead \ {"company"} = {} THEN "charge" ELSE "gates"
        /\ \A d \in Clients : d # c => req'[d] = req[d]
    BY <1>1, <2>1, PassGateProps
  <2>3. TypeOK'
    BY <1>2, <2>1, <2>2 DEF IInv, TypeOK, worldVars
  <2>4. ASSUME NEW d \in Clients, d # c PROVE Same(d)
    BY <1>2, <2>1, <2>2, <2>4 DEF Same
  <2>5. Sound(c)'
    BY <1>1, <1>2, <1>4, <2>1, <2>2
       DEF AtGate, MaySign, IInv, Sound, Established, FromJudged, Meaningful, Final, Wants, Firm,
           worldVars
  <2> QED
    BY <1>2, <2>3, <2>4, <2>5, OneClient DEF worldVars
<1> QED
  BY <1>3, <1>4

LEMMA NameGateIInv == ASSUME IInv, NEW c \in Clients, NameGate(c) PROVE IInv'
<1>1. TypeOK /\ "name" \in Checks /\ AtGate(c, "name") /\ c \notin settled
  BY DEF IInv, Checks, NameGate, AtGate, Sound, Established, Final
<1>2. UNCHANGED <<ask, results, screened, judged, paid, settled, bucket, worldVars>>
  BY DEF NameGate
<1>3. CASE ~source
  BY <1>1, <1>2, <1>3, TurnedAway DEF NameGate, Refuse, IInv, TypeOK
<1>4. CASE source
  <2>1. /\ PassGate(c, "name") /\ UNCHANGED <<reply, pinned>>
        /\ \E l \in {"inDate", "expired"} : nameList' = [nameList EXCEPT ![c] = l]
    BY <1>4 DEF NameGate
  <2>2. /\ req' \in [Clients -> Requests]
        /\ req'[c].ahead = req[c].ahead \ {"name"}
        /\ req'[c].phase = IF req[c].ahead \ {"name"} = {} THEN "charge" ELSE "gates"
        /\ \A d \in Clients : d # c => req'[d] = req[d]
    BY <1>1, <2>1, PassGateProps
  <2>3. TypeOK'
    <3>1. nameList' \in [Clients -> {"none", "inDate", "expired"}]
      BY <1>1, <2>1 DEF TypeOK
    <3>2. req' \in [Clients -> Requests] /\ UNCHANGED <<reply, pinned>>
      BY <2>1, <2>2
    <3> QED
      BY <1>1, <1>2, <3>1, <3>2 DEF TypeOK, worldVars
  <2>4. ASSUME NEW d \in Clients, d # c PROVE Same(d)
    BY <1>2, <2>1, <2>2, <2>4 DEF Same
  <2>5. Wants(c) = {"name"}
    BY <1>1, WantsProps DEF AtGate, IInv, Sound, Established
  <2>6. Sound(c)'
    BY <1>1, <1>2, <2>1, <2>2, <2>5
       DEF AtGate, IInv, Sound, Established, FromJudged, Meaningful, Final, Wants, Firm, worldVars
  <2> QED
    BY <1>2, <2>3, <2>4, <2>6, OneClient DEF worldVars
<1> QED
  BY <1>3, <1>4

LEMMA ChallengeIInv == ASSUME IInv, NEW c \in Clients, Challenge(c) PROVE IInv'
<1>1. c \notin settled
  BY DEF Challenge, IInv, Sound, Established
<1> QED
  BY <1>1, TurnedAway DEF Challenge, IInv, TypeOK

LEMMA PaymentFailedIInv == ASSUME IInv, NEW c \in Clients, PaymentFailed(c) PROVE IInv'
<1>1. c \notin settled
  BY DEF PaymentFailed, IInv, Sound, Established, Final
<1> QED
  BY <1>1, TurnedAway DEF PaymentFailed, IInv, TypeOK

LEMMA PayIInv == ASSUME IInv, NEW c \in Clients, Pay(c) PROVE IInv'
<1>1. TypeOK'
  BY RateAssumption DEF Pay, IInv, TypeOK, worldVars
<1>2. ASSUME NEW d \in Clients, d # c PROVE Same(d)
  BY <1>2 DEF Pay, Same
<1>3. Sound(c)'
  BY DEF Pay, IInv, Sound, Established, FromJudged, Meaningful, Final, Wants, Firm, worldVars
<1> QED
  BY <1>1, <1>2, <1>3, OneClient DEF Pay, worldVars

LEMMA AcceptPaymentIInv == ASSUME IInv, NEW c \in Clients, AcceptPayment(c) PROVE IInv'
<1>1. /\ req' = [req EXCEPT ![c].phase = "handler"]
      /\ results' = [results EXCEPT ![c] = PendingChecks(c)]
      /\ settled' = settled \union {c}
      /\ UNCHANGED <<ask, reply, pinned, nameList, screened, judged, paid, bucket, worldVars>>
  BY DEF AcceptPayment
<1>2. /\ req' \in [Clients -> Requests]
      /\ req'[c].phase = "handler" /\ req'[c].ahead = req[c].ahead
      /\ \A d \in Clients : d # c => req'[d] = req[d]
  <2> DEFINE handling == [req[c] EXCEPT !.phase = "handler"]
  <2>1. handling \in Requests /\ handling.phase = "handler" /\ handling.ahead = req[c].ahead
    BY DEF IInv, TypeOK, Requests
  <2> QED
    BY <1>1, <2>1 DEF IInv, TypeOK
<1>3. /\ PendingChecks(c) \in [Checks -> Outcomes]
      /\ \A k \in Wants(c) : PendingChecks(c)[k] = "pending"
      /\ \A k \in Checks \ Wants(c) : PendingChecks(c)[k] = "none"
  BY WantsProps DEF IInv, PendingChecks, Outcomes
<1>4. results'[c] = PendingChecks(c)
  BY <1>1 DEF IInv, TypeOK
<1>5. TypeOK'
  BY <1>1, <1>2, <1>3 DEF IInv, TypeOK, worldVars
<1>6. ASSUME NEW d \in Clients, d # c PROVE Same(d)
  BY <1>1, <1>2, <1>6 DEF Same, IInv, TypeOK
<1>7. Established(c)'
  <2>1. \A k \in Wants(c) : results'[c][k] = "pending"
    BY <1>3, <1>4
  <2>2. \A k \in Checks \ Wants(c) : results'[c][k] = "none"
    BY <1>3, <1>4
  <2>3. Firm(c) => results'[c]["wallet"] = "pending"
    BY <2>1 DEF Firm
  <2> QED
    BY <1>1, <1>2, <2>1, <2>2, <2>3
       DEF AcceptPayment, IInv, Sound, Established, Final, Wants, Firm, worldVars
<1>8. FromJudged(c)' /\ Meaningful(c)'
  BY <1>1 DEF AcceptPayment, IInv, Sound, Established, FromJudged, Meaningful, Final
<1> QED
  BY <1>1, <1>5, <1>6, <1>7, <1>8, OneClient DEF Sound, worldVars

\* What a lookup's outcome does to the results of its request.
LEMMA LookupProps ==
    ASSUME TypeOK, NEW c \in Clients, NEW k \in Checks, NEW o \in Outcomes,
           results' = [results EXCEPT ![c][k] = o]
    PROVE  /\ results' \in [Clients -> [Checks -> Outcomes]]
           /\ results'[c][k] = o
           /\ \A j \in Checks : j # k => results'[c][j] = results[c][j]
           /\ \A d \in Clients : d # c => results'[d] = results[d]
BY DEF TypeOK

LEMMA ScreenWalletIInv == ASSUME IInv, NEW c \in Clients, ScreenWallet(c) PROVE IInv'
<1>1. PICK resolves \in BOOLEAN :
        /\ ~ask[c].ens => resolves
        /\ results' = [results EXCEPT ![c]["wallet"] =
                         Outcome((IF resolves THEN SnapshotOf(c) ELSE 0) # 0)]
        /\ screened' = [screened EXCEPT ![c] = IF resolves THEN SnapshotOf(c) ELSE 0]
  BY DEF ScreenWallet
<1> DEFINE snapshot == IF resolves THEN SnapshotOf(c) ELSE 0
<1>2. /\ Running(c, "wallet") /\ "wallet" \in Checks /\ TypeOK
      /\ UNCHANGED <<ask, req, reply, pinned, nameList, judged, paid, settled, bucket, worldVars>>
  BY DEF ScreenWallet, Checks, IInv
<1>3. c \in settled /\ ~Final(c)
  BY <1>2 DEF Running, IInv, Sound, Established
<1>4. /\ "wallet" \in Wants(c) /\ pinned[c] # 0 /\ pinned[c] = judged[c]
  BY <1>2 DEF Running, IInv, Sound, Established
<1>5. snapshot \in 0 .. LastVersion
  BY VersionAssumption DEF SnapshotOf, IInv, TypeOK
<1>6. Outcome(snapshot # 0) \in Outcomes /\ Outcome(snapshot # 0) \in {"ok", "error"}
  BY DEF Outcome, Outcomes
<1>7. /\ results' \in [Clients -> [Checks -> Outcomes]]
      /\ results'[c]["wallet"] = Outcome(snapshot # 0)
      /\ \A j \in Checks : j # "wallet" => results'[c][j] = results[c][j]
      /\ \A d \in Clients : d # c => results'[d] = results[d]
  <2>1. results' = [results EXCEPT ![c]["wallet"] = Outcome(snapshot # 0)]
    BY <1>1
  <2> HIDE DEF snapshot
  <2> QED
    BY <1>2, <1>6, <2>1, LookupProps
<1>8. /\ screened' \in [Clients -> 0 .. LastVersion] /\ screened'[c] = snapshot
      /\ \A d \in Clients : d # c => screened'[d] = screened[d]
  BY <1>1, <1>5 DEF IInv, TypeOK
<1>9. TypeOK'
  <2>1. results' \in [Clients -> [Checks -> Outcomes]] /\ screened' \in [Clients -> 0 .. LastVersion]
    BY <1>7, <1>8
  <2> QED
    BY <1>2, <2>1 DEF TypeOK, worldVars
<1>10. ASSUME NEW d \in Clients, d # c PROVE Same(d)
  BY <1>2, <1>7, <1>8, <1>10 DEF Same
<1>11. (snapshot # 0 => snapshot = pinned[c]) /\ (Firm(c) => snapshot # 0)
  BY <1>1, <1>4 DEF SnapshotOf, Firm
<1>12. Established(c)'
  <2>1. \A k \in Wants(c) : results'[c][k] # "none"
    BY <1>2, <1>3, <1>7, WantsProps DEF Outcome, IInv, Sound, Established
  <2>2. \A k \in Checks \ Wants(c) : results'[c][k] = "none"
    BY <1>4, <1>7 DEF IInv, Sound, Established
  <2>3. Firm(c) => results'[c]["wallet"] # "error"
    BY <1>7, <1>11 DEF Outcome
  <2> QED
    BY <1>2, <1>3, <1>8, <2>1, <2>2, <2>3
       DEF IInv, Sound, Established, Final, Wants, Firm, worldVars
<1>13. FromJudged(c)'
  BY <1>2, <1>4, <1>8, <1>11 DEF FromJudged
<1>14. Meaningful(c)'
  BY <1>2, <1>3 DEF Meaningful, Final
<1> QED
  BY <1>2, <1>9, <1>10, <1>12, <1>13, <1>14, OneClient DEF Sound, worldVars

\* A lookup that is not the wallet's.
LEMMA OtherLookupIInv ==
    ASSUME IInv, NEW c \in Clients, NEW k \in {"name", "company"}, NEW o \in {"ok", "error"},
           Running(c, k), results' = [results EXCEPT ![c][k] = o],
           UNCHANGED <<ask, req, reply, pinned, nameList, screened, judged, paid, settled, bucket,
                       worldVars>>
    PROVE  IInv'
<1>1. TypeOK /\ k \in Checks /\ k # "wallet" /\ o \in Outcomes /\ o # "none"
  BY DEF IInv, Checks, Outcomes
<1>2. /\ results' \in [Clients -> [Checks -> Outcomes]]
      /\ results'[c][k] = o
      /\ \A j \in Checks : j # k => results'[c][j] = results[c][j]
      /\ \A d \in Clients : d # c => results'[d] = results[d]
  BY <1>1, LookupProps
<1>3. c \in settled /\ ~Final(c) /\ k \in Wants(c)
  BY <1>1 DEF Running, IInv, Sound, Established
<1>4. TypeOK'
  BY <1>1, <1>2 DEF TypeOK, worldVars
<1>5. ASSUME NEW d \in Clients, d # c PROVE Same(d)
  BY <1>2, <1>5 DEF Same
<1>6. Established(c)'
  <2>1. results'[c]["wallet"] = results[c]["wallet"]
    BY <1>1, <1>2 DEF Checks
  <2>2. \A j \in Wants(c) : results'[c][j] # "none"
    BY <1>1, <1>2, <1>3, WantsProps DEF IInv, Sound, Established
  <2>3. \A j \in Checks \ Wants(c) : results'[c][j] = "none"
    BY <1>2, <1>3 DEF IInv, Sound, Established
  <2> QED
    BY <2>1, <2>2, <2>3 DEF IInv, Sound, Established, Final, Wants, Firm, worldVars
<1>7. FromJudged(c)' /\ Meaningful(c)'
  BY <1>3 DEF IInv, Sound, FromJudged, Meaningful, Final
<1> QED
  BY <1>4, <1>5, <1>6, <1>7, OneClient DEF Sound, worldVars

LEMMA CheckCompanyIInv == ASSUME IInv, NEW c \in Clients, CheckCompany(c) PROVE IInv'
<1>1. PICK known \in BOOLEAN :
        results' = [results EXCEPT ![c]["company"] = Outcome(company.up /\ known)]
  BY DEF CheckCompany
<1>2. Outcome(company.up /\ known) \in {"ok", "error"}
  BY DEF Outcome
<1> QED
  BY <1>1, <1>2, OtherLookupIInv DEF CheckCompany

LEMMA ScreenNameIInv == ASSUME IInv, NEW c \in Clients, ScreenName(c) PROVE IInv'
<1>1. Outcome(nameList[c] = "inDate") \in {"ok", "error"}
  BY DEF Outcome
<1> QED
  BY <1>1, OtherLookupIInv DEF ScreenName

LEMMA RespondIInv == ASSUME IInv, NEW c \in Clients, Respond(c) PROVE IInv'
<1> DEFINE r == IF isTotalFailure(c) \/ ~signing THEN "error" ELSE "signed"
<1>1. /\ req[c].phase = "handler" /\ \A k \in Checks : results[c][k] # "pending"
      /\ Answer(c, r)
      /\ UNCHANGED <<ask, results, screened, judged, paid, settled, bucket, worldVars>>
  BY DEF Respond
<1>2. TypeOK /\ r \in Replies
  BY DEF IInv, Replies
<1>3. /\ req' \in [Clients -> Requests] /\ reply' \in [Clients -> Replies]
      /\ pinned' \in [Clients -> 0 .. LastVersion]
      /\ nameList' \in [Clients -> {"none", "inDate", "expired"}]
      /\ req'[c] = IdleRequest /\ reply'[c] = r /\ pinned'[c] = 0
      /\ \A d \in Clients : d # c =>
            req'[d] = req[d] /\ reply'[d] = reply[d] /\ pinned'[d] = pinned[d]
  <2> HIDE DEF r
  <2> QED
    BY <1>1, <1>2, AnswerProps
<1>4. TypeOK'
  BY <1>1, <1>2, <1>3 DEF TypeOK, worldVars
<1>5. ASSUME NEW d \in Clients, d # c PROVE Same(d)
  BY <1>1, <1>3, <1>5 DEF Same
<1>6. c \in settled
  BY <1>1 DEF IInv, Sound, Established
<1>7. r \in {"signed", "error"}
  OBVIOUS
<1>8. Established(c)'
  BY <1>1, <1>3, <1>6, <1>7
     DEF IdleRequest, IInv, Sound, Established, Final, Wants, Firm, worldVars
<1>9. FromJudged(c)'
  BY <1>1 DEF IInv, Sound, FromJudged
<1>10. Meaningful(c)'
  <2>1. \A k \in Wants(c) : results[c][k] \in {"ok", "error"}
    BY <1>1, <1>2, <1>6, WantsProps DEF IInv, TypeOK, Outcomes, Sound, Established
  <2>2. r = "signed" => \E k \in Wants(c) : results[c][k] = "ok"
    BY <2>1 DEF isTotalFailure
  <2>3. Firm(c) => results[c]["wallet"] = "ok"
    BY <1>6, <2>1 DEF Firm, IInv, Sound, Established
  <2> QED
    BY <1>1, <1>3, <1>6, <2>2, <2>3 DEF Meaningful, Firm, Wants
<1> QED
  BY <1>1, <1>4, <1>5, <1>8, <1>9, <1>10, OneClient DEF Sound, worldVars

----------------------------------------------------------------------------
(* What the world does touches no client.                                  *)

WorldStep == Activate \/ StoreFlips \/ CompanyFlips \/ CompanyProbed \/ SourceFlips \/ SigningStarts

LEMMA WorldIInv == ASSUME IInv, WorldStep PROVE IInv'
<1>1. ask' = ask /\ (signing => signing') /\ UNCHANGED <<paid, serverVars>>
  BY DEF WorldStep, Activate, StoreFlips, CompanyFlips, CompanyProbed, SourceFlips, SigningStarts
<1>2. /\ store' \in [version: 1 .. LastVersion, usable: BOOLEAN]
      /\ company' \in [up: BOOLEAN, believed: BOOLEAN]
      /\ source' \in BOOLEAN /\ signing' \in BOOLEAN
  <2>1. CASE Activate
    BY <2>1, VersionAssumption DEF Activate, IInv, TypeOK
  <2>2. CASE StoreFlips
    BY <2>2 DEF StoreFlips, IInv, TypeOK
  <2>3. CASE CompanyFlips
    BY <2>3 DEF CompanyFlips, IInv, TypeOK
  <2>4. CASE CompanyProbed
    BY <2>4 DEF CompanyProbed, IInv, TypeOK
  <2>5. CASE SourceFlips
    BY <2>5 DEF SourceFlips, IInv, TypeOK
  <2>6. CASE SigningStarts
    BY <2>6 DEF SigningStarts, IInv, TypeOK
  <2> QED
    BY <2>1, <2>2, <2>3, <2>4, <2>5, <2>6 DEF WorldStep
<1>3. TypeOK'
  BY <1>1, <1>2 DEF IInv, TypeOK, serverVars
<1>4. ASSUME NEW d \in Clients PROVE Same(d)
  BY <1>1 DEF Same, serverVars
<1> QED
  BY <1>1, <1>3, <1>4, NoClient

LEMMA ListExpiresIInv == ASSUME IInv, NEW c \in Clients, ListExpires(c) PROVE IInv'
<1>1. TypeOK'
  BY DEF ListExpires, IInv, TypeOK, worldVars
<1>2. ASSUME NEW d \in Clients PROVE Same(d)
  BY DEF ListExpires, Same
<1> QED
  BY <1>1, <1>2, NoClient DEF ListExpires, worldVars

LEMMA StutterIInv == ASSUME IInv, UNCHANGED vars PROVE IInv'
<1>1. TypeOK'
  BY DEF vars, serverVars, worldVars, IInv, TypeOK
<1>2. ASSUME NEW d \in Clients PROVE Same(d)
  BY DEF vars, serverVars, Same
<1> QED
  BY <1>1, <1>2, NoClient DEF vars, worldVars

LEMMA NextIInv == IInv /\ [Next]_vars => IInv'
BY LimitedIInv, AdmitIInv, WindowElapsesIInv, SanctionsGateIInv, HealthGateIInv, NameGateIInv,
   ChallengeIInv, PayIInv, AcceptPaymentIInv, PaymentFailedIInv, ScreenWalletIInv,
   CheckCompanyIInv, ScreenNameIInv, RespondIInv, WorldIInv, ListExpiresIInv, StutterIInv
   DEF Next, WorldStep

----------------------------------------------------------------------------
\* The invariant holds of every behaviour of the paid routes.
THEOREM Invariance == Spec => []IInv
BY InitIInv, NextIInv, PTL DEF Spec

(***************************************************************************)
(* Every state is well typed (the routes of server.ts).                    *)
(***************************************************************************)
THEOREM TypeCorrect == Spec => []TypeOK
<1>1. IInv => TypeOK
  BY DEF IInv
<1> QED
  BY <1>1, Invariance, PTL

(***************************************************************************)
(* Nothing is charged that the gates have not established (the middleware  *)
(* chains of server.ts).                                                   *)
(***************************************************************************)
THEOREM EstablishedHolds == Spec => []EstablishedBeforePayment
<1>1. IInv => EstablishedBeforePayment
  BY DEF IInv, Sound, EstablishedBeforePayment
<1> QED
  BY <1>1, Invariance, PTL

(***************************************************************************)
(* A wallet result comes from the snapshot the request's gate judged       *)
(* usable (runWithPinnedSnapshot).                                         *)
(***************************************************************************)
THEOREM ScreenedFromJudgedHolds == Spec => []ScreenedFromJudged
<1>1. IInv => ScreenedFromJudged
  BY DEF IInv, Sound, ScreenedFromJudged
<1> QED
  BY <1>1, Invariance, PTL

(***************************************************************************)
(* No signature over a response without a result (isTotalFailure).         *)
(***************************************************************************)
THEOREM SignedMeansSomethingHolds == Spec => []SignedMeansSomething
<1>1. IInv => SignedMeansSomething
  BY DEF IInv, Sound, SignedMeansSomething
<1> QED
  BY <1>1, Invariance, PTL

\* What is signed is a result of the request's own snapshot.
THEOREM ResultsAreMeantHolds == Spec => []ResultsAreMeant
BY ScreenedFromJudgedHolds, SignedMeansSomethingHolds, PTL DEF ResultsAreMeant


----------------------------------------------------------------------------
(* The routes implement the ledger.                                        *)

ledgerView == <<[c \in Clients |-> Stage(c)], {c \in Clients : Firm(c)}>>

\* Only a payment, its acceptance and the final answer show in the ledger.
LEMMA StageKept ==
    ASSUME NEW d \in Clients,
           (d \in paid') <=> (d \in paid), (d \in settled') <=> (d \in settled),
           d \in settled => reply'[d] = reply[d]
    PROVE  Stage(d)' = Stage(d)
BY DEF Stage

LEMMA Unseen ==
    ASSUME ask' = ask, \A d \in Clients : Stage(d)' = Stage(d)
    PROVE  ledgerView' = ledgerView
<1>1. [d \in Clients |-> Stage(d)]' = [d \in Clients |-> Stage(d)]
  OBVIOUS
<1>2. {d \in Clients : Firm(d)}' = {d \in Clients : Firm(d)}
  BY DEF Firm, Wants
<1> QED
  BY <1>1, <1>2 DEF ledgerView

LEMMA Moved ==
    ASSUME NEW c \in Clients, NEW from, NEW to, ask' = ask, Stage(c) = from, Stage(c)' = to,
           \A d \in Clients : d # c => Stage(d)' = Stage(d)
    PROVE  Ledger!Move(c, from, to)
<1>1. [d \in Clients |-> Stage(d)]' = [[d \in Clients |-> Stage(d)] EXCEPT ![c] = to]
  OBVIOUS
<1>2. {d \in Clients : Firm(d)}' = {d \in Clients : Firm(d)}
  BY DEF Firm, Wants
<1> QED
  BY <1>1, <1>2 DEF Ledger!Move

LEMMA InitLedger == Init => Ledger!Init
<1> SUFFICES ASSUME Init PROVE Ledger!Init
  OBVIOUS
<1>1. \A c \in Clients : Stage(c) = "open"
  BY DEF Init, Stage
<1> QED
  BY <1>1 DEF Ledger!Init

LEMMA PayLedger == ASSUME IInv, NEW c \in Clients, Pay(c) PROVE Ledger!Pay(c)
<1>1. c \notin paid /\ c \notin settled /\ paid' = paid \union {c}
      /\ ask' = ask /\ reply' = reply /\ settled' = settled
  BY DEF Pay, IInv, Sound, Established
<1>2. Stage(c) = "open" /\ Stage(c)' = "paid"
  BY <1>1 DEF Stage
<1>3. \A d \in Clients : d # c => Stage(d)' = Stage(d)
  BY <1>1, StageKept
<1> QED
  BY <1>1, <1>2, <1>3, Moved DEF Ledger!Pay

LEMMA AcceptLedger == ASSUME IInv, NEW c \in Clients, AcceptPayment(c) PROVE Ledger!Accept(c)
<1>1. c \in paid /\ c \notin settled /\ ~Final(c) /\ settled' = settled \union {c}
      /\ ask' = ask /\ reply' = reply /\ paid' = paid
  BY DEF AcceptPayment, IInv, Sound, Established
<1>2. Stage(c) = "paid" /\ Stage(c)' = "accepted"
  BY <1>1 DEF Stage, Final
<1>3. \A d \in Clients : d # c => Stage(d)' = Stage(d)
  BY <1>1, StageKept
<1> QED
  BY <1>1, <1>2, <1>3, Moved DEF Ledger!Accept

\* The only answer a firm purchase can get is a signed one.
LEMMA FirmIsServed ==
    ASSUME IInv, NEW c \in Clients, Respond(c), Firm(c)
    PROVE  signing /\ ~isTotalFailure(c)
<1>1. c \in settled /\ signing /\ "wallet" \in Wants(c)
  BY DEF Respond, Firm, IInv, Sound, Established
<1>2. results[c]["wallet"] # "error"
  BY <1>1 DEF IInv, Sound, Established
<1> QED
  BY <1>1, <1>2 DEF isTotalFailure

LEMMA RespondLedger ==
    ASSUME IInv, NEW c \in Clients, Respond(c) PROVE Ledger!Serve(c) \/ Ledger!Fail(c)
<1> DEFINE r == IF isTotalFailure(c) \/ ~signing THEN "error" ELSE "signed"
<1>1. /\ c \in settled /\ c \in paid /\ ~Final(c)
      /\ reply' = [reply EXCEPT ![c] = r] /\ reply \in [Clients -> Replies]
      /\ ask' = ask /\ paid' = paid /\ settled' = settled
  BY DEF Respond, Answer, IInv, TypeOK, Sound, Established
<1>2. \A d \in Clients : d # c => Stage(d)' = Stage(d)
  BY <1>1, StageKept
<1>3. Stage(c) = "accepted"
  BY <1>1 DEF Stage, Final
<1>4. CASE r = "signed"
  <2>1. Stage(c)' = "served"
    BY <1>1, <1>4 DEF Stage
  <2> QED
    BY <1>1, <1>2, <1>3, <2>1, Moved DEF Ledger!Serve
<1>5. CASE r = "error"
  <2>1. Stage(c)' = "failed"
    BY <1>1, <1>5 DEF Stage
  <2>2. c \notin {d \in Clients : Firm(d)}
    BY <1>5, FirmIsServed
  <2> QED
    BY <1>1, <1>2, <1>3, <2>1, <2>2, Moved DEF Ledger!Fail
<1> QED
  BY <1>4, <1>5

\* Everything else is invisible to the ledger: it turns away, or moves along,
\* or touches a request whose answer is not final.
LEMMA OthersUnseen ==
    ASSUME IInv, [Next]_vars, \A c \in Clients : ~(Pay(c) \/ AcceptPayment(c) \/ Respond(c))
    PROVE  ledgerView' = ledgerView
<1>1. ASSUME ask' = ask, paid' = paid, settled' = settled, NEW c \in Clients, c \notin settled,
             \A d \in Clients : d # c => reply'[d] = reply[d]
      PROVE  ledgerView' = ledgerView
  BY <1>1, StageKept, Unseen
<1>2. ASSUME ask' = ask, paid' = paid, settled' = settled, reply' = reply
      PROVE  ledgerView' = ledgerView
  BY <1>2, StageKept, Unseen
<1>3. ASSUME NEW c \in Clients,
             Limited(c) \/ Admit(c) \/ SanctionsGate(c) \/ HealthGate(c) \/ NameGate(c)
               \/ Challenge(c) \/ PaymentFailed(c)
      PROVE  ledgerView' = ledgerView
  <2>1. c \notin settled
    BY <1>3 DEF Limited, Admit, MaySend, SanctionsGate, HealthGate, NameGate, AtGate, Challenge,
                PaymentFailed, Final, IInv, Sound, Established
  <2>2. ask' = ask /\ paid' = paid /\ settled' = settled
    BY <1>3 DEF Limited, Admit, SanctionsGate, HealthGate, NameGate, Challenge, PaymentFailed
  <2>3. \A d \in Clients : d # c => reply'[d] = reply[d]
    BY <1>3 DEF Limited, Admit, SanctionsGate, HealthGate, NameGate, Challenge, PaymentFailed,
                Refuse, Answer, IInv, TypeOK
  <2> QED
    BY <1>1, <2>1, <2>2, <2>3
<1>4. ASSUME NEW c \in Clients,
             WindowElapses(c) \/ ScreenWallet(c) \/ CheckCompany(c) \/ ScreenName(c)
               \/ ListExpires(c)
      PROVE  ledgerView' = ledgerView
  BY <1>2, <1>4 DEF WindowElapses, ScreenWallet, CheckCompany, ScreenName, ListExpires
<1>5. CASE WorldStep \/ UNCHANGED vars
  BY <1>2, <1>5 DEF WorldStep, Activate, StoreFlips, CompanyFlips, CompanyProbed, SourceFlips,
                    SigningStarts, vars, serverVars
<1> QED
  BY <1>3, <1>4, <1>5 DEF Next, WorldStep

LEMMA NextLedger == IInv /\ [Next]_vars => [Ledger!Next]_ledgerView
<1> SUFFICES ASSUME IInv, [Next]_vars PROVE Ledger!Next \/ ledgerView' = ledgerView
  OBVIOUS
<1>1. ASSUME NEW c \in Clients, Pay(c) \/ AcceptPayment(c) \/ Respond(c) PROVE Ledger!Next
  BY <1>1, PayLedger, AcceptLedger, RespondLedger DEF Ledger!Next
<1> QED
  BY <1>1, OthersUnseen

(***************************************************************************)
(* The paid result contract: a payment is accepted at most once, an        *)
(* accepted one ends in one answer, and a purchase whose wallet was given  *)
(* as an address is never charged for an error (src/src/server.ts, the     *)
(* guards that run before mppx.charge, and the pinned snapshot).           *)
(***************************************************************************)
THEOREM KeepsLedgerHolds == Spec => KeepsLedger
<1>1. [Ledger!Next]_ledgerView => [Ledger!Next]_Ledger!ledgerVars
  BY DEF ledgerView, Ledger!ledgerVars
<1> QED
  BY <1>1, InitLedger, NextLedger, Invariance, PTL DEF Spec, KeepsLedger, Ledger!Spec
=============================================================================
