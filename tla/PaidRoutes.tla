----------------------------- MODULE PaidRoutes -----------------------------
(***************************************************************************)
(* The paid routes of the HTTP server (src/src/server.ts): rate limit,     *)
(* gates, payment and handler of /screen, /verdict, /screen-name,          *)
(* /company, /us-company and /diligence, and of their /web twins, for      *)
(* concurrent clients.                                                     *)
(*                                                                         *)
(* A step runs from one await to the next.  The middleware awaits at the   *)
(* gates (a database read, a probe, a download), in mppx.charge and in the *)
(* handler's lookups; everything the environment does happens in between.  *)
(* /us-company is a company check whose registry is EDGAR, /verdict a      *)
(* wallet check (its exposure part never fails, see exposure.ts).          *)
(***************************************************************************)
EXTENDS Naturals, FiniteSets

CONSTANTS
    Clients,        \* each makes one purchase, with as many tries as it takes
    RateMax,        \* createRateLimiter's max
    LastVersion     \* snapshots that may be activated (a bound of the model)

ASSUME RateAssumption == RateMax \in Nat \ {0}
ASSUME VersionAssumption == LastVersion \in Nat \ {0}

VARIABLES
    ask,        \* what each client asks for
    req,        \* each client's request: where it is, and the gates ahead of it
    reply,      \* the last response to each client
    pinned,     \* the snapshot in each request's AsyncLocalStorage, 0 for none
    nameList,   \* the dataset in each request's context: c.get('ofacNameDataset')
    results,    \* the outcome of each check of each request
    screened,   \* the snapshot each wallet result was computed from, 0 for none
    judged,     \* the snapshot each request's gate judged usable (history)
    paid,       \* the clients that have paid on chain
    settled,    \* the clients whose payment the server has accepted
    bucket,     \* the rate limiter's count under the key of each client's next request
    store,      \* the active snapshot in the database
    company,    \* the company registry: up, and what the breaker last saw
    source,     \* whether loadSdnIndex has a list to return
    signing     \* attestationSigningReady()

serverVars == <<req, reply, pinned, nameList, results, screened, judged, settled, bucket>>
worldVars == <<store, company, source, signing>>
vars == <<ask, paid, serverVars, worldVars>>

Checks == {"wallet", "name", "company"}

(***************************************************************************)
(* What the routes ask for; only /diligence asks for two checks.  A wallet *)
(* may be given as an ENS name, which is resolved after payment.           *)
(***************************************************************************)
Asks == [wants: {{"wallet"}, {"name"}, {"company"}, {"wallet", "company"}}, ens: BOOLEAN]
ValidAsks == {a \in Asks : a.ens => "wallet" \in a.wants}

Requests == [phase: {"idle", "gates", "charge", "handler"}, ahead: SUBSET Checks]
IdleRequest == [phase |-> "idle", ahead |-> {}]

Replies == {"none", "429", "503", "402", "signed", "error"}
Outcomes == {"none", "pending", "ok", "error"}
NoResults == [k \in Checks |-> "none"]

Wants(c) == ask[c].wants
Final(c) == reply[c] \in {"signed", "error"}

\* A wallet given as an address needs nothing but the pinned snapshot.
Firm(c) == "wallet" \in Wants(c) /\ ~ask[c].ens

----------------------------------------------------------------------------
Init ==
    /\ ask \in [Clients -> ValidAsks]
    /\ req = [c \in Clients |-> IdleRequest]
    /\ reply = [c \in Clients |-> "none"]
    /\ pinned = [c \in Clients |-> 0]
    /\ nameList = [c \in Clients |-> "none"]
    /\ results = [c \in Clients |-> NoResults]
    /\ screened = [c \in Clients |-> 0]
    /\ judged = [c \in Clients |-> 0]
    /\ paid = {}
    /\ settled = {}
    /\ bucket = [c \in Clients |-> 0]
    /\ store \in [version: {1}, usable: BOOLEAN]
    /\ company \in [up: BOOLEAN, believed: BOOLEAN]
    /\ source \in BOOLEAN
    /\ signing \in BOOLEAN

----------------------------------------------------------------------------
(* Responses.  Leaving the middleware chain ends the pinned context.       *)

Answer(c, r) ==
    /\ req' = [req EXCEPT ![c] = IdleRequest]
    /\ reply' = [reply EXCEPT ![c] = r]
    /\ pinned' = [pinned EXCEPT ![c] = 0]
    /\ nameList' = [nameList EXCEPT ![c] = "none"]

Refuse(c) == Answer(c, "503")

\* Mutant: the readiness check is missing from the chain.
MaySign_unchecked == TRUE

\* requireSigningReadiness.
MaySign == signing

\* The rest of the gates, or else requireSigningReadiness and mppx.charge.
PassGate(c, k) ==
    LET ahead == req[c].ahead \ {k}
    IN  req' = [req EXCEPT ![c] = [phase |-> IF ahead = {} THEN "charge" ELSE "gates",
                                   ahead |-> ahead]]

LastGate(c, k) == req[c].ahead = {k}

----------------------------------------------------------------------------
(* Arrival: rateLimit.  A client's requests are counted under its IP       *)
(* address until it pays, and under its payment credential from then on    *)
(* (callerKeyFromHeaders): Pay moves on to an empty bucket.                *)

MaySend(c) == req[c].phase = "idle" /\ ~Final(c) /\ (reply[c] = "402" => c \in paid)

Limited(c) ==
    /\ MaySend(c)
    /\ bucket[c] = RateMax
    /\ reply' = [reply EXCEPT ![c] = "429"]
    /\ UNCHANGED <<ask, req, pinned, nameList, results, screened, judged, paid, settled, bucket,
                   worldVars>>

\* /screen-name checks signing before its dataset gate, the others after theirs.
Admit(c) ==
    /\ MaySend(c)
    /\ bucket[c] < RateMax
    /\ bucket' = [bucket EXCEPT ![c] = @ + 1]
    /\ IF Wants(c) = {"name"} /\ ~MaySign
       THEN Refuse(c)
       ELSE /\ req' = [req EXCEPT ![c] = [phase |-> "gates", ahead |-> Wants(c)]]
            /\ reply' = [reply EXCEPT ![c] = "none"]
            /\ UNCHANGED <<pinned, nameList>>
    /\ UNCHANGED <<ask, results, screened, judged, paid, settled, worldVars>>

\* Mutant: a request over the limit keeps its window open.
WindowElapses_sliding(c) ==
    /\ bucket[c] \in 1 .. RateMax - 1
    /\ bucket' = [bucket EXCEPT ![c] = 0]
    /\ UNCHANGED <<ask, req, reply, pinned, nameList, results, screened, judged, paid, settled,
                   worldVars>>

\* The window of the client's bucket is over.
WindowElapses(c) ==
    /\ bucket[c] > 0
    /\ bucket' = [bucket EXCEPT ![c] = 0]
    /\ UNCHANGED <<ask, req, reply, pinned, nameList, results, screened, judged, paid, settled,
                   worldVars>>

----------------------------------------------------------------------------
(* The gates.  diligenceHealthGate reads the snapshot before the breaker.  *)

AtGate(c, k) == req[c].phase = "gates" /\ k \in req[c].ahead

\* Mutant: the snapshot is pinned in a variable of the module.
PinFor_shared(c, version) == [d \in Clients |-> version]

\* runWithPinnedSnapshot: AsyncLocalStorage keeps one per request.
PinFor(c, version) == [pinned EXCEPT ![c] = version]

\* sanctionsSnapshotGate, and the first half of diligenceHealthGate.
SanctionsGate(c) ==
    /\ AtGate(c, "wallet")
    /\ IF store.usable /\ (LastGate(c, "wallet") => MaySign)
       THEN /\ PassGate(c, "wallet")
            /\ pinned' = PinFor(c, store.version)
            /\ judged' = [judged EXCEPT ![c] = store.version]
            /\ UNCHANGED <<reply, nameList>>
       ELSE Refuse(c) /\ UNCHANGED judged
    /\ UNCHANGED <<ask, results, screened, paid, settled, bucket, worldVars>>

\* healthGate, and the second half of diligenceHealthGate.
HealthGate(c) ==
    /\ AtGate(c, "company") /\ "wallet" \notin req[c].ahead
    /\ IF company.believed /\ MaySign
       THEN PassGate(c, "company") /\ UNCHANGED <<reply, pinned, nameList>>
       ELSE Refuse(c)
    /\ UNCHANGED <<ask, results, screened, judged, paid, settled, bucket, worldVars>>

\* ofacNameDatasetGate: a list whose download was waited for may be past its
\* staleness bound when loadSdnIndex returns it (NameDataset, ServedInDate).
NameGate(c) ==
    /\ AtGate(c, "name")
    /\ IF source
       THEN /\ PassGate(c, "name")
            /\ \E l \in {"inDate", "expired"} : nameList' = [nameList EXCEPT ![c] = l]
            /\ UNCHANGED <<reply, pinned>>
       ELSE Refuse(c)
    /\ UNCHANGED <<ask, results, screened, judged, paid, settled, bucket, worldVars>>

----------------------------------------------------------------------------
(* Payment: mppx.charge.  The challenge is answered by an on-chain payment *)
(* that cannot be taken back; the retry carries its proof through the      *)
(* whole chain again.  The verification is the library's.                  *)

Challenge(c) ==
    /\ req[c].phase = "charge" /\ c \notin paid
    /\ Answer(c, "402")
    /\ UNCHANGED <<ask, results, screened, judged, paid, settled, bucket, worldVars>>

Pay(c) ==
    /\ req[c].phase = "idle" /\ reply[c] = "402" /\ c \notin paid
    /\ paid' = paid \union {c}
    /\ bucket' = [bucket EXCEPT ![c] = 0]
    /\ UNCHANGED <<ask, req, reply, pinned, nameList, results, screened, judged, settled, worldVars>>

\* Mutant: what was not asked for gets an outcome.
PendingChecks_skipped(c) == [k \in Checks |-> IF k \in Wants(c) THEN "pending" ELSE "skipped"]

PendingChecks(c) == [k \in Checks |-> IF k \in Wants(c) THEN "pending" ELSE "none"]

AcceptPayment(c) ==
    /\ req[c].phase = "charge" /\ c \in paid
    /\ settled' = settled \union {c}
    /\ req' = [req EXCEPT ![c].phase = "handler"]
    /\ results' = [results EXCEPT ![c] = PendingChecks(c)]
    /\ UNCHANGED <<ask, reply, pinned, nameList, screened, judged, paid, bucket, worldVars>>

\* The library cannot verify the payment now: the client is challenged again.
PaymentFailed(c) ==
    /\ req[c].phase = "charge" /\ c \in paid
    /\ Answer(c, "402")
    /\ UNCHANGED <<ask, results, screened, judged, paid, settled, bucket, worldVars>>

----------------------------------------------------------------------------
(* The handlers.                                                           *)

Running(c, k) == req[c].phase = "handler" /\ results[c][k] = "pending"
Outcome(ok) == IF ok THEN "ok" ELSE "error"

\* Mutant: the store is read again after payment.
SnapshotOf_reload(c) == IF store.usable THEN store.version ELSE 0

\* screenAddress: `pinnedSnapshot() ?? await loadUsableSnapshot()`.
SnapshotOf(c) ==
    IF pinned[c] # 0 THEN pinned[c] ELSE IF store.usable THEN store.version ELSE 0

\* resolveToAddress and screenAddress.
ScreenWallet(c) ==
    /\ Running(c, "wallet")
    /\ \E resolves \in BOOLEAN :
        /\ ~ask[c].ens => resolves
        /\ LET snapshot == IF resolves THEN SnapshotOf(c) ELSE 0 IN
            /\ results' = [results EXCEPT ![c]["wallet"] = Outcome(snapshot # 0)]
            /\ screened' = [screened EXCEPT ![c] = snapshot]
    /\ UNCHANGED <<ask, req, reply, pinned, nameList, judged, paid, settled, bucket, worldVars>>

\* checkCompany: the registry may be down, or not know the company.
CheckCompany(c) ==
    /\ Running(c, "company")
    /\ \E known \in BOOLEAN :
        results' = [results EXCEPT ![c]["company"] = Outcome(company.up /\ known)]
    /\ UNCHANGED <<ask, req, reply, pinned, nameList, screened, judged, paid, settled, bucket,
                   worldVars>>

\* screenName judges the age of the pinned list once more.
ScreenName(c) ==
    /\ Running(c, "name")
    /\ results' = [results EXCEPT ![c]["name"] = Outcome(nameList[c] = "inDate")]
    /\ UNCHANGED <<ask, req, reply, pinned, nameList, screened, judged, paid, settled, bucket,
                   worldVars>>

\* Mutant: the integrity guard is left out.
isTotalFailure_never(c) == FALSE

\* No check has a result (isTotalFailure, and the catch of every other handler).
isTotalFailure(c) == \A k \in Wants(c) : results[c][k] = "error"

\* The handler answers; attest throws when signing is not ready.
Respond(c) ==
    /\ req[c].phase = "handler"
    /\ \A k \in Checks : results[c][k] # "pending"
    /\ Answer(c, IF isTotalFailure(c) \/ ~signing THEN "error" ELSE "signed")
    /\ UNCHANGED <<ask, results, screened, judged, paid, settled, bucket, worldVars>>

----------------------------------------------------------------------------
(* The world.                                                              *)

\* The operator's job activates another snapshot.
Activate ==
    /\ store.version < LastVersion
    /\ store' = [version |-> store.version + 1, usable |-> TRUE]
    /\ UNCHANGED <<ask, paid, serverVars, company, source, signing>>

\* The snapshot goes stale or the database away; or it is revalidated or back.
StoreFlips ==
    /\ store' = [store EXCEPT !.usable = ~@]
    /\ UNCHANGED <<ask, paid, serverVars, company, source, signing>>

CompanyFlips ==
    /\ company' = [company EXCEPT !.up = ~@]
    /\ UNCHANGED <<ask, paid, serverVars, store, source, signing>>

\* The circuit breaker's probe (Breaker shows how far it may lag behind).
CompanyProbed ==
    /\ company.believed # company.up
    /\ company' = [company EXCEPT !.believed = company.up]
    /\ UNCHANGED <<ask, paid, serverVars, store, source, signing>>

SourceFlips ==
    /\ source' = ~source
    /\ UNCHANGED <<ask, paid, serverVars, store, company, signing>>

\* A request's list passes its staleness bound while the request is under way.
ListExpires(c) ==
    /\ nameList[c] = "inDate"
    /\ nameList' = [nameList EXCEPT ![c] = "expired"]
    /\ UNCHANGED <<ask, req, reply, pinned, results, screened, judged, paid, settled, bucket,
                   worldVars>>

\* The key's activation time is reached.
SigningStarts ==
    /\ ~signing
    /\ signing' = TRUE
    /\ UNCHANGED <<ask, paid, serverVars, store, company, source>>

----------------------------------------------------------------------------
Gate(c) == SanctionsGate(c) \/ HealthGate(c) \/ NameGate(c)
Lookup(c) == ScreenWallet(c) \/ CheckCompany(c) \/ ScreenName(c)

Next ==
    \/ \E c \in Clients : Limited(c)
    \/ \E c \in Clients : Admit(c)
    \/ \E c \in Clients : WindowElapses(c)
    \/ \E c \in Clients : SanctionsGate(c)
    \/ \E c \in Clients : HealthGate(c)
    \/ \E c \in Clients : NameGate(c)
    \/ \E c \in Clients : Challenge(c)
    \/ \E c \in Clients : Pay(c)
    \/ \E c \in Clients : AcceptPayment(c)
    \/ \E c \in Clients : PaymentFailed(c)
    \/ \E c \in Clients : ScreenWallet(c)
    \/ \E c \in Clients : CheckCompany(c)
    \/ \E c \in Clients : ScreenName(c)
    \/ \E c \in Clients : Respond(c)
    \/ Activate
    \/ StoreFlips
    \/ CompanyFlips
    \/ CompanyProbed
    \/ SourceFlips
    \/ \E c \in Clients : ListExpires(c)
    \/ SigningStarts

Spec == Init /\ [][Next]_vars

(***************************************************************************)
(* Every await ends, windows elapse, the breaker is probed, a client that  *)
(* has paid tries again, and the library does not refuse a good payment    *)
(* for ever.  Nobody has to pay, and nothing else of the world is assumed. *)
(***************************************************************************)
Fairness ==
    /\ \A c \in Clients :
        /\ WF_vars(c \in paid /\ Admit(c))
        /\ WF_vars(Gate(c)) /\ WF_vars(Challenge(c))
        /\ SF_vars(AcceptPayment(c))
        /\ WF_vars(AcceptPayment(c) \/ PaymentFailed(c))
        /\ WF_vars(Lookup(c)) /\ WF_vars(Respond(c))
        /\ WF_vars(WindowElapses(c))
    /\ WF_vars(CompanyProbed)

FairSpec == Spec /\ Fairness

----------------------------------------------------------------------------
TypeOK ==
    /\ ask \in [Clients -> ValidAsks]
    /\ req \in [Clients -> Requests]
    /\ reply \in [Clients -> Replies]
    /\ pinned \in [Clients -> 0 .. LastVersion]
    /\ nameList \in [Clients -> {"none", "inDate", "expired"}]
    /\ results \in [Clients -> [Checks -> Outcomes]]
    /\ screened \in [Clients -> 0 .. LastVersion]
    /\ judged \in [Clients -> 0 .. LastVersion]
    /\ paid \in SUBSET Clients /\ settled \in SUBSET Clients
    /\ bucket \in [Clients -> 0 .. RateMax]
    /\ store \in [version: 1 .. LastVersion, usable: BOOLEAN]
    /\ company \in [up: BOOLEAN, believed: BOOLEAN]
    /\ source \in BOOLEAN
    /\ signing \in BOOLEAN

(***************************************************************************)
(* Where a request is in the chain says what has been established for it:  *)
(* payment is reached only with signing ready and a wanted wallet's        *)
(* snapshot pinned, both hold until the handler is done, a payment is      *)
(* accepted only once and only by a request that goes on to answer, and    *)
(* the pinned snapshot is the judged one (requireSigningReadiness,         *)
(* sanctionsSnapshotGate, diligenceHealthGate).                            *)
(***************************************************************************)
Established(c) ==
    /\ req[c].ahead \subseteq Wants(c)
    /\ req[c].phase = "gates" => req[c].ahead # {}
    /\ req[c].phase # "gates" => req[c].ahead = {}
    /\ req[c].phase \in {"charge", "handler"} => signing
    /\ req[c].phase = "gates" /\ Wants(c) = {"name"} => signing
    /\ req[c].phase # "idle" /\ "wallet" \in Wants(c) \ req[c].ahead => pinned[c] # 0
    /\ pinned[c] # 0 => pinned[c] = judged[c]
    /\ c \in settled => c \in paid
    /\ c \in settled <=> req[c].phase = "handler" \/ Final(c)
    /\ Final(c) => req[c].phase = "idle"
    /\ screened[c] # 0 => c \in settled
    /\ c \in settled => \A k \in Wants(c) : results[c][k] # "none"
    /\ \A k \in Checks \ Wants(c) : results[c][k] = "none"
    /\ c \in settled /\ Firm(c) => results[c]["wallet"] # "error"

EstablishedBeforePayment == TypeOK /\ \A c \in Clients : Established(c)

(***************************************************************************)
(* A wallet result is computed from exactly the snapshot this request's    *)
(* own gate judged usable, whatever other requests pin and whatever is     *)
(* activated in the meantime (runWithPinnedSnapshot, screenAddress).       *)
(***************************************************************************)
FromJudged(c) == screened[c] # 0 => screened[c] = judged[c]
ScreenedFromJudged == \A c \in Clients : FromJudged(c)

(***************************************************************************)
(* A signed answer says something: some check has a result, a wallet given *)
(* as an address has one, and it was paid for (isTotalFailure, attest).    *)
(***************************************************************************)
Meaningful(c) ==
    reply[c] = "signed" =>
        /\ c \in settled
        /\ \E k \in Wants(c) : results[c][k] = "ok"
        /\ Firm(c) => results[c]["wallet"] = "ok"
SignedMeansSomething == \A c \in Clients : Meaningful(c)

\* What is signed is meant: a result, and one of this request's own snapshot (server.ts,
\* diligence.ts).
ResultsAreMeant == ScreenedFromJudged /\ SignedMeansSomething

(***************************************************************************)
(* The paid result contract: the routes implement the ledger, in which the *)
(* purchases that include a wallet given as an address are firm.           *)
(***************************************************************************)
Stage(c) ==
    IF c \notin paid THEN "open"
    ELSE IF c \notin settled THEN "paid"
    ELSE IF reply[c] = "signed" THEN "served"
    ELSE IF reply[c] = "error" THEN "failed"
    ELSE "accepted"

Ledger == INSTANCE PurchaseLedger WITH
    purchase <- [c \in Clients |-> Stage(c)],
    firm <- {c \in Clients : Firm(c)}

KeepsLedger == Ledger!Spec

(***************************************************************************)
(* Once everything the purchase depends on stays up, a client that has     *)
(* paid gets a final answer, however often it was limited or refused.      *)
(***************************************************************************)
AllUp == store.usable /\ company.up /\ source /\ signing
PaidIsAnswered == <>[]AllUp => \A c \in Clients : (c \in paid) ~> Final(c)

----------------------------------------------------------------------------
(* What the repository says and the code does not keep.                    *)

\* README.md: "the server returns `503` before requesting payment".
PaidNotRefused ==
    [][\A c \in Clients : c \in paid /\ reply[c] # "503" => reply'[c] # "503"]_vars
=============================================================================
