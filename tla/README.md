# OnchainDiligence in TLA+

TLA+ specifications of the OnchainDiligence service: a Node/Hono HTTP server (and an MCP server beside
it) that sells signed compliance checks (wallet sanctions screening, PASS / WARN / BLOCK verdicts, OFAC
name screening, UK and US company checks, combined diligence, anchoring) to clients that pay on chain per
request, and of the evidence package that carries such results to others, who verify them offline.

What makes the service hard is the order of things: a payment cannot be taken back, so everything a paid
answer needs must be established *before* the payment is asked for and must still hold *after* it, while
upstreams go down, lists age, snapshots are replaced, keys are rotated and many requests share one
process.  What makes the package hard is that everything it verifies comes from others: a verdict may
never say more than what was signed, by whom and when.

All paths below are relative to the repository root.

## Inventory

| Component | State it keeps | Operations | What is hard | What makes it correct | Modelled in |
|---|---|---|---|---|---|
| Circuit breaker, `src/health.ts` | one `Breaker` per upstream in a process-wide map | `getHealth` = `decideProbe`, `await probe`, `applyProbeResult` | calls overlap at the await; late and reordered results, each with the `now` of before its probe | an answer is never based on health older than the TTL or an outage older than the cool-down; no hammering; recovery is noticed | `Breaker` |
| OFAC name list cache, `src/ofac.ts` | `cache`, `lastRefreshFailure`, `inflight` | `loadSdnIndex`, `refresh`, `screenName` | one refresh shared by all callers, fallback judged before the wait, failure stamps of several waiters, implausibly short lists | no list past its bound by more than one download is served, no good list is lost to a bad download, failures are followed by a pause | `NameDataset` |
| OFAC list validation and name matching, `src/ofac.ts` | the index | `fetchText`, `rowsOf`, `validateOfacDataset`, `similarity`, `levenshtein`, `screenNameAgainstIndex` | bodies cut anywhere, pairs of two publications; weights, bonus, threshold and rounding that must agree | nothing but whole records of one pair is used; a contained name is always reported, the best first | `ListValidation`, `NameMatching`, `EditDistance` |
| Paid routes, `src/server.ts` (+ `diligence.ts`, `ens.ts`) | per request: middleware position, pinned snapshot, context | rate limit, gates, `requireSigningReadiness`, `mppx.charge`, handlers | everything happens again on the retry that carries the payment; awaits between check and use | pay only if a signed result can be produced; one pinned snapshot per request; no signature over errors alone | `PaidRoutes`, `PurchaseLedger` |
| Snapshot store, `src/walletSanctions.ts`, and SDN snapshots, `src/ofacSdnDigitalCurrency.ts` | the active snapshot (database), an `AsyncLocalStorage` pin per request | XML counts, candidate validation, `assessSnapshot`, `loadUsableSnapshot`, `screenAddress`, `sanctionsDataStatus` | staleness by two clocks, rollback, shrinkage, lost rows; activation between gate and use | what is answered is what a recent official publication says; the result is from the snapshot that was judged | `SdnSnapshot`; pins in `PaidRoutes`, `McpTools` |
| Verdict, `src/verdict.ts`, `src/exposure.ts` | a shared index and counters per evaluation | `evaluateVerdict`, `checkDirectExposure`, `screenCounterparties`, `buildVerdictData` | eight workers, swallowed failures, a cap of 25 | PASS only if everything found was screened and is clear | `Verdict` |
| Rate limiter, `src/rateLimit.ts` | a map of buckets | `check`, `sweep`, `callerKeyFromHeaders`, the middleware | keys, windows, a sweep driven by requests | the sweep is unobservable, the map stays small, a limited caller is let through again | `RateLimit`, `FixedWindow` |
| Attestation and its keys, `src/attestation.ts`, `attestationKeyHistory.ts` | signing key, key registry | `attest`, `attestationSigningReady`, registry validation, `verifyAttestationForAnchoring` | order of deployments; retirement and condemnation; two verifiers written apart | what was signed stays good until its own key is condemned; nothing but a condemnation before its activation makes the registry unusable | `KeyLifecycle`, `KeyTrust` |
| Anchoring, `src/anchor.ts` | the registry contract | `anchorSignature`, `isAnchored` | check, then write; an endpoint that answers late | answers are true of the chain, a payment is answered once | `Anchor` |
| MCP server, `src/mcp.ts` | none of its own | three tools over the same checks | charges and checks in another order than the HTTP routes | the paid result contract as far as it goes there | `McpTools` |
| Company registries, `src/secEdgar.ts`, `companiesHouse.ts` | the ticker list of six hours | `resolveCompanyQuery`, `checkUSCompany`, `checkCompany` | which of several names is meant | nothing is selected among several | `CompanyLookup` (EDGAR) |
| Evidence records, `packages/agent-evidence/src/records.ts`, `graph.ts` | content-addressed records in a bundle | record helpers, bundle assembly, `validateBundlePayload` | the rules are written twice; records built by hand or left out; cycles | what the helpers build is accepted, what is accepted hangs together | `EvidenceGraph`, `GraphWalk` |
| Bundle verifier, `dsse.ts`, `verifier.ts` | - | sealing, `verifyBundle` | partial verification, trust that changes, time | a verdict never claims more than was verified | `BundleVerifier`, `ArtifactProofs` |
| Trust, `trust.ts`, `registry.ts`, `attestationV2.ts` | key records | `TrustPolicy`, `evaluateKeyLifecycle`, `trustPolicyFromKeyRegistry` | boundaries of intervals, unknown activations | three-valued verdicts that agree across formats | `KeyTrust` |
| Payment claims and receipts, `paymentClaims.ts`, `receipts.ts` | - | issuing and verifying | one set of keys for several issuers and purposes | only its issuer speaks; a receipt is what was signed as one | `SignedArtifacts`, `ArtifactProofs` |
| Lock protocol adapter, `tclk.ts`, `technocore.ts` | the replayed contract | `verifyTclkTranscript` | messages of anyone, in any order | no status without the word of those it binds | `LockTranscript` |
| Internal and information routes; encodings; payment log, sandbox, OpenAPI; Python port; plugin | - | fixed answers, documents, schema checks | - | - | not modelled |

The parts meet like this: a request passes the limiter, then the gates.  The gates ask the breaker
(company routes), load the name list (`loadSdnIndex`) or the snapshot (`loadUsableSnapshot`, which is
pinned for the rest of the request), then readiness to sign; `mppx.charge` answers 402, or accepts the
payment and lets the handler run; the handler looks things up (a verdict runs its workers), and `attest`
signs.  Breakers, the name list and the buckets are shared by all requests of a process; pins are not.
A signed result may be anchored, and may become a record of an evidence bundle, which the package seals
and which others verify with the key registry the service publishes.

## Modules

| Module | Models | Checked by | Proofs |
|---|---|---|---|
| `Breaker` | `src/health.ts` | `MCBreaker` | `BreakerProofs` |
| `NameDataset` | `loadSdnIndex` and `refresh` of `src/ofac.ts` | `MCNameDataset` | `RegisterProofs` |
| `ListValidation` | `fetchText`, `rowsOf`, `validateOfacDataset` of `src/ofac.ts` | `MCNameDataset` | `RegisterProofs` |
| `EditDistance` | the loop of `levenshtein` | `MCRegisters` | `RegisterProofs` |
| `NameMatching` | `normalizeName`, `similarity`, `screenNameAgainstIndex` | `MCRegisters` | `RegisterProofs` |
| `PaidRoutes` | the paid routes with their gates, payment, handlers, pinning and readiness | `MCPaidRoutes` | `PaidRoutesProofs` |
| `PurchaseLedger` | abstract: what is owed to a client that pays; implemented by `PaidRoutes`, `Anchor` and `McpTools` | as their property `KeepsLedger` | `PaidRoutesProofs`, `PurchaseProofs` |
| `Verdict` | `src/verdict.ts`, `src/exposure.ts` | `MCVerdict` | `ScreeningProofs` |
| `RateLimit` | `src/rateLimit.ts` and its middleware | `MCRateLimit` | `RateLimitProofs` |
| `FixedWindow` | abstract: windows without a map; implemented by `RateLimit` | as its property `KeepsWindows` | `RateLimitProofs` |
| `KeyTrust` | key records, lifecycle, attestation verification, the interoperability registry | through `KeyLifecycle`, `ArtifactProofs` | `TrustProofs` |
| `KeyLifecycle` | deployments, the published registry, signing, verifiers | `MCKeyLifecycle` | `TrustProofs` |
| `Anchor` | POST `/anchor` with an external chain | `MCPurchases` | `PurchaseProofs` |
| `McpTools` | `src/mcp.ts` | `MCPurchases` | `PurchaseProofs` |
| `SdnSnapshot` | the SDN snapshot from publication to answer | `MCRegisters` | `ScreeningProofs` |
| `CompanyLookup` | `src/secEdgar.ts` | `MCRegisters` | `RegisterProofs` |
| `EvidenceGraph` | record helpers, bundle assembly, the validator's rules | `MCEvidence` | `EvidenceProofs` |
| `GraphWalk` | the validator's depth-first walk | `MCEvidence` | `EvidenceProofs` |
| `ArtifactProofs` | what is made of one record's own proofs (operators only) | through the next two | `TrustProofs` |
| `BundleVerifier` | sealing and `verifyBundle` | `MCArtifacts` | `TrustProofs` |
| `SignedArtifacts` | issuing and verifying payment claims and receipts | `MCArtifacts` | `TrustProofs` |
| `LockTranscript` | `verifyTclkTranscript` | `MCEvidence` | `EvidenceProofs` |

`ArtifactProofs` is about proofs of artifacts, not a module of TLAPS proofs.  Definitions named
`X_something` under a comment "Mutant" are plausible bugs of `X`.  Nothing uses them; each belongs to one
part of a property, and TLC finds that property violated when `X` is replaced by the mutant.

Five MC modules check several specifications side by side.  A variable of the MC module (`half`, `door`,
`lookup`, `kind`) says which of them a behaviour is about; the others rest in an initial state, or at the
end of theirs, so the runs explore the sum of the state spaces and not their product.  For this the
definitions a module would share with its neighbours carry a prefix: `Validation`, `Mcp`, `Sdn`, `Key`,
`Match`, `Edit`, `Lookup`, `Graph`, `Lock`, `Artifact` (`MatchInit`, `SdnFairness`, `lockVars`).  A proof
module may be about several specifications for the same reason.

The properties a run checks are conjunctions of named parts, each defined and explained on its own above
the conjunction; the parts are what to read, the tables below list them.

### Breaker

`breaker` is the map's entry for one upstream; `call[c]` is one `getHealth` call.  `FailFast`,
`ServeCached` and `StartProbe` are the three ways `decideProbe` ends; `Answer` is what the upstream does
with the probe (or the abort timer), `Deliver` the continuation after the await with `applyProbeResult`.
The code compares only differences of `Date.now()`, so stamps are ages that `Tick` advances and that
saturate at `Forever`, the stamp 0 of a new breaker included.  The failure counter is only compared with
the threshold and saturates there.  `flipAge` and `tripAge` are history.

### NameDataset

`cache`, `failureAge` (the age of `lastRefreshFailure.at`), `inflight` and the calls.  The settlement of
the shared refresh is one action: the `finally`, the assignments of every waiter and their returns are
one drain of the microtask queue, nothing else runs in between.  Of several waiters the last to have
joined writes the failure stamp last.  A list is its record count; the code compares the primary and the
alias counts by the same rule, one count stands for both.  Rubbish and outages are the count 0.

### PaidRoutes

`req[c]` says where a request is (`gates`, `charge`, `handler`, or no request) and which gates are ahead;
`pinned` and `nameList` are what the gates leave in the request's context; `results`, `screened` and
`judged` relate the handlers' results to what the gates saw.  A step runs from one await to the next.
The world (`store`, `company`, `source`, `signing`) may change between any two steps.  The routes are told
apart by what they ask for (`ask`): `/us-company` is a company check with another registry, `/verdict` a
wallet check whose exposure part cannot fail (`Verdict`, `OnePinnedSnapshot`), and the `/web` twins differ
in price only.  `/screen-name` checks signing before its dataset, the others after their gates; the gate of
`/diligence` reads the snapshot before the breaker.  The breaker and the name list appear here as their
promises: `company.believed` lags behind `company.up` as `Breaker` bounds it, and a list may be past its
bound when the gate gets it, by the download it waited for (`NameDataset`, `ServedInDate`).

External: the payment library.  A paid client's credential may be accepted, or the verification may fail
(the client is challenged again); it is accepted at most once, and never without a payment.
The limiter is the count under the key of a client's *next* request: its address before it pays, its
credential afterwards, so paying moves it to an empty bucket.  Malformed requests, refused by the
validators before anything else happens, are left out.

### PurchaseLedger

Each purchase goes from open to paid, accepted and then served or failed; a *firm* one (it includes a
wallet given as an address) is never failed.  `KeepsLedger` maps the routes to it with `Stage` and `Firm`.

### Verdict

One evaluation: the subject's screening beside the lookup of the page of transfers and the workers.  A
counterparty is its index.  A worker's step is everything from the settlement of its screening to its
next await: count, take `next++`, start the next screening.  Whether a counterparty is listed is left
open (each is screened once).  The routes evaluate under a pin; evaluations without one, as
`test/exposure.ts` makes them, are initial states too, and are the only ones whose screenings can fail.

### RateLimit and FixedWindow

`buckets` is the map, `Check` one request (`sweep`, find or open the bucket, count, answer), `Tick` a unit
of time.  As in `Breaker`, only differences of the clock matter, so a bucket has the time left to its
`resetAt`.  `granted` is history: what
was allowed to each key since so many ticks ago.  `FixedWindow` has no map and no
sweep; an elapsed bucket, present or swept, is no window of it.  A caller is a set of headers it may send;
`PrefixOf` says which credentials share the characters that make the key.

### KeyTrust and KeyLifecycle

`KeyTrust` has the operators of the package: `RecordAccepted`, `PolicyAccepted`, `Lifecycle`, `Verdict`
and the mapping of the interoperability registry (`ToRecord`).  `KeyLifecycle` adds the service:
deployments that rotate or condemn the key, with a correct note about the old one or a slip, the start-up
check (`Starts`), `Published`, `Attest`, `Anchorable` and a verifier that fetched the registry some time
ago (`held`).  `sample` is any one attestation that was issued; whatever holds of it holds of all.
`CondemnedEarly` names the one record the start-up check lets through and `TrustPolicy` does not: with it
the verifiers refuse the registry, and what any key signed is UNVERIFIABLE to them (see Disagreements).

### Anchor

A step runs from one await to the next: charge, read, write.  The chain keeps the first anchor of a hash;
a transaction, once the endpoint has it, waits in `pending` and is mined.  The endpoint may take it and
answer too late (`WriteTimesOut` beside `pending'`), which is what makes a second purchase interesting.

### McpTools

The tools in their own order: argument checks, for wallets the snapshot, the charge, the lookups, `attest`.
It keeps the same ledger as `PaidRoutes`, but not `SignedMeansSomething` (see Disagreements), nor does it
look at readiness to sign or the registry's health before it charges: only malformed arguments are free
(`UsageErrorsAreFree`), and a paid call may fail, which the ledger then records as its one answer.

### SdnSnapshot

OFAC publishes on some day; the job downloads, perhaps damaged, and perhaps from a cache that still serves
the publication before for a while (`Offered`, `MaxLag`), parses to counts, validates against the
active snapshot, activates or puts in quarantine, on a clock that may be ahead (`lead`); a row of the
stored extract may be lost; readers assess, and answer from what is left.  `sample` is any answer given.
A document published again without a change is revalidated as the latest publication.  `AnswerIsRecent`
allows the maximum staleness plus the job's lead, which is what the code gives, and the lag of the source.
An older document of another day is a rollback and refused; one of the same day is not told from a newer,
so `NoSilentShrinkage` speaks of days, and of the tolerated loss, not of the order of publications.

### ListValidation, EditDistance, NameMatching

A row is what validation makes of it: its record and whether it came whole; a body may be cut inside a
quoted field, between fields or at the end of a row, be a page of HTML, or belong to another publication
than its partner.  `EditDistance` is the loop with its two arrays, cell by cell, against a reference that
tries every alignment.  In `NameMatching` a name is a sequence of words with letters and script; scores
are exact fractions, of counts of words and the edit distance of the normal forms as text.  The loop goes
alias by alias, then sorts.

### CompanyLookup

`Resolution` is `resolveCompanyQuery` over entries `[cik, ticker, title]`; a text is known by the ticker it
equals and how it compares with each title.  What is found are positions of the list, sorted stably.  The
list may come in any order; a ticker is of one entry, but one filer may have entries for several classes
of stock, and two filers the same title.  The filing's fetch follows; the six-hour
cache is whichever list the lookup uses.

### EvidenceGraph and GraphWalk

A record's id is the hash of its content, so a record is its own id in `EvidenceGraph`: helpers build on
records, one may be built by hand, one may be left out of the bundle, `Validates` judges.  Cycles are
impossible there, and `GraphWalk` takes them up: the recursion of `visit` as a stack, over every graph.
It starts from the records without children, so a ring no root leads to is found by its being unvisited.

### BundleVerifier, SignedArtifacts and ArtifactProofs

Signatures are terms: made by a key, over a message, borne under a key id, in a text that decodes or does
not.  Bundles and artifacts are passed on rearranged, cut and signed again, and judged by keys a caller
comes to hold and to condemn as time passes.  `ArtifactProofs` is shared: what one record's own proofs are
worth.  A bundle holds one evidence record here; what several records mean for each other is
`EvidenceGraph`'s.  Of the other records a payload has the latest time they assert (`asserted`).  The signer
that `sealBundle` calls may answer anything (`Answers`): under another key id, by another key, over another
payload; `Seal` goes on only with what the code's two checks let through.  A file may come whole, without
its payload (another payload type, or base64 that does not decode: the outer document is still reported
VALID) or unreadable (`Files`).  The caller's policy has its options, `expiry` being
`enforceEvidenceExpiration`.

### LockTranscript

One entry is read at a time, with any sender, signer, frame and time; messages no reader is handed do not
matter.  The state machine (`Advance`) is the library's, as `tclk.ts` and its tests use it.

## Runs

| Run | Instance | What it shows |
|---|---|---|
| `breaker` | 3 callers, timeout 1, TTL 2, cool-down 3, threshold 3 | late results make the breaker look older, never fresher; a request passes only if the upstream was up within the TTL, is refused only if it was down within the cool-down; an open breaker is left alone for a cool-down less one timeout; outage and recovery are noticed |
| `name_dataset` | cache: 2 callers, lists of 8, 9 and 10 records (9 may follow 10, 8 may follow neither); validation: 3 records, every cut and damage, two publications, one alias row in three with no record | sharing, fallbacks, failure stamps, pauses, replacement only by plausible later lists, an end to refusals; only whole records of the publication are used, no more alias rows than tolerated lack their record, loss is bounded |
| `paid_routes` | 2 clients (symmetric), rate limit 1, 2 snapshots | the paid result contract with every ask, outage, activation and lost verification |
| `paid_liveness` | 1 client | a client that has paid is answered |
| `verdict` | 3 workers, limit 4, up to 5 counterparties, 2 snapshots | the shared index, the counts and the decision |
| `rate_limit` | 3 callers with 4 keys in 3 forms, limit 2, window 3, sweep at 2 | live buckets count exactly, twice the limit at most per window's time, honest refusals, a small map, fixed windows |
| `key_lifecycle` | 3 keys, times 0 to 2, skew 1 | attestations verify, old copies are kind, the two verifiers agree, what starts is trusted unless a key was condemned early |
| `purchases` | anchoring: 2 purchases, 2 attestations; MCP: 2 calls, 2 snapshots | answers match the chain, signed answers come true, the wallet result is of the judged snapshot, malformed arguments are free, both keep the ledger, paid clients are answered |
| `registers` | SDN snapshot: 4 identifiers in 3 lists, staleness 1, clock lead up to 2, 2 publications, the source one unit late; matching: 3 words and 2 of other letters, lists of 2 records with up to 2 names, thresholds 50, 85, 100; distance: strings of up to 3 of 3 characters; companies: lists of up to 4 entries in every order, all likenesses of 2 titles | answers are official and recent, no silent shrinkage and no earlier day's list, health agrees with requests, a new list becomes active; every name is compared, best first, a contained query is reported, and is not certain unless it is the name; the least number of edits; nothing is selected among several filers, answers do not depend on the order |
| `evidence` | walk: every graph of 4 records; graph: up to 8 records, one by hand, one left out; lock: 2 parties, 5 entries, times to 2 | accepted exactly without a cycle, and the walk ends; helpers assemble, authority chains, references are walked, removal is noticed; the parties' own words, each step in order, nothing dropped, outcomes final |
| `artifacts` | seal: 2 signers, 2 payloads, times to 3; records: 14 kinds of evidence, 3 broken payloads and one that asserts a later time, expiration minded or not; claim: 2 keys, 2 issuers; receipt: 2 keys, 2 contents | VALID is sound, witnessed evidence is backed, integrity is the seal's alone; what is sealed is whole whatever the signer answers, seals do not age, verdicts age as the policy asks, condemnation never helps, learning a key keeps VALID; only its issuer speaks, a receipt is what was signed as one, only revocation undoes it |
| `paid_retry_refused` | 1 client | *violated*, see Disagreements: the retry that carries the payment passes the gates again |

| Property | Its parts |
|---|---|
| `IInv` of `Breaker` | `TypeOK`, `Coherent`, `ResultAges` |
| `AnswersAreRecent`, `ChangesNoticed` | `PassedOnRecentHealth`, `RefusedOnRecentOutage`; `RecoveryNoticed`, `OutageNoticed` |
| `IInv` of `NameDataset` | `TypeOK`, `SharedRefresh`, `StampedFailures` |
| `ListInDate`, `RefreshDiscipline` | `ServedInDate`, `RefusedOnlyWhenExpired`; `OnlyImproves`, `PausesAfterFailure` |
| `PairIsWhole` | `WholeRecordsOnly`, `AliasesKeepRecords`, `LossIsBounded` |
| `ResultsAreMeant` | `ScreenedFromJudged`, `SignedMeansSomething` |
| `WorkIsCounted`, `DecisionIsEarned` | `WorkDivided`; `PassMeansClear`, `WarnMeansSomething`, `OnePinnedSnapshot` |
| `WindowsAreCounted` | `LiveBucketsCount`, `TwiceMaxAtMost`, `AnswersAreHonest` |
| `UsableUnlessCondemnedEarly`, `AttestationsStand` | `PublishedIsTrusted`, `ProfileAgreesWhenBounded`; `AttestationsVerify`, `OldCopiesAreKind` |
| `ChainAgrees`, `AnchoringEnds` | `AnswersMatchChain`; `SignedIsAnchored`, `PaidIsAnswered` |
| `CallsAreSound`, `McpPurchasesEnd` | `WalletScreenedFromJudged`, `UsageErrorsAreFree`; `McpKeepsLedger`, `McpPaidIsAnswered` |
| `AnswersHold`, `ListAdvances` | `AnswerIsOfficial`, `AnswerIsRecent`, `StatusIsTrue`; `NoSilentShrinkage`, `BecomesActive` |
| `MatchesAreFair`, `DistanceIsLeast` | `EveryNameCounts`, `BestFirst`, `AllWordsAreEnough`, `CertainIsSame`; `IsLeastEdits` |
| `ResolutionIsFair` | `ResolvedIsTheBest`, `AmbiguousIsComplete`, `OrderDoesNotMatter`, `CandidatesResolve` |
| `WalkIsRight` | `StackIsPath`, `VisitedIsComplete`, `AcceptedIsAcyclic`, `RefusedIsCyclic` |
| `AcceptedHangsTogether` | `HelpersAssemble`, `AuthorityChain`, `ReferencesAreWalked`, `RemovalIsNoticed` |
| `TranscriptIsSaid` | `PartiesSaidSo`, `AcceptedLeadToStatus`, `NothingIsDropped`, `OutcomeIsFinal` |
| `VerdictIsBacked`, `VerdictFollowsTrust` | `ValidIsSound`, `WitnessIsBacked`, `IntegrityIsTheSeals`; `SealDoesNotAge`, `VerdictAgesAsAsked`, `CondemnNeverHelps`, `LearningKeepsValid`, `SealVerifies` |
| `ArtifactIsSpoken`, `ArtifactLasts` | `OnlyItsIssuerSpeaks`, `ReceiptIsWhatWasSigned`; `IssuedVerifies`, `OnlyRevocationUndoes` |

Each module has one type invariant, a first conjunct of one of these properties (`EstablishedBeforePayment`
for `PaidRoutes`).

### Disagreements

`paid_retry_refused` is the disagreement between the code and the repository's words that costs a client
most, and the one kept as a run: `README.md:69` promises 503 "**before** requesting payment", but the gates
stand before `mppx.charge` on every request, so a client that has paid can get one on the retry.  The others
met while translating the code are not checked as properties; what the models promise is worded so that
it holds of the code, and here is where that is less than the words say:

| The words | What the code does |
|---|---|
| "a single trial probe" (`src/health.ts:31-32`) | while half-open every call probes |
| unavailable "before payment" (`src/ofac.ts:306-307`) | the list's age is judged again after payment |
| "Only block ... if EVERY requested upstream is down" (`src/server.ts:717-719`) | Companies House alone blocks a bundle |
| "per caller" (`src/rateLimit.ts:31`) | per key, of which a caller has several |
| "adds no new trust semantics" (`registry.ts:126-127`) | a retired key without an activation refuses the registry |
| "Commit and deploy this history before changing the production key" (`src/attestationKeyHistory.ts:10`) | that deployment does not start |
| "don't pay gas to do it again" (`src/anchor.ts:148`) | two purchases may both send |
| compromised or revoked keys' attestations are "`INVALID`, not merely stale or unknown" (`docs/ATTESTATION_KEY_ROTATION.md:66-68`) | `compromised_at` "conservatively believed" (line 61) to lie before the activation makes `TrustPolicy` refuse the registry: all is UNVERIFIABLE |
| "require receipt/inclusion proof" (`docs/THREAT_MODEL.md:52`) | the receipt is not waited for |
| "Both must be healthy before payment" (`src/server.ts:1215`) | only the configuration is looked at |
| never "a signed, success-shaped 200" over no success (`src/diligence.ts:16`) | the MCP tool has no such guard and signs it |
| an entry per record "and the components behind it" (`docs/AGENT_EVIDENCE_V0.md:602-603`) | verification that ends early lists records as VALID with none |
| names in another word order "normalize to the same" (`src/ofac.ts:140-143`) | the order is kept; `similarity` makes up for it in part |
| "lets a very close string rescue" (`src/ofac.ts:187-189`) | not to the default threshold |
| partial data "is never a negative" (`src/ofac.ts:31`) | a body cut at the end of a row passes within a tenth |
| "don't re-fetch on every request" (`src/ofac.ts:411`) | only while a list is usable |
| "A day-to-day drop" (`src/ofac.ts:270`) | the list compared with may have expired long ago |
| "identifies one filer" (`src/secEdgar.ts:88`) | entries are counted, and a filer may have several |

### Bounds

The breaker's interleavings need two overlapping calls, one to trip or recover it and one whose result is
late, and a third to ask meanwhile; the times are the smallest that keep timeout < TTL <= cool-down, with
room to age past each.  In the name list a second caller joins a refresh or arrives after it.  In the
routes two clients are enough to confuse pins, and two snapshots to tell a pinned from a current one; a
limit of one makes every second request limited.  The verdict has fewer workers than the limit and a limit
smaller than the list, so workers take a second index, stop at the end, and counterparties are left out.

The rate limiter's window is longer than one second of two ticks, so Retry-After rounds, and the sweep
size is smaller than the number of keys, so it runs with live and elapsed buckets at once.  Three keys are
two rotations, so there is a key before the retired one.  Two anchoring purchases can meet between read
and write, and with two attestations they need not.  The snapshot's times leave room for fresh, at the
limit and stale, and for a lead longer than the skew; two publications, on one day or on two, and a source
that serves the first after the second give a rollback, an earlier list of the same day and a shrinkage.
With few alias rows a tolerated share of one per cent would be none, so it is a third of three there (the code's
one per cent of two thousand is twenty).
Four records make rings of two to four with records outside them.  Five transcript entries are one more
than the longest contract needs, so at least one is out of turn.  Where values are enumerated (strings,
lists, payloads) the instance has each kind the code tells apart, and two where they could be confused.
The theorems have no such bounds.

### Fairness

Liveness is checked under fairness of what the runtime does anyway: an await ends (the probe, the downloads
and anchoring calls have abort timers, database and chain calls their drivers'), a continuation runs, time
passes, requests keep coming to the breaker and the list.  In `PaidRoutes`, `Anchor` and `McpTools` a
client that *has paid* keeps trying, and the library does not refuse a good payment for ever (strong
fairness of acceptance); nobody has to pay.  In `PaidRoutes` what goes down need not come back: the
property supposes that it does (`<>[]AllUp`).  In `Anchor` the endpoint may stay down, and transactions
are mined in the end.  In `SdnSnapshot` the latest document arrives intact in the end, while it is not
yet decided (the job retries, outside this repository, and its source stops lagging).  In `Verdict` the store may stay down.  `GraphWalk` is a loop
that runs.

Where specifications share a run, the fairness of one is asked of its own behaviours (`half = "cache" =>
Fairness`, `WF_sdnVars(lookup = "sdn" /\ Arrives)`), or is vacuous for the one at rest: at rest nobody has paid, so
no fair action of `Anchor` or `McpTools` is enabled, and the walk has ended.

## Proofs

Every theorem is proved by TLAPS of the module's own specification (not of an MC module's), for all values
of the constants that satisfy the named assumptions: positive thresholds, limits and windows; timeout <
TTL <= cool-down; download timeout < retry pause <= refresh period <= staleness bound (the constants of the
source satisfy them); finitely many caller keys; `None` apart from what it is to be told from; a ticker of
one entry only; queries of no more than 698 letters; records, payloads and policies of the shapes the parsers let through.

Proved are `IInv` of `Breaker` and `NameDataset` (`Invariance`), and the properties `NoHammering`,
`AnswersAreRecent`, `ListInDate`, `RefreshDiscipline`, `EstablishedBeforePayment`, `ResultsAreMeant`,
`KeepsLedger` (of `PaidRoutes` and `Anchor`; `McpKeepsLedger` of `McpTools`), `WorkIsCounted`,
`DecisionIsEarned`, `WindowsAreCounted`, `MapBounded`, `KeepsWindows`, `UsableUnlessCondemnedEarly`,
`AttestationsStand`, `VerifiersAgree`, `ChainAgrees`, `CallsAreSound`, `AnswersHold`, `DistanceIsLeast`,
`MatchesAreFair`, `PairIsWhole`, `ResolutionIsFair`, `WalkIsRight`, `AcceptedHangsTogether`, `TranscriptIsSaid`, `ArtifactIsSpoken`,
`ArtifactLasts`, `VerdictIsBacked` and `VerdictFollowsTrust`, each as the theorem of its name and `Holds`.
Parts of a property have theorems of their own where they are worth citing (`ServedInDateHolds`).

* `BreakerProofs`.  The invariant `IInv` is `TypeOK`, `Coherent` and `ResultAges`.  `ResultAges` is what makes the
  action properties provable: it relates every stamp, in the breaker and in the suspended calls, to what
  the upstream did, so that a comparison with the TTL or the cool-down says something about the upstream.
* `PaidRoutesProofs`.  `Established` says what each position in the middleware chain guarantees;
  `FromJudged` and `Meaningful` lean on it.  Each action touches one client (`OneClient`) or none
  (`NoClient`).  From the invariant follows the refinement `Spec => KeepsLedger`: only `Pay`,
  `AcceptPayment` and `Respond` show in the ledger (`OthersUnseen`), and a firm purchase that gets to its
  handler has its result (`FirmIsServed`).
* `RateLimitProofs`.  The history `granted` counts backwards, so that no sum is needed: `Growing` says a longer
  stretch holds no less.  `Counted` says that what was allowed since a live bucket was opened is its
  count, and that a whole window has at most the limit more, or the limit without a live bucket; every
  request adds one to all stretches and every tick moves them on.  So a map that was just swept has only keys allowed within the
  window, which bounds it.  `CheckProps` says once what a request does to its own bucket and that it
  leaves the others as they are seen, through any sweep; the refinement `Spec => KeepsWindows` follows by
  cases.  `SecondsProps` (rounding up never gives 0, never less than what is left) makes answers honest.
* `ScreeningProofs`.  Of `Verdict`: `WorkDivided` is proved with the cardinality of the set of good outcomes; it
  needs `Ordered` (a list is never left without a worker before its end).  A full count then leaves
  nobody unscreened (`GoodCounts`), which gives `PassMeansClear` and `WarnMeansSomething`.  Of
  `SdnSnapshot`: `SdnIInv` adds to the types that the active list came whole from the publication it names,
  rows apart (`RowOK`), and that an answer was given of it in time (`SampleOK`).
* `PurchaseProofs`.  `Progress` and `McpProgress`: how far a handler is decides whether its payment was
  accepted and its answer is final, and only accepted purchases reach the chain.  With them
  `AnswersMatchChain`, `WalletScreenedFromJudged` and `UsageErrorsAreFree` are inductive, each step being one
  request's or the world's.  The refinements to `PurchaseLedger` need them too: a second acceptance, or
  an answer without one, is no step of the ledger.
* `RegisterProofs`.  Of `NameDataset`: `SharedRefresh` is inductive together with the bound on the ages of
  waiters and refresh: the fallback list a waiter holds *is* the cached one, so its age is bounded when it
  is served; `StampedFailures` carries the pause.  Of `ListValidation`: every record has one place in its
  file (`NthProps`), so a download is about some of the records, each once, or about all (`DownloadProps`);
  the invariant adds that a publication differs from the one before in one record (`OneApart`), which
  bounds what a file of the one before can lose.  Of `EditDistance`: the least cost of an alignment is
  shown to satisfy the recurrence of the table (`LeastCostMore`: an alignment leaves out a last character
  or pairs both), and the invariant is that the row above is whole and the row being computed right so
  far (`RowAbove`, `RowSoFar`), whatever the exchanged array held.  Of `NameMatching`: what a name's words
  and a text are is defined by recursion, unfolded by `Repeated`; a text is the words and the spaces between
  them, so no two normal forms have the same text (`TextIsInjective`); `levenshtein` is the least cost again
  (`LevenshteinIsLeast`), which gives the weights their bounds.  `MatchIInv` says that the best so far is
  the closest of the names so far and that the matches are of the records so far, and sorting keeps them
  (`Ranks`).  `CertainIsSame` is where length matters: the code rounds to thousandths, and of two texts of
  700 letters made of the same words, one letter apart (`a aa ...` and `aa aa ...`), one would be certain
  to be the other.  `LengthAssumption` keeps queries below that, as the routes' limit of 200 characters
  does but for names made of the symbols that stand for several letters each.  Of `CompanyLookup`: sorting
  puts each entry in the place its rank gives it (`Ranks`, `InPlace`), so what is listed depends on the set
  of best entries alone (`ResolutionProps`), and not on the order of the list.
* `EvidenceProofs`.  Of `GraphWalk`: `VisitedIsComplete` is inductive with `Accounted` (no parent is lost between a
  call's list and the marks).  `VisitedIsAcyclic` says that every set of finished records has one that
  is no parent of the others in it: a record that is finished adds itself last.  An accepted walk has
  finished all records; a refused one met a record of its own stack, which is a path (`StackIsPath`), or
  left records unvisited each of which has an unvisited child (`RefusedIsCyclic`).  Of `EvidenceGraph`: what
  helpers build is built on what is built (`BuiltOnBuilt`), and bundles are put together of it
  (`AssembledOfBuilt`).  Of `LockTranscript`: what was said only grows, `AdvanceProps` lists what the state
  machine may do, and the places of accepted steps are those of the path to the status.
* `TrustProofs`.  Of `KeyLifecycle`: `RegistryStands` (what was deployed passed the start-up check),
  `TimelyRecords` (but for the times of a condemnation, every record's are in order),
  `CopiesArePast` (a verifier's copy has no record the registry does not still explain) and `SampleIsCovered`
  (an attestation's key was active at its time, and is remembered).  That the two verifiers agree is then
  a comparison of their cases, record by record.  Of `SignedArtifacts` and `BundleVerifier`: whatever an
  artifact bears, its good signatures were made (`SignaturesWereMade`, `SealsWereMade`), so that a verdict,
  unfolded into its checks, leads back to a signer; the action properties compare two evaluations of the
  same verdict, check by check (a key's lifecycle changes, its signatures do not; a lifecycle that is good
  lasts, `LifecycleLasts`, so only the freshness that the policy asks for can end).

The proofs have changed the models.  An answer could be of a snapshot whose document OFAC had published
again, so `SdnSnapshot` now names the latest publication with it; `Condemn` of `BundleVerifier` needed the
guard that keeps a record one the policy would accept; `Backers` had left out attestations in claims;
`ArtifactTypeOK` bound less than it seemed to; and constants have got the assumptions the instances had met
by chance (`PayloadAssumption`, `RecordAssumption`, `ListsAssumption`).  `AliasesKeepRecords` counts, as the
code does, against the rows of the alias file and not the published aliases: one that comes twice makes room
for an orphan (`orphans > altRecords * MAX_ORPHAN_ALIAS_FRACTION`).

The provers cannot instantiate an induction theorem over an operator.  Where a proof is about data of any
size, it takes a least counterexample instead (`LeastNatural`, `Induction`): the least number of edits, the
sorted places, the words of a text, the acyclic sets.

Only model-checked: the liveness properties (`ChangesNoticed`, `RefusalsEnd`, `PaidIsAnswered`, `Concludes`,
`AnchoringEnds`, `McpPaidIsAnswered`, `BecomesActive`, `Ends`), which depend on fairness and are out of the
prover's reach, and with them the properties that have one as a part (`ListAdvances`, whose
`NoSilentShrinkage` is proved, `McpPurchasesEnd`, whose `McpKeepsLedger` is).

## Abstractions and what is not modelled

* Crashes and restarts: breakers, the name list and the limiter live in memory only, so a restart is their
  initial state; a paid request that dies with its process is not answered, and the payment library, which
  is external, decides whether its retry is accepted.  Nothing in the repository is persisted but the
  snapshot, which another job writes in one transaction.
* `loadUsableSnapshot` reads the clock before the database: `PaidRoutes` and `McpTools` have a snapshot
  usable or not at the moment of the read; `SdnSnapshot` has the times.
* Cryptography is terms; canonical JSON, base64, schemas and parsing are conditions (canonical, well formed,
  readable) where something depends on them; wording is left out.  Unicode folding and CSV quoting are what
  they do to words and rows.
* The cache of EDGAR's ticker list: lookups do not share its download, and a slow one may put an older list
  back.  The code gives downloads no limit of their own, so there is no bound to state.
* A query in letters outside a-z has an empty normal form and is answered `hit: false`.  No line of the
  repository promises otherwise; `AllWordsAreEnough` excludes such queries by name.
* `src/companiesHouse.ts`: two independent reads, of which `PaidRoutes` has the outcomes.
* Internal and information routes of `src/server.ts`: `/attest` signs what a caller with the shared secret
  gives it; the others read.  `/health` asks the breakers as any caller of `Breaker` does.
* Evidence encodings (`canonicalJson.ts`, schemas, identifiers), the payment log, the sandbox, OpenAPI and
  configuration: data without an order of events.  The Python client is a port of the package in another
  language; the plugin and examples are descriptions.

## Plan

Done: the service's shared state and paid routes; the limiter, keys, anchoring, MCP tools and snapshots; the
name list's validation and matching; company lookups; the evidence package; proofs of every module that
has a state.

Left, in order: the gates of `PaidRoutes` composed with `Breaker` and `NameDataset` themselves instead of
their promises; bundles of several records in `BundleVerifier`, with the reconciliation references between
them; the ticker cache, once its downloads have a limit.
