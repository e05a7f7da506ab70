--------------------------- MODULE BundleVerifier ---------------------------
(***************************************************************************)
(* Sealing a bundle and verifying it offline                               *)
(* (src/packages/agent-evidence/src/dsse.ts and verifier.ts): payloads are *)
(* signed, here or by other tools, bundles are passed on with their        *)
(* signatures and payloads rearranged, and a caller judges what it holds   *)
(* by the keys it trusts, which change as time passes.                     *)
(*                                                                         *)
(* A payload is [form, graph, created, asserted, evidence]: whether its    *)
(* bytes are the canonical document, parse at all or are another writing   *)
(* of it, whether validateBundlePayload accepts its graph (see             *)
(* EvidenceGraph), the latest time its decision, execution and run records *)
(* assert, if any, and one evidence record.                                *)
(***************************************************************************)
EXTENDS ArtifactProofs, FiniteSets

CONSTANTS
    Payloads,   \* payloads that may be signed
    Signers,    \* keys that sign bundles
    Held,       \* key records a caller may come to hold
    Policies,   \* [minimum, required, maxAge, expiry, digestOnly, anchor, bound] a caller may
                \* choose; expiry is enforceEvidenceExpiration
    MaxNow, MaxSigned, MaxPasses   \* bounds of the model

Forms == {"canonical", "unparsable", "rewritten"}

\* The portable file: whole, without a payload (another payload type, or bytes that do
\* not decode), or no portable file at all.
Files == {"whole", "no-payload", "unreadable"}

ASSUME BundleAssumption ==
    /\ Signers \subseteq Keys /\ MaxNow \in Nat \ {0} /\ 1 .. MaxNow \subseteq Times
    /\ {MaxSigned, MaxPasses} \subseteq Nat
ASSUME HeldAssumption == \A r \in Held : r \in Records /\ RecordAccepted(r)
ASSUME PayloadAssumption ==
    /\ Payloads \subseteq [form : Forms, graph : BOOLEAN, created : Times, asserted : OptionalTimes,
                           evidence : {p.evidence : p \in Payloads}]
    /\ \A e \in {p.evidence : p \in Payloads} :
        /\ e.observed \in Times /\ {e.at, e.expires} \subseteq OptionalTimes
        /\ \A i \in DOMAIN e.sigs : e.sigs[i].key \in Keys
        /\ e.proof \in {"attestation-v1", "attestation-v2"} => 1 \in DOMAIN e.sigs
        /\ e.proof = "dsse" /\ e.family = "claim" =>
             /\ e.claim.claim.at \in Times /\ DOMAIN e.claim.sigs = 1 .. Len(e.claim.sigs)
             /\ \A i \in DOMAIN e.claim.sigs : e.claim.sigs[i].key \in Keys
        /\ e.family = "receipt" /\ e.embedded => e.receipt.at \in Times /\ e.receipt.proof.key \in Keys
ASSUME PolicyAssumption == \A p \in Policies :
    p.minimum \in Nat \ {0} /\ p.required \subseteq Keys /\ \A b \in p.bound : b[2] \in Keys

VARIABLES
    signed,     \* <<key, payload>> for every signature that was made
    bundle,     \* [file, payload, sigs] that is being passed on, None before
    policy,     \* the caller's policy
    trust,      \* the caller's record of each key, None for keys it does not trust
    now,
    passes      \* how often the bundle was passed on (a bound of the model)

vars == <<signed, bundle, policy, trust, now, passes>>

----------------------------------------------------------------------------
(* verifyBundle.                                                           *)

Integral == {"outer", "bundle-signature", "payload", "graph"}

\* report: what is found, and the payload if it is reported.
Report(results, payload) == [results |-> results, payload |-> payload]
State(report) == Overall(report.results)

\* Mutant: the freshness of what is sealed counts as the seal's.
Integrity_fresh(report) == Overall({r \in report.results : r.component \in Integral \union {"freshness", "trust-mode"}})

Integrity(report) == Overall({r \in report.results : r.component \in Integral})

Outer == Result("outer", "VALID", None)

Material(b) ==
    {[Outer EXCEPT !.component = "verification-material", !.state = "UNVERIFIABLE", !.required = FALSE]}
    \union (IF policy.anchor THEN {[Outer EXCEPT !.component = "anchor", !.state = "UNVERIFIABLE"]} ELSE {})

Verified(b, i) == ~Repeated(b.sigs, i) /\ VerifiesOver(b.sigs[i], b.payload)

\* Mutant: a signature of a condemned key is passed over.
FirstPass_skips(b, i) ==
    IF ~Repeated(b.sigs, i) /\ (trust[b.sigs[i].key] = None \/ Condemned(trust[b.sigs[i].key])) THEN "UNVERIFIABLE"
    ELSE IF Verified(b, i) THEN "sound" ELSE "INVALID"

\* Mutant: a signature of a key that is not trusted does not count, nor does it matter.
FirstPass_ignores(b, i) ==
    IF ~Repeated(b.sigs, i) /\ trust[b.sigs[i].key] = None THEN "VALID"
    ELSE IF Verified(b, i) THEN "sound" ELSE "INVALID"

\* The first pass over the signatures: the lifecycle of the keys of those that are
\* sound is judged once the payload is read.
FirstPass(b, i) ==
    IF ~Repeated(b.sigs, i) /\ trust[b.sigs[i].key] = None THEN "UNVERIFIABLE"
    ELSE IF Verified(b, i) THEN "sound" ELSE "INVALID"

\* Mutant: a signature is as old as its verification.
SealLife_now(b, i, clock) == Live(trust, b.sigs[i].key, clock, clock)

SealLife(b, i, clock) == Live(trust, b.sigs[i].key, b.payload.created, clock)

\* Mutant: the caller's minimum is not asked for.
SealSignatures_any(b, clock) ==
    LET sound == {i \in DOMAIN b.sigs : FirstPass(b, i) = "sound"}
        lives == {SealLife(b, i, clock) : i \in sound}
        presented == {b.sigs[i].key : i \in DOMAIN b.sigs}
    IN  lives \union (IF policy.required \subseteq presented THEN {} ELSE {"UNVERIFIABLE"})

SealSignatures(b, clock) ==
    LET sound == {i \in DOMAIN b.sigs : FirstPass(b, i) = "sound"}
        lives == {SealLife(b, i, clock) : i \in sound}
        valid == {i \in sound : SealLife(b, i, clock) = "VALID"}
        presented == {b.sigs[i].key : i \in DOMAIN b.sigs}
    IN  lives \union (IF policy.required \subseteq presented THEN {} ELSE {"UNVERIFIABLE"})
              \union (IF Cardinality(valid) < policy.minimum THEN {"UNVERIFIABLE"} ELSE {})

Future(t, clock) == t > clock + Skew

\* Mutant: evidence expires whether or not the caller asks for it.
Freshness_expires(p, clock) ==
    LET e == p.evidence
        stale == policy.maxAge # None /\ clock - p.created > policy.maxAge
    IN  {Result("freshness", IF Future(p.created, clock) \/ stale THEN "INVALID" ELSE "VALID", None)}
        \union (IF p.asserted # None /\ Future(p.asserted, clock) THEN {Result("freshness", "INVALID", None)} ELSE {})
        \union (IF Future(e.observed, clock) \/ (e.expires # None /\ clock > e.expires)
                THEN {Result("freshness", "INVALID", e.id)} ELSE {})

\* verifyFreshness; the results of the other records are told by their component alone.
Freshness(p, clock) ==
    LET e == p.evidence
        stale == policy.maxAge # None /\ clock - p.created > policy.maxAge
        expired == policy.expiry /\ e.expires # None /\ clock > e.expires
    IN  {Result("freshness", IF Future(p.created, clock) \/ stale THEN "INVALID" ELSE "VALID", None)}
        \union (IF p.asserted # None /\ Future(p.asserted, clock) THEN {Result("freshness", "INVALID", None)} ELSE {})
        \union (IF Future(e.observed, clock) \/ expired THEN {Result("freshness", "INVALID", e.id)} ELSE {})

Contents(p, bound, clock) ==
    LET e == p.evidence
        proofs == RecordProofs(e, trust, bound, clock)
    IN  {Result("graph", "VALID", None), Result("artifact-binding", "VALID", e.id)}
        \union proofs \union EvidenceSemantics(e, proofs, policy.digestOnly)
        \union ArtifactFamily(e) \union Freshness(p, clock)

VerifyBundle(b, clock) ==
    LET found == {FirstPass(b, i) : i \in DOMAIN b.sigs}
        outer == {Outer} \union Material(b)
        seal(states) == {Result("bundle-signature", s, None) : s \in states}
        untrusted == outer \union seal(found \ {"sound"})
        judged == untrusted \union {Result("payload", "VALID", None)} \union seal(SealSignatures(b, clock))
    IN  IF b.file = "unreadable" THEN Report({[Outer EXCEPT !.state = "INVALID"]}, None)
        ELSE IF b.file = "no-payload" THEN Report(outer \union {Result("payload", "INVALID", None)}, None)
        ELSE IF "INVALID" \in found THEN Report(untrusted, None)
        ELSE IF "sound" \notin found THEN Report(untrusted \union seal({"UNVERIFIABLE"}), None)
        ELSE IF b.payload.form = "unparsable"
        THEN Report(untrusted \union {Result("payload", "INVALID", None)}, None)
        ELSE IF b.payload.form = "rewritten"
        THEN Report(untrusted \union {Result("payload", "INVALID", None)}, b.payload)
        ELSE IF ~b.payload.graph THEN Report(judged \union {Result("graph", "INVALID", None)}, b.payload)
        ELSE Report(judged \union Contents(b.payload, policy.bound, clock), b.payload)

----------------------------------------------------------------------------
(* The world.  A bundle is put together by sealBundle or by other tools,   *)
(* and what is passed on may differ from what was put together.            *)

Signature(k, p) == [key |-> k, by |-> k, over |-> p, encoded |-> TRUE]

Sign(k, p) == Cardinality(signed \union {<<k, p>>}) <= MaxSigned /\ signed' = signed \union {<<k, p>>}

\* A file that holds one signature.
NewBundle(p, sig) == [file |-> "whole", payload |-> p, sigs |-> <<sig>>]

\* What the caller's signer may return to sealBundle: a signature under its key id or
\* another, made by its key or another, or one that was made before, of something else.
Answers(k, p) ==
    {[Signature(k, p) EXCEPT !.key = l] : l \in Signers}
    \union {[Signature(k, p) EXCEPT !.by = l] : l \in Signers}
    \union {[Signature(s[1], s[2]) EXCEPT !.key = k] : s \in signed}

\* Mutants: what is sealed is not validated; what the signer returns is not verified.
Seal_unchecked(k, p, sig) ==
    /\ p.form = "canonical" /\ sig.key = k /\ VerifiesOver(sig, p) /\ Sign(sig.by, sig.over)
    /\ bundle' = NewBundle(p, sig)
    /\ UNCHANGED <<policy, trust, now, passes>>
Seal_unverified(k, p, sig) ==
    /\ p.form = "canonical" /\ p.graph /\ sig.key = k /\ Sign(sig.by, sig.over)
    /\ bundle' = NewBundle(p, sig)
    /\ UNCHANGED <<policy, trust, now, passes>>

\* sealBundle with the signer of public key k, which answers sig; a SigningError, for
\* another key id or a signature that does not verify, leaves no bundle behind.
Seal(k, p, sig) ==
    /\ p.form = "canonical" /\ p.graph /\ sig.key = k /\ VerifiesOver(sig, p) /\ Sign(sig.by, sig.over)
    /\ bundle' = NewBundle(p, sig)
    /\ UNCHANGED <<policy, trust, now, passes>>

\* Another tool signs what it likes, or adds its signature.
SignElsewhere(k, p) ==
    /\ Sign(k, p)
    /\ bundle' = IF bundle # None /\ bundle.payload = p /\ Len(bundle.sigs) < MaxSigned
                 THEN [bundle EXCEPT !.sigs = Append(@, Signature(k, p))]
                 ELSE NewBundle(p, Signature(k, p))
    /\ UNCHANGED <<policy, trust, now, passes>>

\* A bundle is damaged or put together anew of what was signed; the outer document or
\* the payload may be lost.
PassOn ==
    /\ bundle # None /\ passes < MaxPasses /\ passes' = passes + 1
    /\ bundle' \in {[bundle EXCEPT !.file = f] : f \in Files}
            \union {[bundle EXCEPT !.payload = p] : p \in Payloads}
            \union {[bundle EXCEPT !.sigs[i].encoded = FALSE] : i \in DOMAIN bundle.sigs}
            \union {[bundle EXCEPT !.sigs[i].key = k] : i \in DOMAIN bundle.sigs, k \in Signers}
            \union (IF Len(bundle.sigs) = MaxSigned THEN {}
                    ELSE {[bundle EXCEPT !.sigs = Append(@, Signature(s[1], s[2]))] : s \in signed})
    /\ UNCHANGED <<signed, policy, trust, now>>

Learn(k, r) ==
    /\ trust[k] = None /\ r.key = k /\ trust' = [trust EXCEPT ![k] = r]
    /\ UNCHANGED <<signed, bundle, policy, now, passes>>

\* A record that begins after it is condemned would be refused.
Condemn(k) ==
    /\ trust[k] # None /\ ~Condemned(trust[k]) /\ InOrder(trust[k].from, now)
    /\ trust' = [trust EXCEPT ![k].status = "revoked", ![k].changed = now]
    /\ UNCHANGED <<signed, bundle, policy, now, passes>>

Tick == now < MaxNow /\ now' = now + 1 /\ UNCHANGED <<signed, bundle, policy, trust, passes>>

\* The constructor of TrustPolicy refuses a policy that names keys it has no record of.
Named == policy.required \union {b[2] : b \in policy.bound}

\* Mutant: it does not.
Init_unnamed ==
    /\ signed = {} /\ bundle = None /\ now = 1 /\ passes = 0
    /\ policy \in Policies
    /\ trust = [k \in Keys |-> None]

Init ==
    /\ signed = {} /\ bundle = None /\ now = 1 /\ passes = 0
    /\ policy \in Policies
    /\ trust \in [Keys -> Held \union {None}]
    /\ \A k \in Keys : IF k \in Named THEN trust[k] # None /\ trust[k].key = k ELSE trust[k] = None

Next ==
    \/ \E k \in Signers, p \in Payloads : \E sig \in Answers(k, p) : Seal(k, p, sig)
    \/ \E k \in Signers, p \in Payloads : SignElsewhere(k, p)
    \/ PassOn
    \/ \E k \in Keys, r \in Held : Learn(k, r)
    \/ \E k \in Keys : Condemn(k)
    \/ Tick

Spec == Init /\ [][Next]_vars

----------------------------------------------------------------------------
(* Properties.                                                             *)

TypeOK ==
    /\ signed \subseteq Signers \X Payloads /\ Cardinality(signed) <= MaxSigned
    /\ bundle # None => bundle.payload \in Payloads /\ Len(bundle.sigs) \in 1 .. MaxSigned
    /\ policy \in Policies /\ now \in 1 .. MaxNow /\ passes \in 0 .. MaxPasses
    /\ \A k \in Keys : trust[k] # None => trust[k].key = k /\ RecordAccepted(trust[k])
    /\ \A k \in Named : trust[k] # None

Verdict0 == VerifyBundle(bundle, now)
InForce(k) == trust[k] # None /\ ~Condemned(trust[k])

\* However a bundle was put together, one that is found valid holds a payload that as
\* many trusted keys as the caller asks for, the required ones among them, really
\* signed, and that is well-formed.
ValidIsSound ==
    bundle # None /\ State(Verdict0) = "VALID" =>
        LET good == {k \in Keys : InForce(k) /\ <<k, bundle.payload>> \in signed}
        IN  /\ Cardinality(good) >= policy.minimum /\ policy.required \subseteq good
            /\ bundle.payload.form = "canonical" /\ bundle.payload.graph

\* Who can be held to a statement beyond the agent's own word: keys in force that signed
\* it, for a claim under its own proof the one that is bound to its issuer (an attestation
\* is judged in the same way whatever the family of its record, and one of version 2 must
\* say that it is OnChainDiligence's, for one of its purposes).
Backers(e) ==
    IF e.family = "claim" /\ e.proof = "dsse"
    THEN {k \in Keys : InForce(k) /\ <<e.claim.claim.issuer, k>> \in policy.bound
                       /\ \E i \in DOMAIN e.claim.sigs : e.claim.sigs[i].by = k /\ e.claim.sigs[i].over = Message("claim", e.claim.claim)}
    ELSE {k \in Keys : InForce(k) /\ (e.proof = "attestation-v2" => e.ours) /\ \E i \in DOMAIN e.sigs : e.sigs[i].by = k /\ e.sigs[i].over = e.id}

\* A bundle is found valid only if evidence that claims more than an agent's assertion
\* is backed by such a key, is there to be read or not asked for, and has not expired, if
\* the caller minds; and if nothing in it is told from the future.
WitnessIsBacked ==
    bundle # None /\ State(Verdict0) = "VALID" =>
        LET e == bundle.payload.evidence
        IN  /\ e.mode # "agent-assertion" => Backers(e) # {}
            /\ e.embedded \/ policy.digestOnly
            /\ policy.expiry /\ e.expires # None => now <= e.expires
            /\ \A t \in {bundle.payload.created, bundle.payload.asserted, e.observed} \ {None} : ~Future(t, now)

\* The same bundle, signatures included, with another record in it.
With(b, e) ==
    LET p == [b.payload EXCEPT !.evidence = e]
    IN  [b EXCEPT !.payload = p,
                  !.sigs = [i \in DOMAIN @ |-> IF @[i].over = b.payload THEN [@[i] EXCEPT !.over = p] ELSE @[i]]]

\* What is found of a record can neither raise nor lower what is said of the seal
\* (docs/AGENT_EVIDENCE_V0.md:599).
IntegrityIsTheSeals ==
    bundle # None /\ (\A i \in DOMAIN bundle.sigs : bundle.sigs[i].over = bundle.payload) =>
        LET seal == Integrity(Verdict0)
        IN  \A e \in {p.evidence : p \in Payloads} : Integrity(VerifyBundle(With(bundle, e), now)) = seal

\* A seal that was found good stays good as time passes, while its keys stand
\* (docs/AGENT_EVIDENCE_V0.md:378: freshness does not change whether old bytes have a
\* valid signature).
SealStaysGood == bundle # None /\ now' # now /\ Integrity(Verdict0) = "VALID" => Integrity(Verdict0') = "VALID"
SealDoesNotAge == [][SealStaysGood]_vars

\* The caller asked to refuse bundles, or evidence, of that age.
TooOld(p, clock) ==
    \/ policy.maxAge # None /\ clock - p.created > policy.maxAge
    \/ policy.expiry /\ p.evidence.expires # None /\ clock > p.evidence.expires

\* Time alone takes validity away only as the caller asks: by the maximum age of a bundle
\* or by the expiration of evidence.
StaysValidUntilTooOld ==
    bundle # None /\ Tick /\ State(Verdict0) = "VALID" /\ ~TooOld(bundle.payload, now') => State(Verdict0') = "VALID"
VerdictAgesAsAsked == [][StaysValidUntilTooOld]_vars

Rank == [s \in States |-> CASE s = "VALID" -> 3 [] s = "UNVERIFIABLE" -> 2 [] OTHER -> 1]

\* Revoking a key never makes a bundle look better.
CondemnedLooksNoBetter ==
    bundle # None /\ (\E k \in Keys : Condemn(k)) => Rank[State(Verdict0')] <= Rank[State(Verdict0)]
CondemnNeverHelps == [][CondemnedLooksNoBetter]_vars

\* Learning of another key takes no validity away.
LearntStaysValid ==
    bundle # None /\ (\E k \in Keys, r \in Held : Learn(k, r)) /\ State(Verdict0) = "VALID" => State(Verdict0') = "VALID"
LearningKeepsValid == [][LearntStaysValid]_vars

\* What sealBundle returns is found whole by whoever holds a record of the signer's key
\* that covers the time it states, whatever the signer may have returned.
SealedIsWhole ==
    bundle' # bundle =>
        LET p == bundle'.payload
            sig == bundle'.sigs[1]
        IN  \A k \in Signers :
                Seal(k, p, sig) /\ trust[k] # None /\ Live(trust, k, p.created, now) = "VALID"
                    /\ policy.minimum = 1 /\ policy.required \subseteq {k}
                => Integrity(Verdict0') = "VALID"
SealVerifies == [][SealedIsWhole]_vars

\* verifyBundle's verdict at any time is covered by signatures that were made, the seal's
\* by the seal's and a record's by the record's.
VerdictIsBacked == TypeOK /\ ValidIsSound /\ WitnessIsBacked /\ IntegrityIsTheSeals

\* How a verdict moves while the bundle stays what it is: what sealBundle has sealed is
\* whole and stays so as it ages, a verdict ages only by what the caller asks for, a
\* condemned key makes none better, and one more key known takes no validity away.
VerdictFollowsTrust ==
    SealDoesNotAge /\ VerdictAgesAsAsked /\ CondemnNeverHelps /\ LearningKeepsValid /\ SealVerifies
=============================================================================
