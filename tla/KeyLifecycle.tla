---------------------------- MODULE KeyLifecycle ----------------------------
(***************************************************************************)
(* The service's attestation key over time: the deployments that rotate    *)
(* and condemn it (src/docs/ATTESTATION_KEY_ROTATION.md), the registry the *)
(* service validates and publishes (src/src/attestationKeyHistory.ts,      *)
(* attestation.ts, server.ts), the attestations it signs, and those who    *)
(* verify them: /anchor, and verifiers with a copy of the registry that    *)
(* may be old (KeyTrust).                                                  *)
(*                                                                         *)
(* What an operator may write into the history is the environment: a       *)
(* correct record of the key it replaces, or one with a mistake.           *)
(***************************************************************************)
EXTENDS KeyTrust

CONSTANTS
    LastTime,        \* the end of the run (a bound of the model)
    FirstKey        \* the key of the first deployment

ASSUME DeploymentAssumption == LastTime \in Nat /\ Times = 0 .. LastTime /\ FirstKey \in Keys

VARIABLES
    clock,
    proc,       \* the deployment: its key, ATTESTATION_KEY_ACTIVATED_AT, whether it started
    history,    \* HISTORICAL_ATTESTATION_KEYS
    sample,     \* one attestation that was issued, whichever; None before
    held        \* a verifier's copy of the registry

keyVars == <<clock, proc, history, sample, held>>

Purposes == {"compliance-screening-result", "public-action-receipt"}
Attestations == [key : Keys, at : Times, purpose : Purposes, genuine : BOOLEAN]

----------------------------------------------------------------------------
(* The registry: getAttestationKeyRecords, validateAttestationKeyRegistry. *)

ActiveRecord(key, activation) ==
    [key |-> key, status |-> "active", from |-> activation, until |-> None,
     changed |-> activation, compromised |-> None, replacement |-> None]

\* Mutant: a retired record may be incomplete.
Complete_open(r) ==
    /\ r.status = "active" => r.until = None
    /\ r.status = "compromised" => r.compromised # None /\ r.changed # None
    /\ r.status = "revoked" => r.changed # None

Complete(r) ==
    /\ r.status = "active" => r.until = None
    /\ r.status = "retired" => r.until # None /\ r.changed # None
    /\ r.status = "compromised" => r.compromised # None /\ r.changed # None
    /\ r.status = "revoked" => r.changed # None

Unique(rs) == \A r, q \in rs : r.key = q.key => r = q

Validates(rs) ==
    /\ Unique(rs)
    /\ \A r \in rs :
        /\ InOrder(r.from, r.until)
        /\ Complete(r)
        /\ r.replacement # r.key
        /\ r.replacement = None \/ \E q \in rs : q.key = r.replacement
    /\ \A r, q \in rs : r.status = "active" /\ q.status = "active" => r = q

\* Mutant: a key may be active and in the history at once.
Starts_duplicate(key, activation, hist) ==
    \A r \in hist \union {ActiveRecord(key, activation)} : InOrder(r.from, r.until) /\ Complete(r)

\* server.ts calls getAttestationKeyRecords when it is loaded.
Starts(key, activation, hist) ==
    /\ \A r \in hist : r.key # key
    /\ Validates(hist \union {ActiveRecord(key, activation)})

\* GET /.well-known/attestation-keys
Published == history \union {ActiveRecord(proc.key, proc.activation)}

----------------------------------------------------------------------------
(* Deployments.                                                            *)

Retired(old, from, until, next) ==
    [ActiveRecord(old, from) EXCEPT !.status = "retired", !.until = until, !.changed = until,
                                    !.replacement = next]
Revoked(old, from) == [ActiveRecord(old, from) EXCEPT !.status = "revoked", !.changed = clock]
Compromised(old, from, since) ==
    [ActiveRecord(old, from) EXCEPT !.status = "compromised", !.changed = clock, !.compromised = since]

\* What the operator writes about the key it replaces: an end of its interval
\* not before the deployment, a condemnation as of now, or a slip.
Notes(next, activation) ==
    {Retired(proc.key, proc.activation, t, next) : t \in clock .. activation}
    \union {Revoked(proc.key, proc.activation)}
    \union {Compromised(proc.key, proc.activation, t) : t \in 0 .. clock}
    \union {[Retired(proc.key, proc.activation, clock, next) EXCEPT !.until = None],
            Retired(proc.key, proc.activation, clock, proc.key)}

Deploy(key, activation, hist) ==
    IF Starts(key, activation, hist)
    THEN /\ proc' = [key |-> key, activation |-> activation, up |-> TRUE]
         /\ history' = hist
    ELSE proc' = [proc EXCEPT !.up = FALSE] /\ UNCHANGED history

\* A new key, to sign from its activation on, and the old one's record.
Rotate ==
    /\ \E key \in Keys, activation \in {t \in Times : t >= clock} :
        /\ key # proc.key /\ \A r \in history : r.key # key
        /\ \E note \in Notes(key, activation) : Deploy(key, activation, history \union {note})
    /\ UNCHANGED <<clock, sample, held>>

\* "Commit and deploy this history before changing the production key."
HistoryFirst ==
    /\ \E t \in clock .. LastTime :
        Deploy(proc.key, proc.activation,
               history \union {Retired(proc.key, proc.activation, t, None)})
    /\ UNCHANGED <<clock, sample, held>>

\* A key in the history turns out to be compromised.
CondemnRetired ==
    /\ \E r \in history, t \in 0 .. clock :
        /\ r.status = "retired"
        /\ Deploy(proc.key, proc.activation,
                  (history \ {r}) \union {[Compromised(r.key, r.from, t) EXCEPT !.replacement = r.replacement]})
    /\ UNCHANGED <<clock, sample, held>>

----------------------------------------------------------------------------
(* Signing: attestationSigningReady and attest.                            *)

Ready == proc.activation # None /\ clock >= proc.activation

Attest(purpose) ==
    /\ proc.up /\ Ready
    /\ sample = None
    /\ sample' = [key |-> proc.key, at |-> clock, purpose |-> purpose, genuine |-> TRUE]
    /\ UNCHANGED <<clock, proc, history, held>>

----------------------------------------------------------------------------
(* Verification.                                                           *)

\* Mutant: only the two condemned states are refused.
Anchorable_unbounded(a) ==
    /\ a.purpose = "compliance-screening-result"
    /\ \E r \in Published : r.key = a.key /\ ~Condemned(r) /\ r.from # None
    /\ a.genuine

\* verifyAttestationForAnchoring: what /anchor accepts before payment.
Anchorable(a) ==
    /\ a.purpose = "compliance-screening-result"
    /\ \E r \in Published :
        /\ r.key = a.key /\ ~Condemned(r)
        /\ r.from # None
        /\ r.status = "retired" => r.until # None
        /\ r.from <= a.at /\ (r.until # None => a.at <= r.until)
    /\ a.genuine

Fetch ==
    /\ proc.up
    /\ held' = Published
    /\ UNCHANGED <<clock, proc, history, sample>>

KeyTick ==
    /\ clock < LastTime
    /\ clock' = clock + 1
    /\ UNCHANGED <<proc, history, sample, held>>

\* The key of the first deployment may have no known activation: it does not sign.
KeyInit ==
    /\ clock = 0
    /\ proc \in [key : {FirstKey}, activation : {0, None}, up : {TRUE}]
    /\ history = {}
    /\ sample = None
    /\ held = {}

KeyNext == Rotate \/ HistoryFirst \/ CondemnRetired \/ Fetch \/ KeyTick \/ \E p \in Purposes : Attest(p)

KeySpec == KeyInit /\ [][KeyNext]_keyVars

----------------------------------------------------------------------------
(* Properties.                                                             *)

\* The state stays within its types, and the registry has one record per key.
KeyTypeOK ==
    /\ clock \in Times
    /\ proc \in [key : Keys, activation : OptionalTimes, up : BOOLEAN]
    /\ history \in SUBSET Records
    /\ sample = None \/ sample \in Attestations
    /\ held \in SUBSET Records
    /\ Unique(Published)

\* An attestation stays good: whatever rotations follow, the registry published
\* at any later time proves it VALID, on a clock that is late by no more than
\* the tolerated skew, unless its own key has been condemned (attest and
\* getAttestationKeyRecords against evaluateKeyLifecycle).
AttestationsVerify ==
    sample # None /\ proc.up /\ PolicyAccepted(Published) =>
        \A late \in 0 .. Skew : late <= clock =>
            Verdict(Published, sample, sample.purpose, clock - late) =
                IF \E r \in Published : r.key = sample.key /\ Condemned(r) THEN "INVALID"
                ELSE "VALID"

\* A copy of the registry that is out of date may not know a key, and may not
\* know it is condemned, but it never turns a genuine attestation INVALID.
OldCopiesAreKind ==
    sample # None => \/ Verdict(held, sample, sample.purpose, clock) # "INVALID"
                     \/ \E r \in held : r.key = sample.key /\ Condemned(r)

\* The two verifiers, written apart (attestation.ts and trust.ts), agree: /anchor
\* takes an attestation that claims a time not in the future if and only if a
\* verifier with the published registry finds it VALID.
VerifiersAgree ==
    proc.up /\ PolicyAccepted(Published) =>
        \A a \in Attestations : a.at <= clock =>
            (Anchorable(a) <=> Verdict(Published, a, "compliance-screening-result", clock) = "VALID")

\* A record that says its key was condemned, or already compromised, before it became
\* active (a conservative estimate of when the compromise began may be that early).
CondemnedEarly(r) == Condemned(r) /\ ~(InOrder(r.from, r.changed) /\ InOrder(r.from, r.compromised))

\* Two validators, written apart, judge the registry: the service's own lets it start,
\* and TrustPolicy accepts it or throws.  They differ in one thing only: a registry with
\* a key condemned early is served, and refused as a whole by those who verify, so that
\* nothing that any key signed is VALID for them.  No retirement or slip that starts,
\* and no other condemnation, does that.
PublishedIsTrusted ==
    proc.up => (PolicyAccepted(Published) <=> ~\E r \in Published : CondemnedEarly(r))

\* The registry in the format of the interoperability profile (external: an
\* issuer that publishes these records in it).  There "active" may just mean
\* not revoked, so a retired key is reported as either.
Profile(ended) ==
    {[key |-> r.key, status |-> IF r.status = "retired" THEN ended ELSE r.status,
      from |-> r.from, until |-> r.until,
      revoked |-> IF Condemned(r) THEN r.changed ELSE None] : r \in Published}

AgreesOn(key, at) ==
    LET a == [key |-> key, at |-> at, purpose |-> "public-action-receipt", genuine |-> TRUE] IN
    \A ended \in {"active", "retired"} :
        ProfileVerdict(Profile(ended), a, a.purpose, clock) = Verdict(Published, a, a.purpose, clock)

\* "This function adds no new trust semantics" (registry.ts:127): a registry in
\* the profile's format gives every attestation the verdict of the records, when no
\* key was condemned early and every retired key's activation is known (without it the profile's record has no
\* status_changed_at and trustPolicyFromKeyRegistry refuses the registry).
ProfileAgreesWhenBounded ==
    /\ proc.up
    /\ \A r \in Published : ~CondemnedEarly(r) /\ (r.status = "retired" => r.from # None)
    => \A key \in Keys, at \in Times : AgreesOn(key, at)

\* After any deployments, each correct or with a slip that starts, the registry that is
\* served can be used unless a key in it was condemned early, and then by nobody
\* (getAttestationKeyRecords against AttestationKey.fromRecord).
UsableUnlessCondemnedEarly == KeyTypeOK /\ PublishedIsTrusted /\ ProfileAgreesWhenBounded

\* What was signed stands, for whoever fetched the registry and whenever (attest,
\* evaluateKeyLifecycle).
AttestationsStand == AttestationsVerify /\ OldCopiesAreKind
=============================================================================
