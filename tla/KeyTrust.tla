------------------------------ MODULE KeyTrust ------------------------------
(***************************************************************************)
(* Trust in signing keys as the evidence package judges it                 *)
(* (src/packages/agent-evidence/src/trust.ts, registry.ts and              *)
(* attestationV2.ts): which key records are accepted, what a key's         *)
(* lifecycle says of a signature made at some time, and how a published    *)
(* registry becomes trust.                                                 *)
(*                                                                         *)
(* A record is [key, status, from, until, changed, compromised,            *)
(* replacement]; None stands for null.  Timestamps are points in time.     *)
(***************************************************************************)
EXTENDS Naturals

CONSTANTS
    Keys,       \* Ed25519 keys; a key_id is derived from its key
    Times,      \* points in time
    Skew,       \* TrustPolicy.maxFutureSkewMs
    None        \* null

ASSUME TimeAssumption == Times \subseteq Nat /\ Skew \in Nat
ASSUME NoneAssumption == None \notin Times \union Keys

Statuses == {"active", "retired", "revoked", "compromised"}
States == {"VALID", "INVALID", "UNVERIFIABLE"}
Condemned(r) == r.status \in {"revoked", "compromised"}

OptionalTimes == Times \union {None}

Records == [key : Keys, status : Statuses, from : OptionalTimes, until : OptionalTimes,
            changed : OptionalTimes, compromised : OptionalTimes,
            replacement : Keys \union {None}]

ASSUME RecordAssumption == None \notin Records

InOrder(earlier, later) == earlier # None /\ later # None => earlier <= later

----------------------------------------------------------------------------
(* AttestationKey.fromRecord and TrustPolicy.fromKeyRecords.               *)

\* attestation-key.schema.json: what each status requires.
MeetsSchema(r) ==
    /\ r.status = "active" => r.until = None
    /\ r.status = "retired" => r.until # None /\ r.changed # None
    /\ r.status = "compromised" => r.compromised # None /\ r.changed # None
    /\ r.status = "revoked" => r.changed # None

RecordAccepted(r) ==
    /\ MeetsSchema(r)
    /\ InOrder(r.from, r.until) /\ InOrder(r.from, r.changed) /\ InOrder(r.from, r.compromised)
    /\ r.replacement # r.key

\* One record that is refused refuses them all: fromKeyRecords throws.
PolicyAccepted(rs) ==
    /\ \A r \in rs : RecordAccepted(r) /\ r.replacement \in {q.key : q \in rs} \union {None}
    /\ \A r, q \in rs : r.key = q.key => r = q

----------------------------------------------------------------------------
(* evaluateKeyLifecycle: the state of a signature made at signedAt (None   *)
(* for a proof without a signed time), judged at now.                      *)

\* Mutant: the end of a key's interval is exclusive.
Lifecycle_exclusive(r, signedAt, now) ==
    IF Condemned(r) THEN "INVALID"
    ELSE IF r.from = None THEN "UNVERIFIABLE"
    ELSE IF signedAt = None THEN "VALID"
    ELSE IF signedAt > now + Skew \/ signedAt < r.from THEN "INVALID"
    ELSE IF r.until # None /\ signedAt >= r.until THEN "INVALID"
    ELSE "VALID"

Lifecycle(r, signedAt, now) ==
    IF Condemned(r) THEN "INVALID"
    ELSE IF r.from = None THEN "UNVERIFIABLE"
    ELSE IF signedAt = None
    THEN IF r.status = "retired" THEN "UNVERIFIABLE" ELSE IF now < r.from THEN "INVALID" ELSE "VALID"
    ELSE IF signedAt > now + Skew \/ signedAt < r.from THEN "INVALID"
    ELSE IF r.until # None /\ signedAt > r.until THEN "INVALID"
    ELSE "VALID"

----------------------------------------------------------------------------
(* verifyAttestationV2: an attestation is [key, at, purpose, genuine];     *)
(* genuine is what the Ed25519 verification finds.                         *)

\* Mutant: a key that is not trusted is taken for tampering.
UnknownKey_invalid == "INVALID"

UnknownKey == "UNVERIFIABLE"

Verdict(rs, a, purpose, now) ==
    IF a.purpose # purpose THEN "INVALID"
    ELSE IF ~PolicyAccepted(rs) \/ a.key \notin {r.key : r \in rs} THEN UnknownKey
    ELSE IF ~a.genuine THEN "INVALID"
    ELSE Lifecycle(CHOOSE r \in rs : r.key = a.key, a.at, now)

----------------------------------------------------------------------------
(* The interoperability registry (registry.ts).  An entry is               *)
(* [key, status, from, until, revoked].                                    *)

EntryAccepted(e) == Condemned(e) => e.revoked # None

\* Mutant: a bounded active key keeps its status.
ToRecord_active(e) ==
    [key |-> e.key, status |-> e.status, from |-> e.from, until |-> e.until,
     changed |-> IF Condemned(e) THEN e.revoked ELSE e.from,
     compromised |-> IF e.status = "compromised" THEN e.revoked ELSE None,
     replacement |-> None]

\* toAttestationKeyRecord.
ToRecord(e) ==
    [key |-> e.key,
     status |-> IF e.status = "active" /\ e.until # None THEN "retired" ELSE e.status,
     from |-> e.from, until |-> e.until,
     changed |-> IF Condemned(e) THEN e.revoked ELSE e.from,
     compromised |-> IF e.status = "compromised" THEN e.revoked ELSE None,
     replacement |-> None]

\* trustPolicyFromKeyRegistry; a registry that is refused leaves the caller with no keys.
ProfileVerdict(es, a, purpose, now) ==
    IF \A e \in es : EntryAccepted(e) THEN Verdict({ToRecord(e) : e \in es}, a, purpose, now)
    ELSE Verdict({}, a, purpose, now)
=============================================================================
