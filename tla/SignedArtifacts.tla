--------------------------- MODULE SignedArtifacts ---------------------------
(***************************************************************************)
(* Payment claims and public receipts between those who issue them and     *)
(* those who verify them offline                                           *)
(* (src/packages/agent-evidence/src/paymentClaims.ts and receipts.ts).     *)
(* One artifact is passed on: made by the helpers and signed by a callback *)
(* that may name the wrong key, altered, or given the signature of         *)
(* something else that was signed.                                         *)
(*                                                                         *)
(* A claim is [issuer, content, at], a receipt's core its content; hashes  *)
(* are the content they are of.                                            *)
(* Spec and its kin say Artifact: MCArtifacts extends BundleVerifier too.  *)
(***************************************************************************)
EXTENDS ArtifactProofs, FiniteSets

CONSTANTS
    Issuers,        \* HTTPS origins that issue claims
    Statements,     \* what a claim or a receipt states
    Expected,       \* the issuer the caller pins, or None
    Makers,         \* keys that sign artifacts
    Contracts,      \* purposes and payload types a key signs for
    MaxTime, MaxSignedArtifacts, MaxAltered   \* bounds of the model

ASSUME ContractAssumption == Makers \subseteq Keys /\ {"claim", "receipt"} \subseteq Contracts
ASSUME BoundAssumption ==
    /\ MaxTime \in Nat \ {0} /\ 1 .. MaxTime \subseteq Times /\ {MaxSignedArtifacts, MaxAltered} \subseteq Nat
    /\ Expected \in Issuers \union {None}

VARIABLES
    made,       \* <<key, message>> for every signature that was made
    artifact,   \* the claim envelope or receipt envelope at hand, None before
    trusted,    \* the caller's record of each key, None for keys it does not trust
    bound,      \* <<issuer, key>> the caller binds (paymentClaimIssuerKeyIds)
    time,
    altered     \* how often the artifact was altered (a bound of the model)

artifactVars == <<made, artifact, trusted, bound, time, altered>>

Claims == [issuer : Issuers, content : Statements, at : 1 .. MaxTime]

VerdictOf(a) ==
    IF a.kind = "claim" THEN ClaimVerdict(a, Expected, trusted, bound, time) ELSE ReceiptVerdict(a, trusted, time)

----------------------------------------------------------------------------
(* Issuing.                                                                *)

Signs(k, message) ==
    Cardinality(made \union {<<k, message>>}) <= MaxSignedArtifacts /\ made' = made \union {<<k, message>>}

By(label, k, message) == [key |-> label, by |-> k, over |-> message, encoded |-> TRUE]

\* Mutant: the id is given to the claim before its issuance time is.
IssueClaim_early(k, label, claim) ==
    /\ claim.at = time /\ Signs(k, Message("claim", claim))
    /\ artifact' = [kind |-> "claim", wellFormed |-> TRUE, claim |-> claim, id |-> [claim EXCEPT !.at = 0],
                    sigs |-> <<By(label, k, Message("claim", claim))>>]
    /\ UNCHANGED <<trusted, bound, time, altered>>

\* createSignedPaymentClaim and signSignedPaymentClaim: the signer's key_id is taken as
\* it is given and what it returns is not verified (sealBundle does both).
IssueClaim(k, label, claim) ==
    /\ claim.at = time /\ Signs(k, Message("claim", claim))
    /\ artifact' = [kind |-> "claim", wellFormed |-> TRUE, claim |-> claim, id |-> claim,
                    sigs |-> <<By(label, k, Message("claim", claim))>>]
    /\ UNCHANGED <<trusted, bound, time, altered>>

\* buildReceiptCore, finalizeReceiptCore and a signer of receiptAttestationSigningInput.
IssueReceipt(k, core) ==
    LET message == Message("receipt", [core |-> core, digest |-> core, at |-> time]) IN
    /\ Signs(k, message)
    /\ artifact' = [kind |-> "receipt", core |-> core, digest |-> core, id |-> core, at |-> time,
                    purpose |-> "receipt", proof |-> By(k, k, message)]
    /\ UNCHANGED <<trusted, bound, time, altered>>

\* The same keys sign the same content under other contracts, and receipts whose digest
\* is not their core's.
SignOther(k, contract, content) ==
    /\ \/ contract # "claim" /\ \E digest \in Statements :
            /\ (contract = "receipt") = (digest # content)
            /\ Signs(k, Message(contract, [core |-> content, digest |-> digest, at |-> time]))
       \/ contract # "receipt" /\ contract # "claim" /\ \E issuer \in Issuers :
            Signs(k, Message(contract, [issuer |-> issuer, content |-> content, at |-> time]))
    /\ UNCHANGED <<artifact, trusted, bound, time, altered>>

----------------------------------------------------------------------------
(* What becomes of an artifact on its way.                                 *)

AlteredClaims(a) ==
    {[a EXCEPT !.claim = c] : c \in Claims} \union {[a EXCEPT !.claim = c, !.id = c] : c \in Claims}
    \union {[a EXCEPT !.sigs[1].key = k] : k \in Makers} \union {[a EXCEPT !.sigs[1].encoded = FALSE]}
    \union {[a EXCEPT !.sigs = <<By(s[1], s[1], s[2])>>] : s \in made}
    \union {[a EXCEPT !.sigs = Append(<<a.sigs[1]>>, By(s[1], s[1], s[2]))] : s \in made}
    \union {[a EXCEPT !.wellFormed = FALSE]}

AlteredReceipts(a) ==
    {[a EXCEPT !.core = c] : c \in Statements} \union {[a EXCEPT !.core = c, !.digest = c, !.id = c] : c \in Statements}
    \union {[a EXCEPT !.purpose = p] : p \in Contracts} \union {[a EXCEPT !.at = t] : t \in 1 .. MaxTime}
    \union {[a EXCEPT !.proof.key = k] : k \in Makers}
    \union {[a EXCEPT !.proof = By(s[1], s[1], s[2])] : s \in made}

Alter ==
    /\ artifact # None /\ altered < MaxAltered /\ altered' = altered + 1
    /\ artifact' \in (IF artifact.kind = "claim" THEN AlteredClaims(artifact) ELSE AlteredReceipts(artifact))
    /\ UNCHANGED <<made, trusted, bound, time>>

----------------------------------------------------------------------------
(* The verifier's trust, and time.                                         *)

Active(k) == [key |-> k, status |-> "active", from |-> 1, until |-> None, changed |-> 1,
              compromised |-> None, replacement |-> None]

ArtifactLearn(k) ==
    /\ trusted[k] = None /\ trusted' = [trusted EXCEPT ![k] = Active(k)]
    /\ UNCHANGED <<made, artifact, bound, time, altered>>

Retire(k) ==
    /\ trusted[k] # None /\ trusted[k].status = "active"
    /\ trusted' = [trusted EXCEPT ![k].status = "retired", ![k].until = time, ![k].changed = time]
    /\ UNCHANGED <<made, artifact, bound, time, altered>>

ArtifactCondemn(k) ==
    /\ trusted[k] # None /\ trusted[k].status = "active"
    /\ trusted' = [trusted EXCEPT ![k].status = "revoked"]
    /\ UNCHANGED <<made, artifact, bound, time, altered>>

\* Mutant: the keys of a binding need not be in the caller's trust.
Bind_unknown(issuer, k) ==
    /\ bound' = bound \union {<<issuer, k>>}
    /\ UNCHANGED <<made, artifact, trusted, time, altered>>

\* Only keys in the caller's trust can be bound (TrustPolicy); here each to one issuer.
Bind(issuer, k) ==
    /\ trusted[k] # None /\ \A b \in bound : b[2] # k
    /\ bound' = bound \union {<<issuer, k>>}
    /\ UNCHANGED <<made, artifact, trusted, time, altered>>

ArtifactTick == time < MaxTime /\ time' = time + 1 /\ UNCHANGED <<made, artifact, trusted, bound, altered>>

ArtifactInit == made = {} /\ artifact = None /\ trusted = [k \in Keys |-> None] /\ bound = {} /\ time = 1 /\ altered = 0

ArtifactNext ==
    \/ \E k, label \in Makers, c \in Claims : IssueClaim(k, label, c)
    \/ \E k \in Makers, c \in Statements : IssueReceipt(k, c)
    \/ \E k \in Makers, p \in Contracts, c \in Statements : SignOther(k, p, c)
    \/ Alter \/ ArtifactTick
    \/ \E k \in Makers : ArtifactLearn(k) \/ Retire(k) \/ ArtifactCondemn(k)
    \/ \E i \in Issuers, k \in Makers : Bind(i, k)

ArtifactSpec == ArtifactInit /\ [][ArtifactNext]_artifactVars

----------------------------------------------------------------------------
(* Properties.                                                             *)

ArtifactInForce(k) == trusted[k] # None /\ ~Condemned(trusted[k])

ArtifactTypeOK ==
    /\ Cardinality(made) <= MaxSignedArtifacts /\ \A s \in made : s[1] \in Makers /\ s[2].contract \in Contracts
    /\ artifact # None => artifact.kind \in {"claim", "receipt"}
    /\ \A k \in Keys : trusted[k] # None => trusted[k].key = k /\ RecordAccepted(trusted[k])
    /\ \A b \in bound : b[1] \in Issuers /\ trusted[b[2]] # None
    /\ time \in 1 .. MaxTime

\* A claim is valid only if a key in force that the caller binds to its issuer signed
\* exactly it, as a claim; a key of one issuer never speaks for another, whatever keys
\* are trusted for (docs/SIGNED_PAYMENT_CLAIM_V1.md:15).
OnlyItsIssuerSpeaks ==
    artifact # None /\ artifact.kind = "claim" /\ VerdictOf(artifact) = "VALID" =>
        /\ \E k \in Keys : /\ ArtifactInForce(k) /\ <<artifact.claim.issuer, k>> \in bound
                           /\ <<k, Message("claim", artifact.claim)>> \in made
        /\ artifact.id = artifact.claim /\ Expected \in {None, artifact.claim.issuer}

\* A receipt is valid only if a key in force signed exactly its core, as a receipt and
\* under the digest and id of that core; nothing signed for another purpose passes.
ReceiptIsWhatWasSigned ==
    artifact # None /\ artifact.kind = "receipt" /\ VerdictOf(artifact) = "VALID" =>
        /\ \E k \in Keys : ArtifactInForce(k) /\ <<k, Message("receipt",
                [core |-> artifact.core, digest |-> artifact.core, at |-> artifact.at])>> \in made
        /\ artifact.id = artifact.core

\* What a step may have issued.
Issued(kind) ==
    IF artifact' = None \/ artifact'.kind # kind THEN {}
    ELSE {IF kind = "claim" THEN artifact'.claim ELSE artifact'.core}

\* What the helpers issue is valid at once for a caller that holds and binds the key,
\* if the signer names it right.
IssuedIsValid ==
    /\ \A k \in Makers, c \in Issued("claim") :
        IssueClaim(k, k, c) /\ trusted[k] # None /\ trusted[k].status = "active" /\ <<c.issuer, k>> \in bound
            /\ Expected \in {None, c.issuer}
        => VerdictOf(artifact)' = "VALID"
    /\ \A k \in Makers, c \in Issued("receipt") :
        IssueReceipt(k, c) /\ trusted[k] # None /\ trusted[k].status = "active" => VerdictOf(artifact)' = "VALID"
IssuedVerifies == [][IssuedIsValid]_artifactVars

Stated(a) == IF a.kind = "claim" THEN a.claim.at ELSE a.at

\* A valid artifact, unless it is dated ahead, stays valid as time passes and its keys
\* are retired: only a revocation takes its validity away.
ValidStaysValid ==
    artifact # None /\ artifact' = artifact /\ VerdictOf(artifact) = "VALID" /\ Stated(artifact) <= time
    => VerdictOf(artifact)' = "VALID" \/ \E k \in Makers : ArtifactCondemn(k)
OnlyRevocationUndoes == [][ValidStaysValid]_artifactVars

\* Whatever is altered or passed off, a valid artifact is one its signer made as such
\* (verifySignedPaymentClaim, verifyReceipt).
ArtifactIsSpoken == ArtifactTypeOK /\ OnlyItsIssuerSpeaks /\ ReceiptIsWhatWasSigned

\* What is issued is valid from the start until its key is revoked.
ArtifactLasts == IssuedVerifies /\ OnlyRevocationUndoes
=============================================================================
