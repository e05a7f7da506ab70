--------------------------- MODULE ArtifactProofs ---------------------------
(***************************************************************************)
(* What the verifier makes of one record's own proofs                      *)
(* (src/packages/agent-evidence/src/verifier.ts, receipts.ts and           *)
(* paymentClaims.ts): source attestations, DSSE source signatures, public  *)
(* receipts, payment claims and the trust mode they are to back.           *)
(*                                                                         *)
(* A signature is [key, by, over, encoded]: under the key_id it bears it   *)
(* verifies only if that key made it, for the message it was made over,    *)
(* provided its text decodes.  A result is [component, state, record,      *)
(* required]; codes and wording are left out.                              *)
(* An evidence record is [id, mode, embedded, family, proof, sigs, at,     *)
(* fits, ours, claim, receipt, observed, expires]: a statement, named by   *)
(* its id, with at most one proof.  fits: the source, the media types and  *)
(* the embedded response are those the proof speaks of.  ours: a v2        *)
(* attestation states OnChainDiligence as its issuer and a purpose of the  *)
(* allowlist.                                                              *)
(***************************************************************************)
EXTENDS KeyTrust, Sequences

Cryptographic == {"attestation-v1", "attestation-v2", "dsse"}

\* trust: the caller's key record of each key, None for a key it does not trust.
Live(trust, key, at, now) == Lifecycle(trust[key], at, now)
Decodes(sig) == sig.encoded
VerifiesOver(sig, message) == Decodes(sig) /\ sig.by = sig.key /\ sig.over = message
Repeated(sigs, i) == \E j \in 1 .. i - 1 : sigs[j].key = sigs[i].key

Result(component, state, record) ==
    [component |-> component, state |-> state, record |-> record, required |-> TRUE]

\* overallState.
Overall(results) ==
    LET states == {r.state : r \in {q \in results : q.required}}
    IN  IF "INVALID" \in states THEN "INVALID"
        ELSE IF "UNVERIFIABLE" \in states THEN "UNVERIFIABLE" ELSE "VALID"

----------------------------------------------------------------------------
(* verifySignatureSet: source signatures carry no signing time.            *)

SignatureState(sigs, i, message, trust, now) ==
    IF Repeated(sigs, i) THEN "INVALID"
    ELSE IF trust[sigs[i].key] = None THEN "UNVERIFIABLE"
    ELSE IF ~VerifiesOver(sigs[i], message) THEN "INVALID"
    ELSE Live(trust, sigs[i].key, None, now)

SignatureSet(sigs, message, trust, now) ==
    LET states == {SignatureState(sigs, i, message, trust, now) : i \in DOMAIN sigs}
    IN  states \union (IF "VALID" \in states THEN {} ELSE {"UNVERIFIABLE"})

----------------------------------------------------------------------------
(* verifyAttestationProof; the signer is the first signature's key.        *)

\* Mutant: a trusted key may attest in any issuer's name.
AttestationProof_anyIssuer(e, trust, now) ==
    LET sig == e.sigs[1] IN
    IF trust[sig.key] = None THEN "UNVERIFIABLE"
    ELSE IF ~Decodes(sig) THEN "INVALID"
    ELSE IF ~VerifiesOver(sig, e.id) THEN IF e.proof = "attestation-v1" THEN "UNVERIFIABLE" ELSE "INVALID"
    ELSE Live(trust, sig.key, e.at, now)

AttestationProof(e, trust, now) ==
    LET sig == e.sigs[1] IN
    IF trust[sig.key] = None THEN "UNVERIFIABLE"
    ELSE IF ~Decodes(sig) \/ (e.proof = "attestation-v2" /\ ~e.ours) THEN "INVALID"
    ELSE IF ~VerifiesOver(sig, e.id) THEN IF e.proof = "attestation-v1" THEN "UNVERIFIABLE" ELSE "INVALID"
    ELSE Live(trust, sig.key, e.at, now)

----------------------------------------------------------------------------
(* verifySignedPaymentClaim on an envelope [wellFormed, sigs, claim, id]:  *)
(* id is the content that claim_id is the hash of.  What is signed states  *)
(* its contract, a payload type or a purpose, with its content.            *)

Message(contract, content) == [contract |-> contract, content |-> content]

Acceptable(c, expected) == c.wellFormed /\ Len(c.sigs) = 1 /\ expected \in {None, c.claim.issuer}

\* Mutant: a trusted key may sign for any issuer.
ClaimVerdict_anyIssuer(c, expected, trust, bound, now) ==
    LET sig == c.sigs[1] IN
    IF ~Acceptable(c, expected) \/ c.id # c.claim THEN "INVALID"
    ELSE IF trust[sig.key] = None THEN "UNVERIFIABLE"
    ELSE IF ~VerifiesOver(sig, Message("claim", c.claim)) THEN "INVALID"
    ELSE Live(trust, sig.key, c.claim.at, now)

ClaimVerdict(c, expected, trust, bound, now) ==
    LET sig == c.sigs[1] IN
    IF ~Acceptable(c, expected) \/ c.id # c.claim THEN "INVALID"
    ELSE IF trust[sig.key] = None \/ <<c.claim.issuer, sig.key>> \notin bound THEN "UNVERIFIABLE"
    ELSE IF ~VerifiesOver(sig, Message("claim", c.claim)) THEN "INVALID"
    ELSE Live(trust, sig.key, c.claim.at, now)

\* Mutant: the digest is taken over as the receipt states it.
ReceiptVerdict_stated(r, trust, now) ==
    IF r.purpose # "receipt" THEN "INVALID"
    ELSE IF trust[r.proof.key] = None THEN "UNVERIFIABLE"
    ELSE IF ~(r.proof.encoded /\ r.proof.by = r.proof.key /\ r.proof.over.contract = r.purpose
              /\ r.proof.over.content.digest = r.digest) THEN "INVALID"
    ELSE Live(trust, r.proof.key, r.at, now)

\* verifyReceiptEnvelope on [core, digest, id, at, purpose, proof]: the digest and the
\* id are computed from the core alone, the proof is over all three.
ReceiptVerdict(r, trust, now) ==
    IF r.digest # r.core \/ r.id # r.core \/ r.purpose # "receipt" THEN "INVALID"
    ELSE IF trust[r.proof.key] = None THEN "UNVERIFIABLE"
    ELSE IF ~VerifiesOver(r.proof, Message(r.purpose, [core |-> r.core, digest |-> r.digest, at |-> r.at])) THEN "INVALID"
    ELSE Live(trust, r.proof.key, r.at, now)

----------------------------------------------------------------------------
(* verifyRecordProofs, verifyEvidenceSemantics and verifyArtifactFamilies. *)

ProofStates(e, trust, bound, now) ==
    CASE e.proof = "none" -> {}
      [] e.proof = "digest" -> {"VALID"}
      [] e.proof \in {"attestation-v1", "attestation-v2"} ->
            {IF e.embedded /\ e.fits THEN AttestationProof(e, trust, now) ELSE "INVALID"}
      [] e.proof = "dsse" /\ e.family = "claim" ->
            {IF ~e.embedded THEN "UNVERIFIABLE"
             ELSE IF ~e.fits THEN "INVALID" ELSE ClaimVerdict(e.claim, None, trust, bound, now)}
      [] OTHER -> IF e.fits THEN SignatureSet(e.sigs, e.id, trust, now) ELSE {"INVALID"}

ReceiptStates(e, trust, now) ==
    IF e.family # "receipt" THEN {}
    ELSE {IF e.embedded THEN ReceiptVerdict(e.receipt, trust, now) ELSE "UNVERIFIABLE"}

RecordProofs(e, trust, bound, now) ==
    {Result("source-proof", s, e.id) : s \in ProofStates(e, trust, bound, now) \union ReceiptStates(e, trust, now)}

\* Mutant: any proof will do for a statement that claims more than an assertion.
TrustMode_anyProof(e, proofs) ==
    IF e.mode = "agent-assertion" THEN "VALID"
    ELSE IF e.proof = "none" THEN "INVALID" ELSE Overall(proofs)

TrustMode(e, proofs) ==
    IF e.mode = "agent-assertion" THEN "VALID"
    ELSE IF e.proof \notin Cryptographic THEN "INVALID" ELSE Overall(proofs)

EvidenceSemantics(e, proofs, digestOnly) ==
    {Result("evidence-content", IF e.embedded \/ digestOnly THEN "VALID" ELSE "UNVERIFIABLE", e.id),
     Result("trust-mode", TrustMode(e, proofs), e.id)}

ArtifactFamily(e) ==
    IF e.family = "unknown" THEN {Result("artifact-family", "UNVERIFIABLE", e.id)} ELSE {}
=============================================================================
