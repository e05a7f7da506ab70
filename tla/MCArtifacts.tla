---------------------------- MODULE MCArtifacts ----------------------------
(***************************************************************************)
(* Signed artifacts and those who verify them, of one kind in each         *)
(* behaviour:                                                              *)
(*   seal     bundles under one or two signatures, of keys that may age    *)
(*   records  bundles that hold evidence of every kind the verifier tells  *)
(*            apart, under one signature                                   *)
(*   claim    payment claims of two issuers                                *)
(*   receipt  public receipts, altered up to twice                         *)
(* The other specification rests in an initial state.                      *)
(***************************************************************************)
EXTENDS BundleVerifier, SignedArtifacts, TLC

CONSTANTS k1, k2, k3, k4, k5, us, them, s1

MakerSymmetry == Permutations(Makers) \union Permutations(Issuers)
MCTimes == 1 .. 4

----------------------------------------------------------------------------
(* Evidence, in payloads that are otherwise sound; and payloads that are   *)
(* not.                                                                    *)

Sig(k, over) == [key |-> k, by |-> k, over |-> over, encoded |-> TRUE]
Nothing == [id |-> 0, mode |-> "agent-assertion", embedded |-> TRUE, family |-> "known", proof |-> "none",
            sigs |-> <<>>, at |-> 2, observed |-> 1, fits |-> TRUE, ours |-> TRUE, claim |-> None, receipt |-> None, expires |-> None]
Witness == [Nothing EXCEPT !.mode = "publisher-signed"]
Payment(issuer) == [issuer |-> issuer, at |-> 2]
Claim(issuer) == [sigs |-> <<Sig(k3, Message("claim", Payment(issuer)))>>, claim |-> Payment(issuer), id |-> Payment(issuer), wellFormed |-> TRUE]
Paid(issuer, id) == [Witness EXCEPT !.id = id, !.family = "claim", !.proof = "dsse", !.claim = Claim(issuer)]
Receipt(digest) == [core |-> 1, digest |-> digest, id |-> 1, at |-> 2, purpose |-> "receipt",
                    proof |-> Sig(k3, Message("receipt", [core |-> 1, digest |-> digest, at |-> 2]))]

Evidences == {
    Nothing,
    [Nothing EXCEPT !.id = 1, !.expires = 2],
    [Nothing EXCEPT !.id = 2, !.embedded = FALSE, !.family = "unknown"],
    [Witness EXCEPT !.id = 3, !.proof = "digest"],
    [Witness EXCEPT !.id = 4, !.proof = "dsse", !.sigs = <<Sig(k3, 4)>>],
    [Witness EXCEPT !.id = 5, !.proof = "dsse", !.sigs = <<Sig(k3, 5), Sig(k3, 5)>>],
    [Witness EXCEPT !.id = 6, !.proof = "attestation-v1", !.sigs = <<Sig(k3, 0)>>],
    [Witness EXCEPT !.id = 7, !.proof = "attestation-v2", !.sigs = <<Sig(k3, 7)>>],
    [Witness EXCEPT !.id = 8, !.proof = "attestation-v2", !.sigs = <<Sig(k3, 8)>>, !.fits = FALSE],
    [Witness EXCEPT !.id = 14, !.proof = "attestation-v2", !.sigs = <<Sig(k3, 14)>>, !.ours = FALSE],
    Paid(us, 9), Paid(them, 10),
    [Witness EXCEPT !.id = 13, !.family = "claim", !.proof = "attestation-v2", !.sigs = <<Sig(k3, 13)>>],
    [Nothing EXCEPT !.id = 11, !.family = "receipt", !.proof = "digest", !.receipt = Receipt(1)],
    [Nothing EXCEPT !.id = 12, !.family = "receipt", !.proof = "digest", !.receipt = Receipt(2)]}

Sound(e, at) == [form |-> "canonical", graph |-> TRUE, created |-> at, asserted |-> None, evidence |-> e]
Unsound == {[Sound(Nothing, 2) EXCEPT !.form = "rewritten"], [Sound(Nothing, 2) EXCEPT !.form = "unparsable"],
            [Sound(Nothing, 2) EXCEPT !.graph = FALSE], [Sound(Nothing, 1) EXCEPT !.asserted = 3]}
MCFew == {Sound(Nothing, 1), Sound(Nothing, 3)}
MCMany == {Sound(e, 2) : e \in Evidences} \union Unsound
MCPayloads == MCFew \union MCMany

Retired(k) == [Active(k) EXCEPT !.status = "retired", !.until = 2, !.changed = 2]
MCHeld == {Active(k) : k \in {k1, k2, k3}} \union {Retired(k) : k \in {k2, k3}}

Plain == [minimum |-> 1, required |-> {}, maxAge |-> None, expiry |-> TRUE, digestOnly |-> FALSE, anchor |-> FALSE, bound |-> {}]
MCSealPolicies == {[Plain EXCEPT !.minimum = 2], [Plain EXCEPT !.required = {k1}, !.maxAge = 1]}
MCRecordPolicies == {Plain, [Plain EXCEPT !.expiry = FALSE, !.digestOnly = TRUE, !.bound = {<<us, k3>>}], [Plain EXCEPT !.anchor = TRUE]}
MCPolicies == MCSealPolicies \union MCRecordPolicies

----------------------------------------------------------------------------
VARIABLE kind

allVars == <<kind, vars, artifactVars>>

\* What a behaviour of each kind is bounded to.
SealBounds ==
    /\ policy \in MCSealPolicies /\ trust[k3] = None
    /\ signed \subseteq {k1, k2} \X MCFew /\ (bundle # None => bundle.payload \in MCFew)

RecordBounds ==
    /\ policy \in MCRecordPolicies /\ trust[k2] = None
    /\ signed \subseteq {k1} \X MCMany /\ Cardinality(signed) <= 1
    /\ bundle # None => bundle.payload \in MCMany /\ Len(bundle.sigs) = 1 /\ bundle.sigs[1].key = k1

ClaimBounds ==
    /\ altered <= 1 /\ (artifact # None => artifact.kind = "claim")
    /\ \A s \in made : "issuer" \in DOMAIN s[2].content /\ s[2].content.content = s1
    /\ artifact # None => artifact.claim.content = s1

ReceiptBounds ==
    /\ bound = {} /\ (artifact # None => artifact.kind = "receipt")
    /\ \A s \in made : "core" \in DOMAIN s[2].content

BundleRests == policy \in MCSealPolicies /\ policy.minimum = 2 /\ Init

MCInit ==
    /\ Init /\ ArtifactInit
    /\ \/ kind = "seal" /\ SealBounds
       \/ kind = "records" /\ RecordBounds
       \/ kind \in {"claim", "receipt"} /\ BundleRests

MCNext ==
    /\ UNCHANGED kind
    /\ \/ kind = "seal" /\ Next /\ SealBounds' /\ UNCHANGED artifactVars
       \/ kind = "records" /\ Next /\ RecordBounds' /\ UNCHANGED artifactVars
       \/ kind = "claim" /\ ArtifactNext /\ ClaimBounds' /\ UNCHANGED vars
       \/ kind = "receipt" /\ ArtifactNext /\ ReceiptBounds' /\ UNCHANGED vars

MCSpec == MCInit /\ [][MCNext]_allVars
=============================================================================
