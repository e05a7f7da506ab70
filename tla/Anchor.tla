------------------------------- MODULE Anchor -------------------------------
(***************************************************************************)
(* POST /anchor (src/src/server.ts, anchor.ts): the paid request that      *)
(* writes the hash of an attestation's signature to a contract on Tempo,   *)
(* for concurrent purchases that may be of one attestation.                *)
(*                                                                         *)
(* A step runs from one await to the next: mppx.charge, the contract read  *)
(* and the contract write.  The chain, its RPC endpoint and the contract   *)
(* are external: a transaction, once the endpoint has it, is mined some    *)
(* time; the contract keeps the first anchor of a hash.  The rate limiter  *)
(* in front of the route is in RateLimit, verifyAttestationForAnchoring in *)
(* KeyLifecycle (Anchorable).                                              *)
(***************************************************************************)
EXTENDS Naturals, FiniteSets

CONSTANTS
    Clients,        \* purchases: a client that tries again after an error is another one
    Attestations    \* signed envelopes; a hash stands for each

VARIABLES
    envelope,   \* what each client posts
    anchorable, \* the attestations whose key the registry still vouches for
    enabled,    \* anchoringEnabled(): the wallet and the endpoint are configured
    signing,    \* attestationSigningReady()
    rpc,        \* whether the endpoint answers
    phase,      \* the await each request is in
    reply,      \* the last response to each client
    paid,       \* the clients that have paid on chain
    settled,    \* the clients whose payment the server has accepted
    pending,    \* the clients whose transactions wait to be mined
    mined,      \* the clients whose transactions have been, at the cost of gas even if reverted
    anchored    \* the attestations the contract holds

requestVars == <<phase, reply>>
chainVars == <<pending, mined, anchored>>
worldVars == <<envelope, anchorable, enabled, signing, rpc>>
vars == <<worldVars, requestVars, paid, settled, chainVars>>

Phases == {"idle", "charge", "read", "write"}
Signed == {"already", "sent"}
Replies == {"none", "503", "422", "402", "502"} \union Signed

\* Mutant: the payment of a purchase that failed is good for another try.
Final_retried(c) == reply[c] \in Signed

Final(c) == reply[c] \in Signed \union {"502"}

Init ==
    /\ envelope \in [Clients -> Attestations]
    /\ anchorable \in SUBSET Attestations
    /\ enabled \in BOOLEAN /\ signing \in BOOLEAN /\ rpc \in BOOLEAN
    /\ phase = [c \in Clients |-> "idle"]
    /\ reply = [c \in Clients |-> "none"]
    /\ paid = {} /\ settled = {}
    /\ pending = {} /\ mined = {} /\ anchored = {}

Goes(c, p) == phase' = [phase EXCEPT ![c] = p] /\ UNCHANGED reply
Answer(c, r) == phase' = [phase EXCEPT ![c] = "idle"] /\ reply' = [reply EXCEPT ![c] = r]

----------------------------------------------------------------------------
(* Before payment: validateAnchorRequest, requireAnchoringReadiness and    *)
(* requireSigningReadiness.                                                *)

Arrive(c) ==
    /\ phase[c] = "idle" /\ ~Final(c)
    /\ reply[c] = "402" => c \in paid
    /\ IF ~enabled THEN Answer(c, "503")
       ELSE IF envelope[c] \notin anchorable THEN Answer(c, "422")
       ELSE IF ~signing THEN Answer(c, "503")
       ELSE Goes(c, "charge")
    /\ UNCHANGED <<worldVars, paid, settled, chainVars>>

Challenge(c) ==
    /\ phase[c] = "charge" /\ c \notin paid
    /\ Answer(c, "402")
    /\ UNCHANGED <<worldVars, paid, settled, chainVars>>

Pay(c) ==
    /\ phase[c] = "idle" /\ reply[c] = "402"
    /\ paid' = paid \union {c}
    /\ UNCHANGED <<worldVars, requestVars, settled, chainVars>>

\* Mutant: the payment is not looked for.
AcceptPayment_unpaid(c) ==
    /\ phase[c] = "charge"
    /\ settled' = settled \union {c}
    /\ Goes(c, "read")
    /\ UNCHANGED <<worldVars, paid, chainVars>>

AcceptPayment(c) ==
    /\ phase[c] = "charge" /\ c \in paid
    /\ settled' = settled \union {c}
    /\ Goes(c, "read")
    /\ UNCHANGED <<worldVars, paid, chainVars>>

\* The library cannot verify the payment now: the client is challenged again.
PaymentFailed(c) ==
    /\ phase[c] = "charge" /\ c \in paid
    /\ Answer(c, "402")
    /\ UNCHANGED <<worldVars, paid, settled, chainVars>>

----------------------------------------------------------------------------
(* anchorSignature, and the handler's answer.                              *)

\* describeError in the handler's catch.
Failed(c) == Answer(c, "502")

\* Mutant: a call without a bound waits for the endpoint to come back.
RpcFails_unbounded(c) == Failed(c) /\ rpc

\* ANCHOR_RPC_TIMEOUT_MS, no retry: a call can fail at any time, and ends if
\* the endpoint does not answer.
RpcFails(c) == Failed(c)

\* attest is called inside the try.
AnswerSigned(c, r) == IF signing THEN Answer(c, r) ELSE Failed(c)

\* Mutant: a transaction that waits counts as an anchor.
Already_pending(a) == a \in anchored \/ \E c \in pending : envelope[c] = a

\* isAnchored.
Already(a) == a \in anchored

ReadAnchored(c) ==
    /\ phase[c] = "read"
    /\ \/ rpc /\ Already(envelope[c]) /\ AnswerSigned(c, "already")
       \/ rpc /\ ~Already(envelope[c]) /\ Goes(c, "write")
       \/ RpcFails(c)
    /\ UNCHANGED <<worldVars, paid, settled, chainVars>>

\* Mutant: a write that timed out is reported as sent.
WriteTimesOut_sent(c) == AnswerSigned(c, "sent")

WriteTimesOut(c) == RpcFails(c)

\* writeContract: the endpoint takes the transaction; or takes it and its answer
\* comes too late; or does not take it (it may find that it would fail).
Write(c) ==
    /\ phase[c] = "write"
    /\ \/ /\ rpc
          /\ pending' = pending \union {c}
          /\ AnswerSigned(c, "sent") \/ WriteTimesOut(c)
       \/ WriteTimesOut(c) /\ UNCHANGED pending
    /\ UNCHANGED <<worldVars, paid, settled, mined, anchored>>

----------------------------------------------------------------------------
(* The chain and the world.                                                *)

Mine(c) ==
    /\ c \in pending
    /\ pending' = pending \ {c}
    /\ mined' = mined \union {c}
    /\ anchored' = anchored \union {envelope[c]}
    /\ UNCHANGED <<worldVars, requestVars, paid, settled>>

RpcFlips ==
    /\ rpc' = ~rpc
    /\ UNCHANGED <<envelope, anchorable, enabled, signing, requestVars, paid, settled, chainVars>>

\* A deployment condemns the key of an attestation.
Condemn(a) ==
    /\ a \in anchorable
    /\ anchorable' = anchorable \ {a}
    /\ UNCHANGED <<envelope, enabled, signing, rpc, requestVars, paid, settled, chainVars>>

SigningStarts ==
    /\ ~signing
    /\ signing' = TRUE
    /\ UNCHANGED <<envelope, anchorable, enabled, rpc, requestVars, paid, settled, chainVars>>

----------------------------------------------------------------------------
Next ==
    \/ \E c \in Clients : Arrive(c)
    \/ \E c \in Clients : Challenge(c)
    \/ \E c \in Clients : Pay(c)
    \/ \E c \in Clients : AcceptPayment(c)
    \/ \E c \in Clients : PaymentFailed(c)
    \/ \E c \in Clients : ReadAnchored(c)
    \/ \E c \in Clients : Write(c)
    \/ \E c \in Clients : Mine(c)
    \/ RpcFlips
    \/ \E a \in Attestations : Condemn(a)
    \/ SigningStarts

Spec == Init /\ [][Next]_vars

(***************************************************************************)
(* Every await ends, transactions are mined, a client that has paid tries  *)
(* again, and the library does not refuse a good payment for ever.         *)
(***************************************************************************)
Fairness ==
    \A c \in Clients :
        /\ WF_vars(c \in paid /\ Arrive(c))
        /\ WF_vars(Challenge(c)) /\ SF_vars(AcceptPayment(c))
        /\ WF_vars(ReadAnchored(c)) /\ WF_vars(Write(c))
        /\ WF_vars(Mine(c))

FairSpec == Spec /\ Fairness

----------------------------------------------------------------------------
(* Properties.                                                             *)

\* The state stays within its types; only accepted purchases reach the chain.
TypeOK ==
    /\ envelope \in [Clients -> Attestations]
    /\ anchorable \in SUBSET Attestations
    /\ enabled \in BOOLEAN /\ signing \in BOOLEAN /\ rpc \in BOOLEAN
    /\ phase \in [Clients -> Phases]
    /\ reply \in [Clients -> Replies]
    /\ settled \subseteq paid /\ paid \subseteq Clients
    /\ pending \subseteq settled /\ mined \subseteq settled /\ pending \cap mined = {}
    /\ anchored = {envelope[c] : c \in mined}

\* A signed answer is true of the chain: "already anchored" only of a hash the
\* contract holds, "sent" only of a transaction that waits or was mined, however
\* the purchases of one attestation interleave (anchorSignature).
AnswersMatchChain ==
    \A c \in Clients :
        /\ reply[c] = "already" => envelope[c] \in anchored
        /\ reply[c] = "sent" => c \in pending \union mined

Stage(c) ==
    IF c \notin paid THEN "open"
    ELSE IF c \notin settled THEN "paid"
    ELSE IF reply[c] \in Signed THEN "served"
    ELSE IF reply[c] = "502" THEN "failed"
    ELSE "accepted"

Ledger == INSTANCE PurchaseLedger WITH
    purchase <- [c \in Clients |-> Stage(c)],
    firm <- {}

\* The paid result contract as far as it goes here: an anchoring purchase is
\* accepted once and answered once; none is firm.
KeepsLedger == Ledger!Spec

\* A signed answer comes true: the attestation is on the chain in the end.
SignedIsAnchored ==
    \A c \in Clients : (reply[c] \in Signed) ~> (envelope[c] \in anchored)

\* A client that has paid is answered, whatever the endpoint does, unless the
\* attestation's key is condemned before its payment is accepted: then the retry
\* with the payment is refused like the first request (validateAnchorRequest).
PaidIsAnswered ==
    \A c \in Clients :
        (c \in paid) ~> (Final(c) \/ (c \notin settled /\ envelope[c] \notin anchorable))

\* The purchases and the chain agree, at every step of two purchases of one attestation.
ChainAgrees == TypeOK /\ AnswersMatchChain

\* An anchoring purchase comes to its end: for the client that paid an answer, for a
\* signed answer the chain (POST /anchor).
AnchoringEnds == SignedIsAnchored /\ PaidIsAnswered
=============================================================================
