--------------------------- MODULE PurchaseProofs ---------------------------
(***************************************************************************)
(* Proofs about the purchases that have a front door of their own: the     *)
(* anchoring of attestations, for any number of purchases and attestations *)
(* (Anchor); the tools of the MCP server, for any number of calls and      *)
(* snapshots (McpTools).                                                   *)
(***************************************************************************)
EXTENDS Anchor, McpTools, TLAPS

----------------------------------------------------------------------------
(* Anchor: the inductive invariant.                                        *)

\* How far the handler is decides whether the payment was accepted and the answer
\* is final.
Progress ==
    \A c \in Clients :
        /\ c \in settled => phase[c] \in {"read", "write"} \/ (phase[c] = "idle" /\ Final(c))
        /\ phase[c] \in {"read", "write"} => c \in settled /\ ~Final(c)
        /\ Final(c) => c \in settled
        /\ c \in pending \union mined => Final(c)

AnchorIInv == TypeOK /\ Progress /\ AnswersMatchChain

\* One client's request moves; the world and what was paid, settled or mined stay.
Only(c) ==
    /\ \A d \in Clients : d # c => phase'[d] = phase[d] /\ reply'[d] = reply[d]
    /\ phase' \in [Clients -> Phases] /\ reply' \in [Clients -> Replies]

LEMMA GoesProps ==
    ASSUME TypeOK, NEW c \in Clients, NEW p \in Phases, Goes(c, p)
    PROVE  Only(c) /\ phase'[c] = p /\ reply'[c] = reply[c]
BY DEF Goes, Only, TypeOK

LEMMA AnswerProps ==
    ASSUME TypeOK, NEW c \in Clients, NEW r \in Replies, Answer(c, r)
    PROVE  Only(c) /\ phase'[c] = "idle" /\ reply'[c] = r
BY DEF Answer, Only, TypeOK, Phases

\* A step of one request keeps the invariant if it does for that request.
LEMMA OneRequest ==
    ASSUME AnchorIInv, NEW c \in Clients, Only(c),
           UNCHANGED <<envelope, anchorable, enabled, signing, rpc, mined, anchored>>,
           paid' \in {paid, paid \union {c}}, settled' \in {settled, settled \union {c}},
           pending' \in {pending, pending \union {c}},
           c \in settled' => c \in paid',
           c \in pending' => c \in settled' /\ c \notin mined,
           c \in settled' => phase'[c] \in {"read", "write"} \/ (phase'[c] = "idle" /\ Final(c)'),
           phase'[c] \in {"read", "write"} => c \in settled' /\ ~Final(c)',
           Final(c)' => c \in settled',
           c \in pending' \union mined => Final(c)',
           reply'[c] = "already" => envelope[c] \in anchored,
           reply'[c] = "sent" => c \in pending' \union mined
    PROVE  AnchorIInv'
<1>1. TypeOK'
  BY DEF AnchorIInv, TypeOK, Only
<1>2. \A d \in Clients : d # c =>
          /\ phase'[d] = phase[d] /\ reply'[d] = reply[d] /\ (Final(d)' <=> Final(d))
          /\ (d \in settled' <=> d \in settled) /\ (d \in pending' <=> d \in pending)
  BY DEF Only, Final
<1>3. Progress'
  <2> SUFFICES ASSUME NEW d \in Clients
               PROVE  /\ d \in settled' => phase'[d] \in {"read", "write"} \/ (phase'[d] = "idle" /\ Final(d)')
                      /\ phase'[d] \in {"read", "write"} => d \in settled' /\ ~Final(d)'
                      /\ Final(d)' => d \in settled'
                      /\ d \in pending' \union mined' => Final(d)'
    BY DEF Progress
  <2>1. CASE d = c
    BY <2>1
  <2>2. CASE d # c
    BY <1>2, <2>2 DEF AnchorIInv, Progress
  <2> QED
    BY <2>1, <2>2
<1>4. AnswersMatchChain'
  <2> SUFFICES ASSUME NEW d \in Clients
               PROVE  /\ reply'[d] = "already" => envelope'[d] \in anchored'
                      /\ reply'[d] = "sent" => d \in pending' \union mined'
    BY DEF AnswersMatchChain
  <2>1. CASE d = c
    BY <2>1
  <2>2. CASE d # c
    BY <1>2, <2>2 DEF AnchorIInv, AnswersMatchChain
  <2> QED
    BY <2>1, <2>2
<1> QED
  BY <1>1, <1>3, <1>4 DEF AnchorIInv

\* Before payment, and the challenge: the answers are not final.
LEMMA FrontKeeps ==
    ASSUME AnchorIInv, NEW c \in Clients, Arrive(c) \/ Challenge(c) \/ PaymentFailed(c)
    PROVE  AnchorIInv'
<1>1. c \notin settled /\ ~Final(c)
  BY DEF Arrive, Challenge, PaymentFailed, AnchorIInv, Progress
<1>2. \/ \E r \in {"503", "422", "402"} : Answer(c, r)
      \/ Goes(c, "charge")
  BY DEF Arrive, Challenge, PaymentFailed
<1>3. UNCHANGED <<worldVars, paid, settled, chainVars>>
  BY DEF Arrive, Challenge, PaymentFailed
<1>4. Only(c) /\ phase'[c] \in {"idle", "charge"} /\ ~Final(c)'
  <2>1. ASSUME NEW r \in {"503", "422", "402"}, Answer(c, r)
        PROVE  Only(c) /\ phase'[c] \in {"idle", "charge"} /\ ~Final(c)'
    <3>1. r \in Replies /\ r \notin Signed \union {"502"}
      BY DEF Replies, Signed
    <3>2. Only(c) /\ phase'[c] = "idle" /\ reply'[c] = r
      BY <2>1, <3>1, AnswerProps DEF AnchorIInv
    <3> QED
      BY <3>1, <3>2 DEF Final
  <2>2. CASE Goes(c, "charge")
    <3>1. Only(c) /\ phase'[c] = "charge" /\ reply'[c] = reply[c]
      BY <2>2, GoesProps DEF AnchorIInv, Phases
    <3> QED
      BY <1>1, <3>1 DEF Final
  <2> QED
    BY <1>2, <2>1, <2>2
<1>5. c \notin pending /\ c \notin mined
  BY <1>1 DEF AnchorIInv, TypeOK
<1>6. reply'[c] \notin {"already", "sent"}
  BY <1>4 DEF Final, Signed
<1> QED
  BY <1>1, <1>3, <1>4, <1>5, <1>6, OneRequest DEF worldVars, chainVars

LEMMA PayKeeps == ASSUME AnchorIInv, NEW c \in Clients, Pay(c) PROVE AnchorIInv'
<1>1. /\ phase[c] = "idle" /\ reply[c] = "402" /\ paid' = paid \union {c}
      /\ UNCHANGED <<worldVars, requestVars, settled, chainVars>>
  BY DEF Pay
<1>2. Only(c) /\ (Final(c)' <=> Final(c)) /\ ~Final(c)
  BY <1>1 DEF Only, AnchorIInv, TypeOK, requestVars, Final, Signed
<1>3. c \notin settled /\ c \notin pending /\ c \notin mined
  BY <1>1, <1>2 DEF AnchorIInv, Progress, TypeOK
<1>4. phase'[c] = "idle" /\ reply'[c] = "402"
  BY <1>1 DEF requestVars
<1> QED
  BY <1>1, <1>2, <1>3, <1>4, OneRequest DEF worldVars, requestVars, chainVars

LEMMA AcceptKeeps == ASSUME AnchorIInv, NEW c \in Clients, AcceptPayment(c) PROVE AnchorIInv'
<1>1. /\ phase[c] = "charge" /\ c \in paid /\ settled' = settled \union {c} /\ Goes(c, "read")
      /\ UNCHANGED <<worldVars, paid, chainVars>>
  BY DEF AcceptPayment
<1>2. Only(c) /\ phase'[c] = "read" /\ reply'[c] = reply[c]
  BY <1>1, GoesProps DEF AnchorIInv, Phases
<1>3. c \notin settled /\ ~Final(c) /\ ~Final(c)' /\ c \notin pending /\ c \notin mined
  BY <1>1, <1>2 DEF AnchorIInv, Progress, TypeOK, Final
<1>4. reply[c] \notin {"already", "sent"}
  BY <1>3 DEF Final, Signed
<1> QED
  BY <1>1, <1>2, <1>3, <1>4, OneRequest DEF worldVars, chainVars

\* A handler's answer, or its way to the next await.
LEMMA HandlerKeeps ==
    ASSUME AnchorIInv, NEW c \in Clients, ReadAnchored(c) \/ Write(c)
    PROVE  AnchorIInv'
<1>1. /\ c \in settled /\ c \in paid /\ ~Final(c) /\ c \notin pending \union mined
      /\ UNCHANGED <<worldVars, paid, settled, mined, anchored>>
  BY DEF ReadAnchored, Write, AnchorIInv, Progress, TypeOK, chainVars
<1>2. \/ Goes(c, "write") /\ pending' = pending
      \/ Answer(c, "502") /\ pending' \in {pending, pending \union {c}}
      \/ Answer(c, "already") /\ envelope[c] \in anchored /\ pending' = pending
      \/ Answer(c, "sent") /\ pending' = pending \union {c}
  BY DEF ReadAnchored, Write, AnswerSigned, RpcFails, WriteTimesOut, Failed, Already, chainVars
<1>3. CASE Goes(c, "write") /\ pending' = pending
  <2>1. Only(c) /\ phase'[c] = "write" /\ reply'[c] = reply[c]
    BY <1>3, GoesProps DEF AnchorIInv, Phases
  <2>2. ~Final(c)' /\ reply'[c] \notin {"already", "sent"}
    BY <1>1, <2>1 DEF Final, Signed
  <2> QED
    BY <1>1, <1>3, <2>1, <2>2, OneRequest DEF worldVars
<1>4. ASSUME NEW r \in Signed \union {"502"}, Answer(c, r),
             pending' \in {pending, pending \union {c}},
             r = "already" => envelope[c] \in anchored, r = "sent" => pending' = pending \union {c}
      PROVE  AnchorIInv'
  <2>1. Only(c) /\ phase'[c] = "idle" /\ reply'[c] = r
    BY <1>4, AnswerProps DEF AnchorIInv, Replies
  <2>2. Final(c)'
    BY <2>1 DEF Final
  <2> QED
    BY <1>1, <1>4, <2>1, <2>2, OneRequest DEF worldVars
<1> QED
  BY <1>2, <1>3, <1>4 DEF Signed

LEMMA MineKeeps == ASSUME AnchorIInv, NEW c \in Clients, Mine(c) PROVE AnchorIInv'
<1>1. /\ c \in pending /\ pending' = pending \ {c} /\ mined' = mined \union {c}
      /\ anchored' = anchored \union {envelope[c]}
      /\ UNCHANGED <<envelope, anchorable, enabled, signing, rpc, phase, reply, paid, settled>>
  BY DEF Mine, worldVars, requestVars
<1>2. TypeOK'
  <2>1. anchored' = {envelope[d] : d \in mined'}
    BY <1>1 DEF AnchorIInv, TypeOK
  <2> QED
    BY <1>1, <2>1 DEF AnchorIInv, TypeOK
<1>3. Progress' /\ AnswersMatchChain'
  BY <1>1 DEF AnchorIInv, Progress, AnswersMatchChain, Final
<1> QED
  BY <1>2, <1>3 DEF AnchorIInv

LEMMA WorldKeeps ==
    ASSUME AnchorIInv, RpcFlips \/ SigningStarts \/ (\E a \in Attestations : Condemn(a)) \/ UNCHANGED vars
    PROVE  AnchorIInv'
<1>1. /\ UNCHANGED <<envelope, enabled, phase, reply, paid, settled, pending, mined, anchored>>
      /\ anchorable' \subseteq anchorable /\ signing' \in BOOLEAN /\ rpc' \in BOOLEAN
  BY DEF RpcFlips, SigningStarts, Condemn, vars, worldVars, requestVars, chainVars, AnchorIInv, TypeOK
<1>2. TypeOK'
  BY <1>1 DEF AnchorIInv, TypeOK
<1>3. Progress' /\ AnswersMatchChain'
  BY <1>1 DEF AnchorIInv, Progress, AnswersMatchChain, Final
<1> QED
  BY <1>2, <1>3 DEF AnchorIInv

LEMMA AnchorInitIInv == Init => AnchorIInv
<1> SUFFICES ASSUME Init PROVE AnchorIInv
  OBVIOUS
<1>1. TypeOK
  BY DEF Init, TypeOK, Phases, Replies
<1>2. Progress /\ AnswersMatchChain
  BY DEF Init, Progress, AnswersMatchChain, Final, Signed
<1> QED
  BY <1>1, <1>2 DEF AnchorIInv

LEMMA AnchorNextIInv == AnchorIInv /\ [Next]_vars => AnchorIInv'
BY FrontKeeps, PayKeeps, AcceptKeeps, HandlerKeeps, MineKeeps, WorldKeeps DEF Next

LEMMA AnchorInvariance == Spec => []AnchorIInv
BY AnchorInitIInv, AnchorNextIInv, PTL DEF Spec

\* The state stays within its types; nothing reaches the chain without an accepted payment.
THEOREM AnchorTypeCorrect == Spec => []TypeOK
BY AnchorInvariance, PTL DEF AnchorIInv

\* A signed answer of /anchor is true of the chain, whatever the interleaving.
THEOREM AnswersMatchChainHolds == Spec => []AnswersMatchChain
BY AnchorInvariance, PTL DEF AnchorIInv

\* Purchases and chain agree at every step.
THEOREM ChainAgreesHolds == Spec => []ChainAgrees
BY AnchorInvariance, PTL DEF AnchorIInv, ChainAgrees


----------------------------------------------------------------------------
(* The purchases implement the ledger.                                     *)

ledgerView == <<[c \in Clients |-> Stage(c)], {}>>

LEMMA StageKept ==
    ASSUME NEW d \in Clients,
           (d \in paid') <=> (d \in paid), (d \in settled') <=> (d \in settled),
           d \in settled => reply'[d] = reply[d]
    PROVE  Stage(d)' = Stage(d)
BY DEF Stage

LEMMA Moved ==
    ASSUME NEW c \in Clients, NEW from, NEW to, Stage(c) = from, Stage(c)' = to,
           \A d \in Clients : d # c => Stage(d)' = Stage(d)
    PROVE  Ledger!Move(c, from, to)
<1>1. [d \in Clients |-> Stage(d)]' = [[d \in Clients |-> Stage(d)] EXCEPT ![c] = to]
  OBVIOUS
<1> QED
  BY <1>1 DEF Ledger!Move

LEMMA InitLedger == Init => Ledger!Init
<1> SUFFICES ASSUME Init PROVE Ledger!Init
  OBVIOUS
<1>1. \A c \in Clients : Stage(c) = "open"
  BY DEF Init, Stage
<1> QED
  BY <1>1 DEF Ledger!Init

LEMMA PayLedger == ASSUME AnchorIInv, NEW c \in Clients, Pay(c), c \notin paid PROVE Ledger!Pay(c)
<1>1. c \notin settled /\ paid' = paid \union {c} /\ UNCHANGED <<reply, settled>>
  BY DEF Pay, requestVars, AnchorIInv, TypeOK
<1>2. \A d \in Clients : d # c => Stage(d)' = Stage(d)
  BY <1>1, StageKept
<1>3. Stage(c) = "open" /\ Stage(c)' = "paid"
  BY <1>1 DEF Stage
<1> QED
  BY <1>2, <1>3, Moved DEF Ledger!Pay

LEMMA AcceptLedger == ASSUME AnchorIInv, NEW c \in Clients, AcceptPayment(c) PROVE Ledger!Accept(c)
<1>1. /\ c \in paid /\ c \notin settled /\ ~Final(c)
      /\ UNCHANGED <<reply, paid>> /\ settled' = settled \union {c}
  BY DEF AcceptPayment, Goes, AnchorIInv, Progress
<1>2. \A d \in Clients : d # c => Stage(d)' = Stage(d)
  BY <1>1, StageKept
<1>3. Stage(c) = "paid" /\ Stage(c)' = "accepted"
  BY <1>1 DEF Stage, Final
<1> QED
  BY <1>2, <1>3, Moved DEF Ledger!Accept

LEMMA HandlerLedger ==
    ASSUME AnchorIInv, NEW c \in Clients, ReadAnchored(c) \/ Write(c)
    PROVE  Ledger!Serve(c) \/ Ledger!Fail(c) \/ \A d \in Clients : Stage(d)' = Stage(d)
<1>1. /\ c \in settled /\ c \in paid /\ ~Final(c)
      /\ UNCHANGED <<paid, settled>>
  BY DEF ReadAnchored, Write, AnchorIInv, Progress, TypeOK
<1>2. Goes(c, "write") \/ \E r \in Signed \union {"502"} : Answer(c, r)
  BY DEF ReadAnchored, Write, AnswerSigned, RpcFails, WriteTimesOut, Failed, Signed
<1>3. CASE Goes(c, "write")
  BY <1>1, <1>3, StageKept DEF Goes
<1>4. ASSUME NEW r \in Signed \union {"502"}, Answer(c, r)
      PROVE  Ledger!Serve(c) \/ Ledger!Fail(c)
  <2>1. Only(c) /\ reply'[c] = r
    BY <1>4, AnswerProps DEF AnchorIInv, Replies
  <2>2. \A d \in Clients : d # c => Stage(d)' = Stage(d)
    BY <1>1, <2>1, StageKept DEF Only
  <2>3. Stage(c) = "accepted" /\ Stage(c)' = IF r \in Signed THEN "served" ELSE "failed"
    BY <1>1, <2>1 DEF Stage, Final
  <2> QED
    BY <2>2, <2>3, Moved DEF Ledger!Serve, Ledger!Fail
<1> QED
  BY <1>2, <1>3, <1>4

\* Everything else leaves every purchase where it is.
LEMMA OthersUnseen ==
    ASSUME AnchorIInv, NEW c \in Clients,
           \/ Arrive(c) \/ Challenge(c) \/ PaymentFailed(c) \/ Mine(c) \/ RpcFlips \/ SigningStarts
           \/ (\E a \in Attestations : Condemn(a)) \/ UNCHANGED vars \/ (Pay(c) /\ c \in paid)
    PROVE  \A d \in Clients : Stage(d)' = Stage(d)
<1>1. CASE Arrive(c) \/ Challenge(c) \/ PaymentFailed(c)
  <2>1. c \notin settled /\ UNCHANGED <<paid, settled>>
    BY <1>1 DEF Arrive, Challenge, PaymentFailed, AnchorIInv, Progress
  <2>2. \A d \in Clients : d # c => reply'[d] = reply[d]
    BY <1>1 DEF Arrive, Challenge, PaymentFailed, Answer, Goes, AnchorIInv, TypeOK
  <2> QED
    BY <2>1, <2>2, StageKept
<1>2. CASE ~(Arrive(c) \/ Challenge(c) \/ PaymentFailed(c))
  <2>1. UNCHANGED <<reply, paid, settled>>
    BY <1>2 DEF Mine, RpcFlips, SigningStarts, Condemn, Pay, vars, requestVars
  <2> QED
    BY <2>1, StageKept
<1> QED
  BY <1>1, <1>2

LEMMA NextLedger == AnchorIInv /\ [Next]_vars => [Ledger!Next]_ledgerView
<1> SUFFICES ASSUME AnchorIInv, [Next]_vars PROVE Ledger!Next \/ ledgerView' = ledgerView
  OBVIOUS
<1>1. (\A d \in Clients : Stage(d)' = Stage(d)) => ledgerView' = ledgerView
  BY DEF ledgerView
<1>2. ASSUME NEW c \in Clients, AcceptPayment(c) \/ (Pay(c) /\ c \notin paid) PROVE Ledger!Next
  BY <1>2, PayLedger, AcceptLedger DEF Ledger!Next
<1>3. ASSUME NEW c \in Clients, ReadAnchored(c) \/ Write(c) PROVE Ledger!Next \/ ledgerView' = ledgerView
  BY <1>1, <1>3, HandlerLedger DEF Ledger!Next
<1>4. CASE Clients = {}
  BY <1>1, <1>4
<1> QED
  BY <1>1, <1>2, <1>3, <1>4, OthersUnseen DEF Next

(***************************************************************************)
(* A payment for an anchoring is accepted at most once and ends in one     *)
(* answer (POST /anchor), as the paid result contract has it.              *)
(***************************************************************************)
THEOREM KeepsLedgerHolds == Spec => KeepsLedger
<1>1. [Ledger!Next]_ledgerView => [Ledger!Next]_Ledger!ledgerVars
  BY DEF ledgerView, Ledger!ledgerVars
<1> QED
  BY <1>1, InitLedger, NextLedger, AnchorInvariance, PTL DEF Spec, KeepsLedger, Ledger!Spec

----------------------------------------------------------------------------
(* McpTools: the inductive invariant.                                      *)

\* How far a call is decides what was pinned for it, whether its payment was accepted,
\* and whether its answer is final; only a call that can be served gets to the charge.
McpProgress ==
    \A c \in Calls :
        /\ mcpPhase[c] # "idle" =>
            /\ ~McpFinal(c) /\ ~UsageError(c)
            /\ pinned[c] = judged[c] /\ ("wallet" \in Wants(c) => judged[c] # 0)
        /\ mcpReply[c] = "challenge" => ~UsageError(c)
        /\ mcpReply[c] = "usage" => UsageError(c)
        /\ c \in mcpSettled => mcpPhase[c] = "lookup" \/ mcpReply[c] \in {"signed", "thrown"}
        /\ mcpPhase[c] = "lookup" \/ mcpReply[c] \in {"signed", "thrown"} => c \in mcpSettled

McpIInv == McpTypeOK /\ McpProgress /\ WalletScreenedFromJudged /\ UsageErrorsAreFree

\* What the invariant says of one call.
CallOK(c) ==
    /\ \A k \in Checks : results[c][k] # "none" => k \in Wants(c) /\ c \in mcpSettled
    /\ c \in mcpSettled => c \in mcpPaid
    /\ mcpPhase[c] # "idle" =>
        /\ ~McpFinal(c) /\ ~UsageError(c)
        /\ pinned[c] = judged[c] /\ ("wallet" \in Wants(c) => judged[c] # 0)
    /\ mcpReply[c] = "challenge" => ~UsageError(c)
    /\ mcpReply[c] = "usage" => UsageError(c)
    /\ c \in mcpSettled => mcpPhase[c] = "lookup" \/ mcpReply[c] \in {"signed", "thrown"}
    /\ mcpPhase[c] = "lookup" \/ mcpReply[c] \in {"signed", "thrown"} => c \in mcpSettled
    /\ results[c]["wallet"] \in {"ok", "error"} => results[c]["wallet"] = "ok" /\ screened[c] = judged[c]
    /\ UsageError(c) => c \notin mcpPaid

\* The types of the variables.
Framed ==
    /\ ask \in [Calls -> Asks]
    /\ mcpPhase \in [Calls -> {"idle", "charge", "lookup"}]
    /\ mcpReply \in [Calls -> McpReplies]
    /\ pinned \in [Calls -> 0 .. LastVersion] /\ judged \in [Calls -> 0 .. LastVersion]
    /\ screened \in [Calls -> 0 .. LastVersion]
    /\ results \in [Calls -> [Checks -> Outcomes]]
    /\ mcpPaid \subseteq Calls /\ mcpSettled \subseteq Calls
    /\ store \in [version : 1 .. LastVersion, usable : BOOLEAN] /\ mcpSigning \in BOOLEAN

CallsOK == \A c \in Calls : CallOK(c)

LEMMA OfEachCall == McpIInv <=> Framed /\ CallsOK
<1>1. McpIInv => Framed
  BY DEF McpIInv, McpTypeOK, Framed
<1>2. McpIInv => CallsOK
  BY DEF CallsOK, McpIInv, McpTypeOK, McpProgress, WalletScreenedFromJudged, UsageErrorsAreFree, UsageError, CallOK
<1>3. ASSUME Framed, CallsOK PROVE McpIInv
  <2>1. McpTypeOK
    BY <1>3 DEF Framed, CallsOK, CallOK, McpTypeOK
  <2>2. McpProgress
    BY <1>3 DEF CallsOK, CallOK, McpProgress
  <2>3. WalletScreenedFromJudged /\ UsageErrorsAreFree
    BY <1>3 DEF CallsOK, CallOK, WalletScreenedFromJudged, UsageErrorsAreFree, UsageError
  <2> QED
    BY <2>1, <2>2, <2>3 DEF McpIInv
<1> QED
  BY <1>1, <1>2, <1>3

LEMMA OfEachCallNext == Framed' /\ CallsOK' => McpIInv'
BY OfEachCall, PTL

\* A step of one call keeps the invariant if it does for that call.
LEMMA OneCall ==
    ASSUME McpIInv, NEW c \in Calls, Framed', CallOK(c)', UNCHANGED ask,
           \A d \in Calls : d # c =>
               /\ mcpPhase'[d] = mcpPhase[d] /\ mcpReply'[d] = mcpReply[d] /\ pinned'[d] = pinned[d]
               /\ judged'[d] = judged[d] /\ screened'[d] = screened[d] /\ results'[d] = results[d]
               /\ (d \in mcpPaid' <=> d \in mcpPaid) /\ (d \in mcpSettled' <=> d \in mcpSettled)
    PROVE  McpIInv'
<1>1. ASSUME NEW d \in Calls, d # c PROVE CallOK(d)'
  <2>1. CallOK(d)
    BY OfEachCall DEF CallsOK
  <2> QED
    BY <1>1, <2>1 DEF CallOK, Wants, McpFinal, UsageError
<1>2. CallsOK'
  <2>1. ASSUME NEW d \in Calls, d = c PROVE CallOK(d)'
    BY <2>1 DEF CallOK, Wants, McpFinal, UsageError
  <2> QED
    BY <1>1, <2>1 DEF CallsOK
<1> QED
  BY <1>2, OfEachCallNext

LEMMA McpInitIInv == McpInit => McpIInv
<1> SUFFICES ASSUME McpInit PROVE McpIInv
  OBVIOUS
<1>1. McpTypeOK
  BY VersionAssumption DEF McpInit, McpTypeOK, McpReplies, Answered, Outcomes
<1>2. McpProgress /\ WalletScreenedFromJudged /\ UsageErrorsAreFree
  BY DEF McpInit, McpProgress, WalletScreenedFromJudged, UsageErrorsAreFree, Checks
<1> QED
  BY <1>1, <1>2 DEF McpIInv

LEMMA McpAnswerProps ==
    ASSUME Framed, NEW c \in Calls, NEW r \in McpReplies, McpAnswer(c, r)
    PROVE  /\ mcpPhase'[c] = "idle" /\ mcpReply'[c] = r /\ pinned'[c] = 0
           /\ \A d \in Calls : d # c => mcpPhase'[d] = mcpPhase[d] /\ mcpReply'[d] = mcpReply[d] /\ pinned'[d] = pinned[d]
           /\ mcpPhase' \in [Calls -> {"idle", "charge", "lookup"}] /\ mcpReply' \in [Calls -> McpReplies]
           /\ pinned' \in [Calls -> 0 .. LastVersion]
BY VersionAssumption DEF McpAnswer, Framed

LEMMA StartKeeps == ASSUME McpIInv, NEW c \in Calls, Start(c) PROVE McpIInv'
<1>1. Framed /\ CallOK(c)
  BY OfEachCall DEF CallsOK
<1>2. /\ mcpPhase[c] = "idle" /\ ~McpFinal(c) /\ c \notin mcpSettled
      /\ \A k \in Checks : results[c][k] = "none"
  BY <1>1 DEF Start, CallOK, McpFinal, Answered
<1>3. UNCHANGED <<ask, results, screened, mcpPaid, mcpSettled, store, mcpSigning>>
  BY DEF Start, mcpWorldVars
<1>4. ASSUME NEW r \in {"usage", "unavailable"}, McpAnswer(c, r), UNCHANGED judged, r = "usage" <=> UsageError(c)
      PROVE  McpIInv'
  <2>1. Framed' /\ mcpPhase'[c] = "idle" /\ mcpReply'[c] = r /\ pinned'[c] = 0
    BY <1>1, <1>3, <1>4, McpAnswerProps DEF Framed, McpReplies
  <2>2. CallOK(c)'
    BY <1>1, <1>2, <1>3, <1>4, <2>1, VersionAssumption
       DEF CallOK, Wants, McpFinal, UsageError, McpReplies, Answered, Checks
  <2> QED
    BY <1>1, <1>3, <1>4, <2>1, <2>2, OneCall, McpAnswerProps DEF McpReplies
<1>5. ASSUME NEW version, version = (IF "wallet" \in Wants(c) THEN store.version ELSE 0),
             ~UsageError(c), "wallet" \in Wants(c) => store.usable,
             mcpPhase' = [mcpPhase EXCEPT ![c] = "charge"], pinned' = [pinned EXCEPT ![c] = version],
             judged' = [judged EXCEPT ![c] = version], UNCHANGED mcpReply
      PROVE  McpIInv'
  <2>1. version \in 0 .. LastVersion /\ ("wallet" \in Wants(c) => version # 0)
    BY <1>1, <1>5, VersionAssumption DEF Framed
  <2>2. Framed' /\ mcpPhase'[c] = "charge" /\ pinned'[c] = version /\ judged'[c] = version
    BY <1>1, <1>3, <1>5, <2>1 DEF Framed
  <2>3. CallOK(c)'
    BY <1>1, <1>2, <1>3, <1>5, <2>1, <2>2 DEF CallOK, Wants, McpFinal, UsageError, McpReplies, Answered, Checks
  <2>4. \A d \in Calls : d # c => mcpPhase'[d] = mcpPhase[d] /\ pinned'[d] = pinned[d] /\ judged'[d] = judged[d]
    BY <1>1, <1>5 DEF Framed
  <2> QED
    BY <1>3, <1>5, <2>2, <2>3, <2>4, OneCall
<1> QED
  BY <1>4, <1>5 DEF Start

\* The ends of a call that leave its client challenged, and the answer to its lookups.
LEMMA AnswerKeeps ==
    ASSUME McpIInv, NEW c \in Calls, NEW r, McpAnswer(c, r),
           UNCHANGED <<ask, judged, results, screened, mcpPaid, mcpSettled, mcpWorldVars>>,
           \/ r = "challenge" /\ mcpPhase[c] = "charge"
           \/ r \in {"signed", "thrown"} /\ mcpPhase[c] = "lookup"
    PROVE  McpIInv'
<1>1. Framed /\ CallOK(c)
  BY OfEachCall DEF CallsOK
<1>2. Framed' /\ mcpPhase'[c] = "idle" /\ mcpReply'[c] = r /\ pinned'[c] = 0
  BY <1>1, McpAnswerProps DEF Framed, mcpWorldVars, McpReplies, Answered
<1>3. CallOK(c)'
  BY <1>1, <1>2, VersionAssumption DEF CallOK, Wants, McpFinal, UsageError, McpReplies, Answered
<1> QED
  BY <1>1, <1>2, <1>3, OneCall, McpAnswerProps DEF McpReplies, Answered

LEMMA McpPayKeeps == ASSUME McpIInv, NEW c \in Calls, McpPay(c) PROVE McpIInv'
<1>1. Framed /\ CallOK(c)
  BY OfEachCall DEF CallsOK
<1>2. /\ mcpPhase[c] = "idle" /\ mcpReply[c] = "challenge" /\ mcpPaid' = mcpPaid \union {c}
      /\ UNCHANGED <<ask, mcpPhase, mcpReply, pinned, judged, results, screened, mcpSettled, store, mcpSigning>>
  BY DEF McpPay, callVars, mcpWorldVars
<1>3. Framed' /\ CallOK(c)'
  BY <1>1, <1>2 DEF Framed, CallOK, Wants, McpFinal, UsageError
<1> QED
  BY <1>2, <1>3, OneCall

LEMMA McpAcceptKeeps == ASSUME McpIInv, NEW c \in Calls, McpAcceptPayment(c) PROVE McpIInv'
<1>1. Framed /\ CallOK(c)
  BY OfEachCall DEF CallsOK
<1> DEFINE begun == [k \in Checks |-> IF k \in Started(c) THEN "pending" ELSE "none"]
<1>2. /\ mcpPhase[c] = "charge" /\ c \in mcpPaid
      /\ mcpSettled' = mcpSettled \union {c}
      /\ mcpPhase' = [mcpPhase EXCEPT ![c] = "lookup"]
      /\ results' = [results EXCEPT ![c] = begun]
      /\ UNCHANGED <<ask, mcpReply, pinned, judged, screened, mcpPaid, store, mcpSigning>>
  BY DEF McpAcceptPayment, mcpWorldVars
<1>3. /\ begun \in [Checks -> Outcomes] /\ \A k \in Checks : begun[k] # "none" => k \in Wants(c)
      /\ begun["wallet"] \notin {"ok", "error"}
  BY DEF Started, Outcomes, Checks
<1> HIDE DEF begun
<1>4. Framed' /\ mcpPhase'[c] = "lookup" /\ results'[c] = begun
  BY <1>1, <1>2, <1>3 DEF Framed
<1>5. CallOK(c)'
  BY <1>1, <1>2, <1>3, <1>4 DEF CallOK, Wants, McpFinal, UsageError, Answered
<1>6. \A d \in Calls : d # c => mcpPhase'[d] = mcpPhase[d] /\ results'[d] = results[d]
  BY <1>1, <1>2 DEF Framed
<1> QED
  BY <1>2, <1>4, <1>5, <1>6, OneCall

\* What was pinned is what is screened: the store is not read again.
LEMMA ScreenKeeps == ASSUME McpIInv, NEW c \in Calls, ScreenWallet(c) PROVE McpIInv'
<1>1. Framed /\ CallOK(c)
  BY OfEachCall DEF CallsOK
<1>2. /\ mcpPhase[c] = "lookup" /\ results[c]["wallet"] = "pending"
      /\ UNCHANGED <<ask, mcpPhase, mcpReply, pinned, judged, mcpPaid, mcpSettled, store, mcpSigning>>
  BY DEF ScreenWallet, Running, callVars, mcpWorldVars
<1>3. SnapshotOf(c) = judged[c] /\ SnapshotOf(c) # 0
  BY <1>1, <1>2 DEF CallOK, SnapshotOf, Checks
<1>4. /\ screened' = [screened EXCEPT ![c] = judged[c]]
      /\ results' = [results EXCEPT ![c]["wallet"] = "ok"]
  BY <1>3 DEF ScreenWallet
<1>5. /\ Framed' /\ screened'[c] = judged[c] /\ results'[c] \in [Checks -> Outcomes]
      /\ results'[c]["wallet"] = "ok" /\ results'[c]["company"] = results[c]["company"]
      /\ \A d \in Calls : d # c => screened'[d] = screened[d] /\ results'[d] = results[d]
  BY <1>1, <1>2, <1>4 DEF Framed, CallOK, Checks, Outcomes
<1>6. CallOK(c)'
  BY <1>1, <1>2, <1>5 DEF CallOK, Wants, McpFinal, UsageError, Checks
<1> QED
  BY <1>2, <1>5, <1>6, OneCall

LEMMA CompanyKeeps == ASSUME McpIInv, NEW c \in Calls, CheckCompany(c) PROVE McpIInv'
<1>1. Framed /\ CallOK(c)
  BY OfEachCall DEF CallsOK
<1>2. /\ mcpPhase[c] = "lookup" /\ results[c]["company"] = "pending"
      /\ UNCHANGED <<ask, mcpPhase, mcpReply, pinned, judged, screened, mcpPaid, mcpSettled, store, mcpSigning>>
  BY DEF CheckCompany, Running, callVars, mcpWorldVars
<1>3. PICK outcome \in {"ok", "error"} : results' = [results EXCEPT ![c]["company"] = outcome]
  BY DEF CheckCompany
<1>4. /\ Framed' /\ results'[c] \in [Checks -> Outcomes]
      /\ results'[c]["wallet"] = results[c]["wallet"] /\ results'[c]["company"] # "none"
      /\ \A d \in Calls : d # c => results'[d] = results[d]
  BY <1>1, <1>2, <1>3 DEF Framed, CallOK, Checks, Outcomes
<1>5. CallOK(c)'
  BY <1>1, <1>2, <1>4 DEF CallOK, Wants, McpFinal, UsageError, Checks
<1> QED
  BY <1>2, <1>4, <1>5, OneCall

LEMMA McpWorldKeeps ==
    ASSUME McpIInv, Activate \/ StoreFlips \/ McpSigningStarts \/ UNCHANGED mcpVars PROVE McpIInv'
<1>1. Framed /\ \A c \in Calls : CallOK(c)
  BY OfEachCall DEF CallsOK
<1>2. UNCHANGED <<ask, mcpPhase, mcpReply, pinned, judged, results, screened, mcpPaid, mcpSettled>>
  BY DEF Activate, StoreFlips, McpSigningStarts, mcpVars, callVars
<1>3. store' \in [version : 1 .. LastVersion, usable : BOOLEAN] /\ mcpSigning' \in BOOLEAN
  <2>1. /\ store \in [version : 1 .. LastVersion, usable : BOOLEAN] /\ mcpSigning \in BOOLEAN
    BY <1>1 DEF Framed
  <2>2. CASE Activate
    BY <2>1, <2>2, VersionAssumption DEF Activate
  <2>3. CASE StoreFlips
    BY <2>1, <2>3 DEF StoreFlips
  <2>4. CASE McpSigningStarts \/ UNCHANGED mcpVars
    BY <2>1, <2>4 DEF McpSigningStarts, mcpVars, mcpWorldVars
  <2> QED
    BY <2>2, <2>3, <2>4
<1>4. Framed'
  BY <1>1, <1>2, <1>3 DEF Framed
<1>5. CallsOK'
  BY <1>1, <1>2 DEF CallsOK, CallOK, Wants, McpFinal, UsageError
<1> QED
  BY <1>4, <1>5, OfEachCallNext

LEMMA McpNextIInv == McpIInv /\ [McpNext]_mcpVars => McpIInv'
<1> SUFFICES ASSUME McpIInv, [McpNext]_mcpVars PROVE McpIInv'
  OBVIOUS
<1>1. ASSUME NEW c \in Calls, McpChallenge(c) \/ McpPaymentFailed(c) PROVE McpIInv'
  BY <1>1, AnswerKeeps DEF McpChallenge, McpPaymentFailed
<1>2. ASSUME NEW c \in Calls, Respond(c) PROVE McpIInv'
  <2>1. PICK r \in {"signed", "thrown"} : McpAnswer(c, r)
    BY <1>2 DEF Respond, Thrown
  <2> QED
    BY <1>2, <2>1, AnswerKeeps DEF Respond
<1> QED
  BY <1>1, <1>2, StartKeeps, McpPayKeeps, McpAcceptKeeps, ScreenKeeps, CompanyKeeps, McpWorldKeeps DEF McpNext

LEMMA McpInvariance == McpSpec => []McpIInv
BY McpInitIInv, McpNextIInv, PTL DEF McpSpec

\* A wallet that was paid for has a result, of the snapshot judged before the charge, and
\* a call whose arguments are refused is never paid for, for any number of calls and
\* snapshots (mcp.ts).
THEOREM CallsAreSoundHolds == McpSpec => []CallsAreSound
BY McpInvariance, PTL DEF McpIInv, CallsAreSound

----------------------------------------------------------------------------
(* The calls implement the ledger.                                         *)

mcpLedgerView == <<[c \in Calls |-> McpStage(c)], {}>>

LEMMA McpStageKept ==
    ASSUME NEW d \in Calls,
           (d \in mcpPaid') <=> (d \in mcpPaid), (d \in mcpSettled') <=> (d \in mcpSettled),
           d \in mcpSettled => mcpReply'[d] = mcpReply[d]
    PROVE  McpStage(d)' = McpStage(d)
BY DEF McpStage

LEMMA McpMoved ==
    ASSUME NEW c \in Calls, NEW from, NEW to, McpStage(c) = from, McpStage(c)' = to,
           \A d \in Calls : d # c => McpStage(d)' = McpStage(d)
    PROVE  McpLedger!Move(c, from, to)
<1>1. [d \in Calls |-> McpStage(d)]' = [[d \in Calls |-> McpStage(d)] EXCEPT ![c] = to]
  OBVIOUS
<1> QED
  BY <1>1 DEF McpLedger!Move

LEMMA McpInitLedger == McpInit => McpLedger!Init
<1> SUFFICES ASSUME McpInit PROVE McpLedger!Init
  OBVIOUS
<1>1. \A c \in Calls : McpStage(c) = "open"
  BY DEF McpInit, McpStage
<1> QED
  BY <1>1 DEF McpLedger!Init

LEMMA McpPayLedger == ASSUME McpIInv, NEW c \in Calls, McpPay(c), c \notin mcpPaid PROVE McpLedger!Pay(c)
<1>1. c \notin mcpSettled /\ mcpPaid' = mcpPaid \union {c} /\ UNCHANGED <<mcpReply, mcpSettled>>
  BY DEF McpPay, callVars, McpIInv, McpTypeOK
<1>2. \A d \in Calls : d # c => McpStage(d)' = McpStage(d)
  BY <1>1, McpStageKept
<1>3. McpStage(c) = "open" /\ McpStage(c)' = "paid"
  BY <1>1 DEF McpStage
<1> QED
  BY <1>2, <1>3, McpMoved DEF McpLedger!Pay

LEMMA McpAcceptLedger == ASSUME McpIInv, NEW c \in Calls, McpAcceptPayment(c) PROVE McpLedger!Accept(c)
<1>1. /\ c \in mcpPaid /\ c \notin mcpSettled /\ mcpReply[c] \notin {"signed", "thrown"}
      /\ UNCHANGED <<mcpReply, mcpPaid>> /\ mcpSettled' = mcpSettled \union {c}
  BY DEF McpAcceptPayment, McpIInv, McpProgress, McpFinal, Answered
<1>2. \A d \in Calls : d # c => McpStage(d)' = McpStage(d)
  BY <1>1, McpStageKept
<1>3. McpStage(c) = "paid" /\ McpStage(c)' = "accepted"
  BY <1>1 DEF McpStage
<1> QED
  BY <1>2, <1>3, McpMoved DEF McpLedger!Accept

LEMMA RespondLedger ==
    ASSUME McpIInv, NEW c \in Calls, Respond(c) PROVE McpLedger!Serve(c) \/ McpLedger!Fail(c)
<1>1. /\ c \in mcpSettled /\ c \in mcpPaid /\ mcpReply[c] \notin {"signed", "thrown"}
      /\ UNCHANGED <<mcpPaid, mcpSettled>>
  BY DEF Respond, McpIInv, McpProgress, McpTypeOK, McpFinal, Answered
<1>2. PICK r \in {"signed", "thrown"} : McpAnswer(c, r)
  BY DEF Respond, Thrown
<1>3. mcpReply'[c] = r /\ \A d \in Calls : d # c => mcpReply'[d] = mcpReply[d]
  BY <1>2, OfEachCall, McpAnswerProps DEF McpReplies, Answered
<1>4. \A d \in Calls : d # c => McpStage(d)' = McpStage(d)
  BY <1>1, <1>3, McpStageKept
<1>5. McpStage(c) = "accepted" /\ McpStage(c)' = IF r = "signed" THEN "served" ELSE "failed"
  BY <1>1, <1>3 DEF McpStage
<1> QED
  BY <1>4, <1>5, McpMoved DEF McpLedger!Serve, McpLedger!Fail

\* Everything else leaves every purchase where it is.
LEMMA McpOthersUnseen ==
    ASSUME McpIInv, NEW c \in Calls,
           \/ Start(c) \/ McpChallenge(c) \/ McpPaymentFailed(c) \/ ScreenWallet(c) \/ CheckCompany(c)
           \/ Activate \/ StoreFlips \/ McpSigningStarts \/ UNCHANGED mcpVars \/ (McpPay(c) /\ c \in mcpPaid)
    PROVE  \A d \in Calls : McpStage(d)' = McpStage(d)
<1>1. CASE Start(c) \/ McpChallenge(c) \/ McpPaymentFailed(c)
  <2>1. c \notin mcpSettled /\ UNCHANGED <<mcpPaid, mcpSettled>>
    BY <1>1 DEF Start, McpChallenge, McpPaymentFailed, McpIInv, McpProgress, McpFinal, Answered
  <2>2. \A d \in Calls : d # c => mcpReply'[d] = mcpReply[d]
    <3>1. UNCHANGED mcpReply \/ \E r \in McpReplies : McpAnswer(c, r)
      BY <1>1 DEF Start, McpChallenge, McpPaymentFailed, McpReplies, Answered
    <3> QED
      BY <3>1, OfEachCall, McpAnswerProps
  <2> QED
    BY <2>1, <2>2, McpStageKept
<1>2. CASE ~(Start(c) \/ McpChallenge(c) \/ McpPaymentFailed(c))
  <2>1. UNCHANGED <<mcpReply, mcpSettled, mcpPaid>>
    BY <1>2 DEF ScreenWallet, CheckCompany, Activate, StoreFlips, McpSigningStarts, McpPay, mcpVars, callVars
  <2> QED
    BY <2>1, McpStageKept
<1> QED
  BY <1>1, <1>2

LEMMA McpNextLedger == McpIInv /\ [McpNext]_mcpVars => [McpLedger!Next]_mcpLedgerView
<1> SUFFICES ASSUME McpIInv, [McpNext]_mcpVars PROVE McpLedger!Next \/ mcpLedgerView' = mcpLedgerView
  OBVIOUS
<1>1. (\A d \in Calls : McpStage(d)' = McpStage(d)) => mcpLedgerView' = mcpLedgerView
  BY DEF mcpLedgerView
<1>2. ASSUME NEW c \in Calls, McpAcceptPayment(c) \/ (McpPay(c) /\ c \notin mcpPaid) \/ Respond(c)
      PROVE  McpLedger!Next
  BY <1>2, McpPayLedger, McpAcceptLedger, RespondLedger DEF McpLedger!Next
<1>3. CASE Calls = {}
  BY <1>1, <1>3
<1> QED
  BY <1>1, <1>2, <1>3, McpOthersUnseen DEF McpNext

(***************************************************************************)
(* A payment to a tool is accepted at most once, and its purchase answered *)
(* once (mcp.ts), as the paid result contract has it.                      *)
(***************************************************************************)
THEOREM McpKeepsLedgerHolds == McpSpec => McpKeepsLedger
<1>1. [McpLedger!Next]_mcpLedgerView => [McpLedger!Next]_McpLedger!ledgerVars
  BY DEF mcpLedgerView, McpLedger!ledgerVars
<1> QED
  BY <1>1, McpInitLedger, McpNextLedger, McpInvariance, PTL DEF McpSpec, McpKeepsLedger, McpLedger!Spec
=============================================================================
