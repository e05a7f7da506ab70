------------------------------ MODULE McpTools ------------------------------
(***************************************************************************)
(* The tools of the MCP server (src/src/mcp.ts): screen_wallet,            *)
(* verify_uk_company and diligence, for concurrent calls over one          *)
(* connection.  A second front door to the checks of PaidRoutes, with a    *)
(* chain of its own in front of payment.                                   *)
(*                                                                         *)
(* A step runs from one await to the next.  The payment library, the       *)
(* snapshot store and the company registry are external.  Names that       *)
(* Anchor has too carry the prefix mcp: MCPurchases extends both.          *)
(***************************************************************************)
EXTENDS Naturals, FiniteSets

CONSTANTS
    Calls,          \* each client's purchase, with as many calls as it takes
    LastVersion     \* snapshots that may be activated (a bound of the model)

ASSUME VersionAssumption == LastVersion \in Nat \ {0}

VARIABLES
    ask,        \* the tool and its arguments
    mcpPhase,   \* the await each call is in
    mcpReply,   \* the last answer to each client
    pinned,     \* the snapshot pinned for each call, 0 for none
    judged,     \* the snapshot that was found usable before the charge (history)
    results,    \* the outcome of each lookup
    screened,   \* the snapshot the wallet result was computed from, 0 for none
    mcpPaid,    \* the clients that have paid on chain
    mcpSettled, \* the clients whose payment the server has accepted
    store,      \* the active snapshot: its version, and whether it is usable
    mcpSigning  \* attestationSigningReady()

callVars == <<mcpPhase, mcpReply, pinned>>
mcpWorldVars == <<store, mcpSigning>>
mcpVars == <<ask, callVars, judged, results, screened, mcpPaid, mcpSettled, mcpWorldVars>>

Checks == {"wallet", "company"}
Wallets == {"none", "valid", "invalid"}

\* The tools' inputs.
Asks ==
    {a \in [tool : {"screen_wallet", "verify_uk_company", "diligence"}, wallet : Wallets,
            company : BOOLEAN] :
        /\ a.tool = "screen_wallet" => a.wallet # "none" /\ ~a.company
        /\ a.tool = "verify_uk_company" => a.wallet = "none" /\ a.company}

Wants(c) == (IF ask[c].wallet # "none" THEN {"wallet"} ELSE {})
            \union (IF ask[c].company THEN {"company"} ELSE {})


\* Mutant: the payment of a call that failed is good for another.
Answered_retried == {"usage", "signed"}

Answered == {"usage", "signed", "thrown"}
McpReplies == {"none", "unavailable", "challenge", "usage", "signed", "thrown"}
Outcomes == {"none", "pending", "ok", "error"}
McpFinal(c) == mcpReply[c] \in Answered

McpInit ==
    /\ ask \in [Calls -> Asks]
    /\ mcpPhase = [c \in Calls |-> "idle"]
    /\ mcpReply = [c \in Calls |-> "none"]
    /\ pinned = [c \in Calls |-> 0]
    /\ judged = [c \in Calls |-> 0]
    /\ results = [c \in Calls |-> [k \in Checks |-> "none"]]
    /\ screened = [c \in Calls |-> 0]
    /\ mcpPaid = {} /\ mcpSettled = {}
    /\ store \in [version : {1}, usable : BOOLEAN]
    /\ mcpSigning \in BOOLEAN

\* Leaving the handler ends the pinned context.
McpAnswer(c, r) ==
    /\ mcpPhase' = [mcpPhase EXCEPT ![c] = "idle"]
    /\ mcpReply' = [mcpReply EXCEPT ![c] = r]
    /\ pinned' = [pinned EXCEPT ![c] = 0]

----------------------------------------------------------------------------
(* Before the charge.                                                      *)

\* Mutant: the address is looked at by the screening only.
UsageError_late(c) == Wants(c) = {}

\* The check of diligence's arguments, and assertScreenableAddress.
UsageError(c) == Wants(c) = {} \/ ask[c].wallet = "invalid"

\* readyForWalletScreen and runWithPinnedSnapshot.
Start(c) ==
    /\ mcpPhase[c] = "idle" /\ ~McpFinal(c)
    /\ mcpReply[c] = "challenge" => c \in mcpPaid
    /\ IF UsageError(c) THEN McpAnswer(c, "usage") /\ UNCHANGED judged
       ELSE IF "wallet" \in Wants(c) /\ ~store.usable
       THEN McpAnswer(c, "unavailable") /\ UNCHANGED judged
       ELSE LET version == IF "wallet" \in Wants(c) THEN store.version ELSE 0 IN
            /\ mcpPhase' = [mcpPhase EXCEPT ![c] = "charge"]
            /\ pinned' = [pinned EXCEPT ![c] = version]
            /\ judged' = [judged EXCEPT ![c] = version]
            /\ UNCHANGED mcpReply
    /\ UNCHANGED <<ask, results, screened, mcpPaid, mcpSettled, mcpWorldVars>>

McpChallenge(c) ==
    /\ mcpPhase[c] = "charge" /\ c \notin mcpPaid
    /\ McpAnswer(c, "challenge")
    /\ UNCHANGED <<ask, judged, results, screened, mcpPaid, mcpSettled, mcpWorldVars>>

McpPay(c) ==
    /\ mcpPhase[c] = "idle" /\ mcpReply[c] = "challenge"
    /\ mcpPaid' = mcpPaid \union {c}
    /\ UNCHANGED <<ask, callVars, judged, results, screened, mcpSettled, mcpWorldVars>>

\* The library cannot verify the payment now: the client is challenged again.
McpPaymentFailed(c) ==
    /\ mcpPhase[c] = "charge" /\ c \in mcpPaid
    /\ McpAnswer(c, "challenge")
    /\ UNCHANGED <<ask, judged, results, screened, mcpPaid, mcpSettled, mcpWorldVars>>

\* Mutant: diligence starts both lookups, whatever was asked.
Started_both(c) == Checks

Started(c) == Wants(c)

McpAcceptPayment(c) ==
    /\ mcpPhase[c] = "charge" /\ c \in mcpPaid
    /\ mcpSettled' = mcpSettled \union {c}
    /\ mcpPhase' = [mcpPhase EXCEPT ![c] = "lookup"]
    /\ results' = [results EXCEPT ![c] =
                     [k \in Checks |-> IF k \in Started(c) THEN "pending" ELSE "none"]]
    /\ UNCHANGED <<ask, mcpReply, pinned, judged, screened, mcpPaid, mcpWorldVars>>

----------------------------------------------------------------------------
(* The lookups and the answer.                                             *)

Running(c, k) == mcpPhase[c] = "lookup" /\ results[c][k] = "pending"

\* Mutant: the store is read again after the charge.
SnapshotOf_reload(c) == IF store.usable THEN store.version ELSE 0

\* screenAddress.
SnapshotOf(c) ==
    IF pinned[c] # 0 THEN pinned[c] ELSE IF store.usable THEN store.version ELSE 0

ScreenWallet(c) ==
    /\ Running(c, "wallet")
    /\ screened' = [screened EXCEPT ![c] = SnapshotOf(c)]
    /\ results' = [results EXCEPT ![c]["wallet"] = IF SnapshotOf(c) # 0 THEN "ok" ELSE "error"]
    /\ UNCHANGED <<ask, callVars, judged, mcpPaid, mcpSettled, mcpWorldVars>>

\* The registry may be down, or not know the company.
CheckCompany(c) ==
    /\ Running(c, "company")
    /\ \E outcome \in {"ok", "error"} : results' = [results EXCEPT ![c]["company"] = outcome]
    /\ UNCHANGED <<ask, callVars, judged, screened, mcpPaid, mcpSettled, mcpWorldVars>>

\* Mutant: an error leaves the payment good for another call.
Thrown_again == "challenge"

Thrown == "thrown"

\* Only diligence catches the errors of its lookups; attest throws before the
\* key's activation.
Respond(c) ==
    /\ mcpPhase[c] = "lookup"
    /\ \A k \in Checks : results[c][k] # "pending"
    /\ LET uncaught == ask[c].tool # "diligence" /\ \E k \in Wants(c) : results[c][k] = "error"
       IN  McpAnswer(c, IF uncaught \/ ~mcpSigning THEN Thrown ELSE "signed")
    /\ UNCHANGED <<ask, judged, results, screened, mcpPaid, mcpSettled, mcpWorldVars>>

----------------------------------------------------------------------------
(* The world.                                                              *)

Activate ==
    /\ store.version < LastVersion
    /\ store' = [version |-> store.version + 1, usable |-> TRUE]
    /\ UNCHANGED <<ask, callVars, judged, results, screened, mcpPaid, mcpSettled, mcpSigning>>

StoreFlips ==
    /\ store' = [store EXCEPT !.usable = ~@]
    /\ UNCHANGED <<ask, callVars, judged, results, screened, mcpPaid, mcpSettled, mcpSigning>>

McpSigningStarts ==
    /\ ~mcpSigning
    /\ mcpSigning' = TRUE
    /\ UNCHANGED <<ask, callVars, judged, results, screened, mcpPaid, mcpSettled, store>>

McpNext ==
    \/ \E c \in Calls : Start(c)
    \/ \E c \in Calls : McpChallenge(c)
    \/ \E c \in Calls : McpPay(c)
    \/ \E c \in Calls : McpAcceptPayment(c)
    \/ \E c \in Calls : McpPaymentFailed(c)
    \/ \E c \in Calls : ScreenWallet(c)
    \/ \E c \in Calls : CheckCompany(c)
    \/ \E c \in Calls : Respond(c)
    \/ Activate
    \/ StoreFlips
    \/ McpSigningStarts

McpSpec == McpInit /\ [][McpNext]_mcpVars

(***************************************************************************)
(* Every await ends, a client that has paid calls again, and the library   *)
(* does not refuse a good payment for ever.                                *)
(***************************************************************************)
McpFairness ==
    \A c \in Calls :
        /\ WF_mcpVars(c \in mcpPaid /\ Start(c)) /\ WF_mcpVars(McpChallenge(c)) /\ SF_mcpVars(McpAcceptPayment(c))
        /\ WF_mcpVars(ScreenWallet(c)) /\ WF_mcpVars(CheckCompany(c)) /\ WF_mcpVars(Respond(c))

McpFairSpec == McpSpec /\ McpFairness

----------------------------------------------------------------------------
(* Properties.                                                             *)

\* The state stays within its types, and only what was asked for is looked up.
McpTypeOK ==
    /\ ask \in [Calls -> Asks]
    /\ mcpPhase \in [Calls -> {"idle", "charge", "lookup"}]
    /\ mcpReply \in [Calls -> McpReplies]
    /\ pinned \in [Calls -> 0 .. LastVersion] /\ judged \in [Calls -> 0 .. LastVersion]
    /\ screened \in [Calls -> 0 .. LastVersion]
    /\ results \in [Calls -> [Checks -> Outcomes]]
    /\ \A c \in Calls, k \in Checks : results[c][k] # "none" => k \in Wants(c) /\ c \in mcpSettled
    /\ mcpSettled \subseteq mcpPaid /\ mcpPaid \subseteq Calls
    /\ store \in [version : 1 .. LastVersion, usable : BOOLEAN]
    /\ mcpSigning \in BOOLEAN

\* A paid wallet screening has a result, from the very snapshot that was found
\* usable before the charge, whatever is activated or goes stale while the client
\* pays (runWithPinnedSnapshot around the charge).
WalletScreenedFromJudged ==
    \A c \in Calls : results[c]["wallet"] \in {"ok", "error"} =>
        results[c]["wallet"] = "ok" /\ screened[c] = judged[c]

\* Nobody pays for a call whose arguments are refused: nothing to check, or no wallet
\* address, is noticed before any charge, however the tools are mixed.  No more is promised:
\* the tools charge without asking whether attest can sign or the company registry
\* answers, so a call that was paid for may still throw.
UsageErrorsAreFree ==
    \A c \in Calls : Wants(c) = {} \/ ask[c].wallet = "invalid" => c \notin mcpPaid

McpStage(c) ==
    IF c \notin mcpPaid THEN "open"
    ELSE IF c \notin mcpSettled THEN "paid"
    ELSE IF mcpReply[c] = "signed" THEN "served"
    ELSE IF mcpReply[c] = "thrown" THEN "failed"
    ELSE "accepted"

McpLedger == INSTANCE PurchaseLedger WITH
    purchase <- [c \in Calls |-> McpStage(c)],
    firm <- {},
    Clients <- Calls

\* A payment is accepted once and its purchase answered once, as over HTTP.
McpKeepsLedger == McpLedger!Spec

\* A client that has paid is answered, once the snapshot store stays usable.
McpPaidIsAnswered == <>[]store.usable => \A c \in Calls : (c \in mcpPaid) ~> McpFinal(c)

\* A wallet that was paid for has a result, of the snapshot that was judged before the
\* charge, whatever other calls pin; and refused arguments cost nothing (screen_wallet,
\* diligence).
CallsAreSound == McpTypeOK /\ WalletScreenedFromJudged /\ UsageErrorsAreFree

\* A payment to a tool is accepted once, answered once, and answered in the end.
McpPurchasesEnd == McpKeepsLedger /\ McpPaidIsAnswered
=============================================================================
