--------------------------- MODULE LockTranscript ---------------------------
(***************************************************************************)
(* Replaying a lock-protocol transcript into evidence                      *)
(* (src/packages/agent-evidence/src/tclk.ts, technocore.ts): anyone posts  *)
(* signed messages in a room, and a reader is handed some of them, in any  *)
(* order, more than once, each with the time it was applied at.  Messages  *)
(* no reader is handed do not matter, so one is posted as it is read.      *)
(*                                                                         *)
(* A message is [did, by, frame]: by is whose key made its signature.  A   *)
(* frame is [type, from, to]: it speaks of the contract with the payee to, *)
(* which a contract's id commits to.  A party may sign a frame that names  *)
(* somebody else, or post what it signed as somebody else.  The state      *)
(* machine is the tclk library's, as tclk.ts and its tests use it.         *)
(* Spec and its kin say Lock: MCEvidence extends several specifications.   *)
(***************************************************************************)
EXTENDS Naturals, Sequences, FiniteSets

CONSTANTS
    Dids,               \* did:key identifiers, one for each party
    Expires, ClaimBy, RefundAfter, MaxTime,     \* an offer's deadlines, and a bound
    MaxRead,            \* bound of the model
    NoContract

ASSUME DeadlineAssumption == Expires <= ClaimBy /\ ClaimBy < RefundAfter /\ RefundAfter <= MaxTime
ASSUME ReadAssumption == {Expires, MaxTime, MaxRead} \subseteq Nat

VARIABLES
    state,      \* the contract as replayed so far, NoContract before an offer
    steps,      \* the steps recorded
    handed,     \* how many entries the reader was handed and took
    result      \* "reading", "thrown" or "returned"

lockVars == <<state, steps, handed, result>>

Types == {"offer", "accept", "lock", "reveal", "refund", "cancel"}
Frames == {f \in [type : Types, from : Dids, to : Dids] : f.type \in {"offer", "cancel"} => f.to = f.from}
Messages == [did : Dids, by : Dids, frame : Frames]

----------------------------------------------------------------------------
(* The tclk library.  A contract is [status, payer, payee].                *)

Terminal == {"claimed", "refunded", "cancelled"}

Statuses == {"proposed", "accepted", "locked"} \union Terminal

Contracts == [status : Statuses, payer : Dids, payee : Dids \union {NoContract}]

ASSUME NoContractAssumption == NoContract \notin Statuses /\ NoContract \notin Contracts

\* openContract.
Open(f) == [status |-> "proposed", payer |-> f.from, payee |-> NoContract]

Advance(c, f, at) ==
    CASE f.type = "accept" /\ c.status = "proposed" /\ f.from # c.payer /\ f.to = f.from /\ at <= Expires ->
            [c EXCEPT !.status = "accepted", !.payee = f.from]
      [] f.type = "lock" /\ c.status = "accepted" /\ f.from = c.payer /\ f.to = c.payee ->
            [c EXCEPT !.status = "locked"]
      [] f.type = "reveal" /\ c.status = "locked" /\ f.from = c.payee /\ f.to = c.payee /\ at <= ClaimBy ->
            [c EXCEPT !.status = "claimed"]
      [] f.type = "refund" /\ c.status = "locked" /\ f.from = c.payer /\ f.to = c.payee /\ at >= RefundAfter ->
            [c EXCEPT !.status = "refunded"]
      [] f.type = "cancel" /\ c.status \in {"proposed", "accepted"} /\ f.from \in {c.payer, c.payee} ->
            [c EXCEPT !.status = "cancelled"]
      [] OTHER -> NoContract

----------------------------------------------------------------------------
(* verifyTclkTranscript, one entry at a time.                              *)

\* verifyTechnocoreMessage.
Transported(m) == m.did = m.by

\* Mutant: the frame's own sender is not held against the message's.
Attributed_any(m) == Transported(m)

Attributed(m) == Transported(m) /\ m.frame.from = m.did

Throw == result' = "thrown" /\ UNCHANGED <<state, steps>>

Record(m, accepted) == steps' = Append(steps, [message |-> m, accepted |-> accepted])

\* Mutant: a step the machine rejects is left out.
Apply_silent(m, at) ==
    LET c == Advance(state, m.frame, at)
    IN  IF c = NoContract THEN UNCHANGED <<state, steps>> ELSE state' = c /\ Record(m, TRUE)

\* Mutant: a rejected step is recorded as accepted.
Apply_lenient(m, at) ==
    LET c == Advance(state, m.frame, at)
    IN  state' = (IF c = NoContract THEN state ELSE c) /\ Record(m, TRUE)

\* A frame the machine rejects is recorded and changes nothing.
Apply(m, at) ==
    LET c == Advance(state, m.frame, at)
    IN  state' = (IF c = NoContract THEN state ELSE c) /\ Record(m, c # NoContract)

\* Mutant: another offer opens another contract.
Offer_again(m) == state' = Open(m.frame) /\ Record(m, TRUE) /\ UNCHANGED result

Offer(m) ==
    IF state # NoContract THEN Throw
    ELSE state' = Open(m.frame) /\ Record(m, TRUE) /\ UNCHANGED result

Read(m, at) ==
    /\ result = "reading" /\ handed < MaxRead /\ handed' = handed + 1
    /\ IF ~Attributed(m) THEN Throw
       ELSE IF m.frame.type = "offer" THEN Offer(m)
       ELSE IF state = NoContract THEN Throw
       ELSE Apply(m, at) /\ UNCHANGED result

\* Mutant: a transcript that opened no contract is returned.
Finish_unopened ==
    /\ result = "reading" /\ result' = "returned"
    /\ UNCHANGED <<state, steps, handed>>

\* No entries, or a transcript that opened no contract, is refused.
LockFinish ==
    /\ result = "reading"
    /\ result' = IF state = NoContract THEN "thrown" ELSE "returned"
    /\ UNCHANGED <<state, steps, handed>>

LockInit == state = NoContract /\ steps = <<>> /\ handed = 0 /\ result = "reading"

LockNext ==
    \/ \E m \in Messages, at \in 1 .. MaxTime : Read(m, at)
    \/ LockFinish

LockSpec == LockInit /\ [][LockNext]_lockVars

----------------------------------------------------------------------------
(* Properties.                                                             *)

Status == IF state = NoContract THEN NoContract ELSE state.status
LockTypeOK ==
    /\ state # NoContract => state.payer \in Dids /\ state.payee \in Dids \union {NoContract}
    /\ \A i \in DOMAIN steps : steps[i].message \in Messages /\ steps[i].accepted \in BOOLEAN
    /\ result \in {"reading", "thrown", "returned"} /\ (result = "returned" => state # NoContract)

\* What d itself signed and posted as its own.
Said(d, type) ==
    \E i \in DOMAIN steps : LET m == steps[i].message IN
        m.by = d /\ m.did = d /\ m.frame.from = d /\ m.frame.type = type

\* No status is reached without the word of those it binds: whoever posts what, and in
\* whose name, a locked contract has a payer who offered and locked, and a payee who
\* accepted; a claimed one a payee who revealed, a refunded one a payer who reclaimed.
PartiesSaidSo ==
    /\ Status # NoContract => Said(state.payer, "offer")
    /\ Status \in {"accepted", "locked", "claimed", "refunded"} => Said(state.payee, "accept")
    /\ Status \in {"locked", "claimed", "refunded"} => Said(state.payer, "lock")
    /\ Status = "claimed" => Said(state.payee, "reveal")
    /\ Status = "refunded" => Said(state.payer, "refund")

Path == [proposed |-> {<<"offer">>}, accepted |-> {<<"offer", "accept">>},
         locked |-> {<<"offer", "accept", "lock">>}, claimed |-> {<<"offer", "accept", "lock", "reveal">>},
         refunded |-> {<<"offer", "accept", "lock", "refund">>},
         cancelled |-> {<<"offer", "cancel">>, <<"offer", "accept", "cancel">>}]

\* The steps that were accepted, and the place of one among them.
LockAccepted == {i \in DOMAIN steps : steps[i].accepted}
Place(i) == Cardinality({j \in LockAccepted : j <= i})

Follows(path) ==
    /\ Cardinality(LockAccepted) = Len(path)
    /\ \A i \in LockAccepted : steps[i].message.frame.type = path[Place(i)]

\* The steps a transcript's evidence lists as accepted are those that lead to the status
\* it states, each once and in order, however many others were read in between.
AcceptedLeadToStatus ==
    IF state = NoContract THEN steps = <<>> ELSE \E path \in Path[state.status] : Follows(path)

\* Every entry leaves a step or ends the replay: rejections are "never silently discarded" (tclk.ts:111-112).
NothingIsDropped ==
    result # "thrown" => Len(steps) = handed

\* A contract that is claimed, refunded or cancelled stays so whatever is read next.
OutcomeIsFinal == [][(Status \in Terminal) => state' = state]_lockVars

\* The evidence of a transcript is what the parties said, in the order they said it, and
\* says of everything that was read what became of it, for good (verifyTclkTranscript).
TranscriptIsSaid ==
    [](LockTypeOK /\ PartiesSaidSo /\ AcceptedLeadToStatus /\ NothingIsDropped) /\ OutcomeIsFinal
=============================================================================
