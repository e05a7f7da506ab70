--------------------------- MODULE EvidenceGraph ---------------------------
(***************************************************************************)
(* Evidence records and the bundle they are assembled into                 *)
(* (src/packages/agent-evidence/src/records.ts and graph.ts): the helpers  *)
(* build records on records, by hand others are built, and                 *)
(* validateBundlePayload judges what is put into one bundle.               *)
(*                                                                         *)
(* A record's id is the hash of its content, so here a record is its own   *)
(* id: references hold the record they name.  A received record whose id   *)
(* is not that hash is refused before anything else and left out, and no   *)
(* cycle is left for the walk to find (see GraphWalk).  Arrays that must   *)
(* be sorted and unique are sets.                                          *)
(* Spec and its kin say Graph: MCEvidence extends several specifications.  *)
(***************************************************************************)
EXTENDS Naturals, FiniteSets

CONSTANTS
    Times,      \* points in time
    Terms,      \* the [from, until] a mandate may state
    Effects,    \* the [from, until] a policy may state
    Digests,    \* digests of policies
    Cap,        \* how many records of a kind are built (a bound of the model)
    MaxRecords, \* how many in all (a bound of the model)
    None

ASSUME TimesAssumption == Times \subseteq Nat /\ \A i \in Terms \union Effects : {i.from, i.until} \subseteq Times
Kinds == {"principal", "agent", "mandate", "run", "evidence", "policy", "decision", "execution"}

ASSUME CapAssumption == MaxRecords \in Nat /\ \A kind \in Kinds : Cap[kind] \in Nat

VARIABLES
    built,      \* the records that were built
    byHand,     \* whether one of them was not built by its helper
    bundle      \* the payload that was assembled, None before

graphVars == <<built, byHand, bundle>>

OfKind(rs, kinds) == {r \in rs : r.kind \in kinds}

----------------------------------------------------------------------------
(* createRecord, and the helpers.                                          *)

MinParents(kind) == CASE kind = "principal" -> 0 [] kind = "agent" -> 0 [] kind = "run" -> 2
                      [] kind = "decision" -> 3 [] OTHER -> 1

\* record.schema.json, as far as parents go.
MeetsSchema(r) ==
    /\ Cardinality(r.parents) >= MinParents(r.kind)
    /\ r.kind = "principal" => r.parents = {}

Principal == [kind |-> "principal", parents |-> {}]

AgentRecord(operator) ==
    [kind |-> "agent", operator |-> operator, parents |-> {operator} \ {None}]

Mandate(principal, i) ==
    [kind |-> "mandate", principal |-> principal, from |-> i.from, until |-> i.until, parents |-> {principal}]

Run(agent, mandate, started) ==
    [kind |-> "run", agent |-> agent, mandate |-> mandate, started |-> started, parents |-> {agent, mandate}]

\* Mutant: evidence that builds on other evidence does not name the run again.
Evidence_inherits(run, prior) ==
    [kind |-> "evidence", run |-> run, bound |-> TRUE, parents |-> IF prior = {} THEN {run} ELSE prior]

\* bound: the digest is that of the embedded value (resolveDigest).
Evidence(run, prior) ==
    [kind |-> "evidence", run |-> run, bound |-> TRUE, parents |-> {run} \union prior]

Policy(over, i, digest) ==
    [kind |-> "policy", from |-> i.from, until |-> i.until, digest |-> digest, bound |-> TRUE, parents |-> over]

Decision(run, agent, policy, evidence, at) ==
    [kind |-> "decision", run |-> run, agent |-> agent, policy |-> policy, digest |-> policy.digest,
     evidence |-> evidence, at |-> at, parents |-> {run, policy} \union evidence]

\* complete: an onchain execution has its network, hash and digest.
Execution(decision, complete) ==
    [kind |-> "execution", decision |-> decision, complete |-> complete, parents |-> {decision}]

\* What the helpers make of the records built so far; each refuses other kinds.
ByHelper ==
    LET principals == OfKind(built, {"principal"})  agents == OfKind(built, {"agent"})
        mandates == OfKind(built, {"mandate"})      runs == OfKind(built, {"run"})
        evidences == OfKind(built, {"evidence"})    policies == OfKind(built, {"policy"})
        some(rs) == (SUBSET rs) \ {{}}
    IN  {Principal} \union {AgentRecord(o) : o \in principals \union {None}}
        \union {Mandate(p, i) : p \in principals, i \in Terms}
        \union {Run(a, m, t) : a \in agents, m \in mandates, t \in Times}
        \union {Evidence(r, prior) : r \in runs, prior \in SUBSET evidences}
        \union {Policy(over, i, d) : over \in some(runs \union mandates), i \in Effects, d \in Digests}
        \union {Decision(r, a, p, es, t) : r \in runs, a \in agents, p \in policies, es \in some(evidences), t \in Times}
        \union {Execution(d, complete) : d \in OfKind(built, {"decision"}), complete \in BOOLEAN}

\* What createRecord takes besides: other parents, another digest.
Altered(r) ==
    {[r EXCEPT !.parents = ps] : ps \in {r.parents \ {p} : p \in r.parents} \union {r.parents \union {q} : q \in built}}
    \union (IF r.kind \in {"policy", "evidence"} THEN {[r EXCEPT !.bound = FALSE]} ELSE {})
    \union (IF r.kind = "decision" THEN {[r EXCEPT !.digest = d] : d \in Digests} ELSE {})

\* Mutant: a record is not held against the schema.
Build_unchecked(r) ==
    /\ bundle = None /\ r \notin built /\ Cardinality(built) < MaxRecords
    /\ Cardinality(OfKind(built, {r.kind})) < Cap[r.kind]
    /\ built' = built \union {r}
    /\ UNCHANGED bundle

Build(r) ==
    /\ bundle = None /\ r \notin built /\ MeetsSchema(r) /\ Cardinality(built) < MaxRecords
    /\ Cardinality(OfKind(built, {r.kind})) < Cap[r.kind]
    /\ built' = built \union {r}
    /\ UNCHANGED bundle

WithHelper == \E r \in ByHelper : Build(r) /\ UNCHANGED byHand

WithoutHelper ==
    /\ ~byHand /\ byHand' = TRUE
    /\ \E h \in ByHelper : \E r \in Altered(h) \ ByHelper : Build(r)

----------------------------------------------------------------------------
(* validateBundlePayload on a payload [records, run, roots].               *)

InOrder(r) == r.from <= r.until
Within(t, r) == r.from <= t /\ t <= r.until

\* requireRecord.
Resolves(rs, ref, kind) == ref \in rs /\ ref.kind = kind

\* Mutant: the records without children are only required to be among the roots.
RootsComplete_among(p) == {r \in p.records : \A q \in p.records : r \notin q.parents} \subseteq p.roots

RootsComplete(p) == p.roots = {r \in p.records : \A q \in p.records : r \notin q.parents}

SingleRun(p) == OfKind(p.records, {"run"}) = {p.run}

AgentRule(rs, r) ==
    /\ r.operator # None => Resolves(rs, r.operator, "principal") /\ r.operator \in r.parents
    /\ \A q \in r.parents : q.kind = "principal"

MandateRule(rs, r) ==
    /\ Resolves(rs, r.principal, "principal") /\ r.principal \in r.parents
    /\ \A q \in r.parents : q.kind = "principal"
    /\ InOrder(r)

\* Mutant: the run's time is not held against the mandate's.
RunRule_anytime(rs, r) ==
    /\ Resolves(rs, r.agent, "agent") /\ Resolves(rs, r.mandate, "mandate")
    /\ r.parents = {r.agent, r.mandate}

RunRule(rs, r) ==
    /\ Resolves(rs, r.agent, "agent") /\ Resolves(rs, r.mandate, "mandate")
    /\ r.parents = {r.agent, r.mandate}
    /\ Within(r.started, r.mandate)

\* Mutant: evidence may do with evidence for parents.
EvidenceRule_chain(rs, r) ==
    /\ Resolves(rs, r.run, "run")
    /\ \A q \in r.parents : q.kind \in {"run", "evidence"}

EvidenceRule(rs, r) ==
    /\ Resolves(rs, r.run, "run") /\ r.run \in r.parents
    /\ \A q \in r.parents : q.kind \in {"run", "evidence"}

PolicyRule(r) ==
    /\ r.parents # {} /\ \A q \in r.parents : q.kind \in {"run", "mandate"}
    /\ InOrder(r)

DecisionRule(rs, r) ==
    /\ Resolves(rs, r.run, "run") /\ Resolves(rs, r.agent, "agent") /\ Resolves(rs, r.policy, "policy")
    /\ \A e \in r.evidence : Resolves(rs, e, "evidence")
    /\ r.parents = {r.run, r.policy} \union r.evidence
    /\ r.digest = r.policy.digest
    /\ Within(r.at, r.policy)

ExecutionRule(rs, r) ==
    /\ Resolves(rs, r.decision, "decision") /\ r.parents = {r.decision}
    /\ r.complete

KindRule(rs, r) ==
    CASE r.kind = "principal" -> r.parents = {}
      [] r.kind = "agent" -> AgentRule(rs, r)
      [] r.kind = "mandate" -> MandateRule(rs, r)
      [] r.kind = "run" -> RunRule(rs, r)
      [] r.kind = "evidence" -> EvidenceRule(rs, r)
      [] r.kind = "policy" -> PolicyRule(r)
      [] r.kind = "decision" -> DecisionRule(rs, r)
      [] OTHER -> ExecutionRule(rs, r)

Valid(p) ==
    /\ p.records # {} /\ \A r \in p.records : r.parents \subseteq p.records
    /\ \A r \in OfKind(p.records, {"evidence", "policy"}) : r.bound
    /\ SingleRun(p)
    /\ RootsComplete(p)
    /\ \A r \in p.records : KindRule(p.records, r)

----------------------------------------------------------------------------
(* createBundlePayload: of the records built, or all of them but one; the  *)
(* caller may name the run.                                                *)

Payload(rs, run) ==
    [records |-> rs, run |-> run, roots |-> {r \in rs : \A q \in rs : r \notin q.parents}]

Assemble ==
    /\ bundle = None
    /\ \E rs \in {built} \union {built \ {r} : r \in built}, run \in OfKind(built, {"run"}) :
        bundle' = [payload |-> Payload(rs, run), accepted |-> Valid(Payload(rs, run))]
    /\ UNCHANGED <<built, byHand>>

GraphInit == built = {} /\ byHand = FALSE /\ bundle = None

GraphNext == WithHelper \/ WithoutHelper \/ Assemble

GraphSpec == GraphInit /\ [][GraphNext]_graphVars

----------------------------------------------------------------------------
(* Properties.                                                             *)

Accepted == bundle # None /\ bundle.accepted
Members == bundle.payload.records

GraphTypeOK ==
    /\ \A r \in built : MeetsSchema(r) /\ Cardinality(OfKind(built, {r.kind})) <= Cap[r.kind]
    /\ byHand \in BOOLEAN
    /\ bundle # None => Members \subseteq built /\ bundle.payload.roots \subseteq Members
    /\ Accepted => Cardinality(OfKind(Members, {"run"})) = 1

\* What a record refers to.
References(r) ==
    CASE r.kind = "agent" -> {r.operator} \ {None}
      [] r.kind = "mandate" -> {r.principal}
      [] r.kind = "run" -> {r.agent, r.mandate}
      [] r.kind = "evidence" -> {r.run}
      [] r.kind = "decision" -> {r.run, r.agent, r.policy} \union r.evidence
      [] r.kind = "execution" -> {r.decision}
      [] OTHER -> {}

\* Times that the validator alone compares: a helper has no say in them.
TimesAgree(rs) ==
    /\ \A r \in OfKind(rs, {"mandate", "policy"}) : InOrder(r)
    /\ \A r \in OfKind(rs, {"run"}) : Within(r.started, r.mandate)
    /\ \A r \in OfKind(rs, {"decision"}) : Within(r.at, r.policy)

\* The helpers build what the validator accepts: with one run, all that is
\* referred to, times that agree and complete executions, a bundle of their
\* records is valid (records.ts and graph.ts state the rules twice).
HelpersAssemble ==
    bundle # None /\ ~byHand =>
        LET rs == Members IN
        /\ \A r \in rs : r.parents \union References(r) \subseteq rs
        /\ OfKind(rs, {"run"}) = {bundle.payload.run}
        /\ TimesAgree(rs) /\ \A r \in OfKind(rs, {"execution"}) : r.complete
        => bundle.accepted

\* However its records were built, an accepted execution goes back to a decision on
\* evidence and a policy in force, both of the single run, which a mandate of a
\* principal covered when it started.
AuthorityChain ==
    Accepted => \A x \in OfKind(Members, {"execution"}) :
        LET d == x.decision
            run == bundle.payload.run
        IN  /\ d \in Members /\ d.run = run /\ d.evidence # {}
            /\ \A e \in d.evidence : e \in Members /\ e.run = run
            /\ Within(d.at, d.policy) /\ d.digest = d.policy.digest
            /\ Within(run.started, run.mandate) /\ run.mandate.principal \in Members

\* What a record refers to is in the bundle and, but for a decision's agent, among
\* its parents: the walk from the roots passes everything a record relies on.
ReferencesAreWalked ==
    Accepted => \A r \in Members :
        /\ References(r) \subseteq Members
        /\ References(r) \ (IF r.kind = "decision" THEN {r.agent} ELSE {}) \subseteq r.parents

\* No record can be taken out of an accepted payload unnoticed, a last decision or
\* execution included (root_ids, AGENT_EVIDENCE_V0.md section 4).
RemovalIsNoticed ==
    Accepted => \A r \in Members : ~Valid([bundle.payload EXCEPT !.records = @ \ {r}])

\* A bundle is accepted if the helpers built it, and only if it hangs together and is
\* all there (records.ts, graph.ts).
AcceptedHangsTogether ==
    GraphTypeOK /\ HelpersAssemble /\ AuthorityChain /\ ReferencesAreWalked /\ RemovalIsNoticed
=============================================================================
