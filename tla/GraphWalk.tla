----------------------------- MODULE GraphWalk -----------------------------
(***************************************************************************)
(* The walk validateBundlePayload makes over a bundle's records            *)
(* (src/packages/agent-evidence/src/graph.ts): depth first along the       *)
(* parent links, from the records that have no children.                   *)
(*                                                                         *)
(* A recursive call of `visit` is an entry of the stack; which of its      *)
(* parents a call takes next is left open.                                 *)
(***************************************************************************)
EXTENDS Naturals, FiniteSets, Sequences

CONSTANT Nodes  \* the records of the bundle

ASSUME NodesAssumption == IsFiniteSet(Nodes)

VARIABLES
    parents,    \* the parent links, which the earlier checks found complete and not to itself
    roots,      \* expectedRoots that are still to be visited
    stack,      \* the calls of visit in progress
    todo,       \* the parents each of them has not visited yet
    visiting, visited,
    outcome     \* "walking", or how it ended

vars == <<parents, roots, stack, todo, visiting, visited, outcome>>

\* The records no record has as a parent.
ExpectedRoots == {n \in Nodes : \A m \in Nodes : n \notin parents[m]}

Top == stack[Len(stack)]

\* Mutant: a record already visited is not told from one in progress.
Visit_once(n) ==
    /\ IF n \in visiting \union visited
       THEN outcome' = "cycle" /\ UNCHANGED <<stack, visiting>>
       ELSE stack' = Append(stack, n) /\ visiting' = visiting \union {n} /\ UNCHANGED outcome
    /\ UNCHANGED <<parents, visited>>

\* Mutant: a record in progress is taken for one already visited.
Visit_blind(n) ==
    /\ IF n \in visiting \union visited THEN UNCHANGED <<stack, visiting>>
       ELSE stack' = Append(stack, n) /\ visiting' = visiting \union {n}
    /\ UNCHANGED <<parents, visited, outcome>>

\* Mutant: visiting is not looked at.
Visit_forgetful(n) ==
    /\ IF n \in visited THEN UNCHANGED <<stack, visiting>>
       ELSE stack' = Append(stack, n) /\ visiting' = visiting \union {n}
    /\ UNCHANGED <<parents, visited, outcome>>

\* A call of visit, up to its loop.
Visit(n) ==
    /\ IF n \in visiting THEN outcome' = "cycle" /\ UNCHANGED <<stack, visiting>>
       ELSE /\ IF n \in visited THEN UNCHANGED <<stack, visiting>>
               ELSE stack' = Append(stack, n) /\ visiting' = visiting \union {n}
            /\ UNCHANGED outcome
    /\ UNCHANGED <<parents, visited>>

Root ==
    /\ outcome = "walking" /\ stack = <<>>
    /\ \E n \in roots : Visit(n) /\ roots' = roots \ {n}
    /\ UNCHANGED todo

Parent ==
    /\ outcome = "walking" /\ stack # <<>>
    /\ \E n \in todo[Top] : Visit(n) /\ todo' = [todo EXCEPT ![Top] = @ \ {n}]
    /\ UNCHANGED roots

\* Mutant: visiting is never shortened.
Leave_lingering ==
    /\ outcome = "walking" /\ stack # <<>> /\ todo[Top] = {}
    /\ stack' = SubSeq(stack, 1, Len(stack) - 1)
    /\ visited' = visited \union {Top}
    /\ UNCHANGED <<parents, roots, todo, visiting, outcome>>

Leave ==
    /\ outcome = "walking" /\ stack # <<>> /\ todo[Top] = {}
    /\ stack' = SubSeq(stack, 1, Len(stack) - 1)
    /\ visiting' = visiting \ {Top} /\ visited' = visited \union {Top}
    /\ UNCHANGED <<parents, roots, todo, outcome>>

\* Mutant: the number of visited records is not compared.
Finish_lenient ==
    /\ outcome = "walking" /\ stack = <<>> /\ roots = {}
    /\ outcome' = "accepted"
    /\ UNCHANGED <<parents, roots, stack, todo, visiting, visited>>

\* Mutant: the walk is expected to have visited everything.
Finish_strict ==
    /\ outcome = "walking" /\ stack = <<>> /\ roots = {} /\ visited = Nodes
    /\ outcome' = "accepted"
    /\ UNCHANGED <<parents, roots, stack, todo, visiting, visited>>

Finish ==
    /\ outcome = "walking" /\ stack = <<>> /\ roots = {}
    /\ outcome' = IF visited = Nodes THEN "accepted" ELSE "unreachable"
    /\ UNCHANGED <<parents, roots, stack, todo, visiting, visited>>

Init ==
    /\ parents \in {p \in [Nodes -> SUBSET Nodes] : \A n \in Nodes : n \notin p[n]}
    /\ roots = ExpectedRoots
    /\ stack = <<>> /\ todo = parents
    /\ visiting = {} /\ visited = {}
    /\ outcome = "walking"

Next == Root \/ Parent \/ Leave \/ Finish

Spec == Init /\ [][Next]_vars
FairSpec == Spec /\ WF_vars(Next)

----------------------------------------------------------------------------
(* Properties.                                                             *)

InStack == {stack[i] : i \in 1 .. Len(stack)}

\* Some records that are all parents of one another's descendants, in a ring.
Cyclic(p) == \E s \in (SUBSET Nodes) \ {{}} : \A n \in s : \E m \in s : n \in p[m]

TypeOK ==
    /\ parents \in [Nodes -> SUBSET Nodes] /\ todo \in [Nodes -> SUBSET Nodes]
    /\ roots \subseteq Nodes /\ visited \subseteq Nodes
    /\ stack \in Seq(Nodes) /\ visiting \subseteq InStack
    /\ outcome \in {"walking", "accepted", "cycle", "unreachable"}

\* The calls in progress follow the links, none of them twice: a record of
\* `visiting` is an ancestor's descendant, which is why meeting one is a cycle.
StackIsPath ==
    /\ visiting = InStack
    /\ \A i \in 1 .. Len(stack) - 1 : stack[i + 1] \in parents[stack[i]]
    /\ \A i, j \in 1 .. Len(stack) : stack[i] = stack[j] => i = j

\* What has been visited is complete: a bundle cannot be accepted over a part that
\* was skipped because another root leads there too.
VisitedIsComplete ==
    /\ visited \intersect visiting = {}
    /\ \A n \in visited : parents[n] \subseteq visited
    /\ \A i \in 1 .. Len(stack) :
        parents[stack[i]] \subseteq
            visited \union todo[stack[i]] \union (IF i < Len(stack) THEN {stack[i + 1]} ELSE {})
            \union (IF outcome = "cycle" THEN visiting ELSE {})

\* A bundle that is accepted has no cycle, not even a ring that no root leads to.
AcceptedIsAcyclic == outcome = "accepted" => ~Cyclic(parents)

\* A bundle is refused for a cycle only: records that share parents are none.
RefusedIsCyclic == outcome \in {"cycle", "unreachable"} => Cyclic(parents)

\* Whatever the graph, the walk ends.
Ends == <>(outcome # "walking")

\* The walk of validateBundlePayload tells graphs with a cycle from those without, over
\* every graph, and its stack and marks are right on the way there.
WalkIsRight ==
    TypeOK /\ StackIsPath /\ VisitedIsComplete /\ AcceptedIsAcyclic /\ RefusedIsCyclic
=============================================================================
