----------------------------- MODULE MCEvidence -----------------------------
(***************************************************************************)
(* Evidence put together and read, of one kind in each behaviour:          *)
(*   walk   every graph on four records: rings of two to four, rings no    *)
(*          root leads to, records shared by several children              *)
(*   graph  records of each kind, two where it matters (a second run,      *)
(*          evidence that builds on evidence); one may be built by hand    *)
(*   lock   the transcript of two parties, who also post in each other's   *)
(*          name                                                           *)
(* The others rest: the walk at its end, the rest where it begins.         *)
(***************************************************************************)
EXTENDS GraphWalk, EvidenceGraph, LockTranscript

MCTimes == 1 .. 2
MCTerms == {[from |-> 1, until |-> 1]}
MCEffects == {[from |-> 2, until |-> 2]}
MCCap == [principal |-> 1, agent |-> 1, mandate |-> 1, run |-> 2, evidence |-> 2,
          policy |-> 1, decision |-> 1, execution |-> 1]

VARIABLE kind

allVars == <<kind, vars, graphVars, lockVars>>

\* The end of the walk over records without links.
WalkRests ==
    /\ parents = [n \in Nodes |-> {}] /\ todo = parents /\ roots = {}
    /\ stack = <<>> /\ visiting = {} /\ visited = Nodes /\ outcome = "accepted"

MCInit ==
    \/ kind = "walk" /\ Init /\ GraphInit /\ LockInit
    \/ kind \in {"graph", "lock"} /\ WalkRests /\ GraphInit /\ LockInit

MCNext ==
    /\ UNCHANGED kind
    /\ \/ kind = "walk" /\ Next /\ UNCHANGED <<graphVars, lockVars>>
       \/ kind = "graph" /\ GraphNext /\ UNCHANGED <<vars, lockVars>>
       \/ kind = "lock" /\ LockNext /\ UNCHANGED <<vars, graphVars>>

MCSpec == MCInit /\ [][MCNext]_allVars /\ WF_vars(Next)
=============================================================================
