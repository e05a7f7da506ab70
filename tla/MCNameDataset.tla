---------------------------- MODULE MCNameDataset ----------------------------
(***************************************************************************)
(* The two halves of the name list's upkeep, each with a model of its own: *)
(* a behaviour is one of the cache (overlapping calls, and lists of which  *)
(* one is an implausible reduction; the times keep the order of the code's *)
(* constants, 15 s < 60 s < 6 h < 24 h) or one of the validation (lists of *)
(* up to three records, of which one in three may be lost, and aliases of  *)
(* which one row in three may have no record).  The half it is not about   *)
(* rests.                                                                  *)
(***************************************************************************)
EXTENDS NameDataset, ListValidation

CONSTANTS c1, c2

MCCallers == {c1, c2}
MCSizes == {8, 9, 10}

VARIABLE half

allVars == <<half, vars, validationVars>>

CacheRests == source = 0 /\ Init
ValidationRests == published = [sdn |-> Ents, alt |-> Ents] /\ ValidationInit

MCInit ==
    \/ half = "cache" /\ Init /\ ValidationRests
    \/ half = "validation" /\ ValidationInit /\ CacheRests

MCNext ==
    \/ half = "cache" /\ Next /\ UNCHANGED <<half, validationVars>>
    \/ half = "validation" /\ ValidationNext /\ UNCHANGED <<half, vars>>

MCSpec == MCInit /\ [][MCNext]_allVars /\ (half = "cache" => Fairness)
=============================================================================
