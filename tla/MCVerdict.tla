------------------------------ MODULE MCVerdict ------------------------------
(***************************************************************************)
(* Verdict on a small instance: the list may be empty, as long as the      *)
(* limit, or longer, and is longer than the number of workers.             *)
(***************************************************************************)
EXTENDS Verdict
=============================================================================
