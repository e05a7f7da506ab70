------------------------------ MODULE MCBreaker ------------------------------
(***************************************************************************)
(* Three overlapping calls.  The times keep the order of the code's        *)
(* constants (3 s < 30 s < 60 s) and separate every comparison it makes.   *)
(***************************************************************************)
EXTENDS Breaker

CONSTANTS c1, c2, c3

MCCallers == {c1, c2, c3}
=============================================================================
