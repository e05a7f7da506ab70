--------------------------- MODULE MCKeyLifecycle ---------------------------
(***************************************************************************)
(* Three keys, so two rotations, and a few points in time.  The keys after *)
(* the first are interchangeable.                                          *)
(***************************************************************************)
EXTENDS KeyLifecycle, TLC

MCTimes == 0 .. LastTime
LaterKeys == Permutations(Keys \ {FirstKey})
=============================================================================
