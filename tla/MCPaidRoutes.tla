---------------------------- MODULE MCPaidRoutes ----------------------------
(***************************************************************************)
(* Concurrent clients with every combination of requests, two snapshots,   *)
(* and a rate limit of one request per window.                             *)
(***************************************************************************)
EXTENDS PaidRoutes, TLC

CONSTANTS c1, c2

MCClients == {c1, c2}
MCOneClient == {c1}
MCSymmetry == Permutations(MCClients)
=============================================================================
