---------------------------- MODULE MCRateLimit ----------------------------
(***************************************************************************)
(* The rate limiter with three callers: one that pays and is counted under *)
(* its address before and its credential afterwards, one whose credential  *)
(* shares its prefix with the first one's, and one that sends no header.   *)
(***************************************************************************)
EXTENDS RateLimit

MCCallers == {"payer", "cousin", "nameless"}
MCPrefixOf == [c \in {"credA", "credB"} |-> "prefix"]

Bare == [authorization |-> "none", forwardedFor |-> "none"]
MCSends == [c \in MCCallers |->
    CASE c = "payer" -> {[Bare EXCEPT !.forwardedFor = "ip1"],
                         [Bare EXCEPT !.forwardedFor = "ip1", !.authorization = "credA"]}
      [] c = "cousin" -> {[Bare EXCEPT !.forwardedFor = "ip2", !.authorization = "credB"]}
      [] c = "nameless" -> {Bare}]

MCOneCaller == {"payer"}
MCOneSends == [c \in MCOneCaller |-> MCSends[c]]
=============================================================================
