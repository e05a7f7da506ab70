---------------------------- MODULE FixedWindow ----------------------------
(***************************************************************************)
(* What a rate limiter with fixed windows promises (src/src/rateLimit.ts,  *)
(* "Max requests allowed per caller within the window"): each key has a    *)
(* window that its first request opens, Max requests are allowed in it,    *)
(* further ones are refused, and when it is over the next request opens    *)
(* another.  There is no map here, and nothing to clean up.                *)
(***************************************************************************)
EXTENDS Naturals

CONSTANTS Keys, Max, Window

VARIABLES
    used,       \* requests allowed in each key's window
    left,       \* time until each key's window is over, 0 when there is none
    said        \* the last request's key and whether it was allowed, if any

windowVars == <<used, left, said>>

Init ==
    /\ used = [k \in Keys |-> 0]
    /\ left = [k \in Keys |-> 0]
    /\ said = {}

Open(k) ==
    /\ left[k] = 0
    /\ used' = [used EXCEPT ![k] = 1]
    /\ left' = [left EXCEPT ![k] = Window]
    /\ said' = {<<k, TRUE>>}

Allow(k) ==
    /\ left[k] > 0 /\ used[k] < Max
    /\ used' = [used EXCEPT ![k] = @ + 1]
    /\ said' = {<<k, TRUE>>}
    /\ UNCHANGED left

Refuse(k) ==
    /\ left[k] > 0 /\ used[k] = Max
    /\ said' = {<<k, FALSE>>}
    /\ UNCHANGED <<used, left>>

\* Time passes for every key; a window that ends takes its count with it.
Pass ==
    /\ left' = [k \in Keys |-> IF left[k] = 0 THEN 0 ELSE left[k] - 1]
    /\ used' = [k \in Keys |-> IF left[k] <= 1 THEN 0 ELSE used[k]]
    /\ said' = {}

Next == Pass \/ \E k \in Keys : Open(k) \/ Allow(k) \/ Refuse(k)

Spec == Init /\ [][Next]_windowVars
=============================================================================
