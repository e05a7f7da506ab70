--------------------------- MODULE PurchaseLedger ---------------------------
(***************************************************************************)
(* What the paid routes owe a client (src/src/server.ts, "The paid result  *)
(* contract is: pay only if a successful signed result can actually be     *)
(* produced"): an on-chain payment is accepted at most once, an accepted   *)
(* one is answered, and a firm purchase, one whose result depends on       *)
(* nothing but the data pinned before payment, is always served.           *)
(***************************************************************************)
CONSTANT Clients

VARIABLES
    purchase,   \* how far each client's purchase has come
    firm        \* the clients whose accepted purchase may not fail

ledgerVars == <<purchase, firm>>

Stages == {"open", "paid", "accepted", "served", "failed"}

Init ==
    /\ purchase = [c \in Clients |-> "open"]
    /\ firm \in SUBSET Clients

Move(c, from, to) ==
    /\ purchase[c] = from
    /\ purchase' = [purchase EXCEPT ![c] = to]
    /\ UNCHANGED firm

Pay(c) == Move(c, "open", "paid")
Accept(c) == Move(c, "paid", "accepted")
Serve(c) == Move(c, "accepted", "served")
Fail(c) == c \notin firm /\ Move(c, "accepted", "failed")

Next == \E c \in Clients : Pay(c) \/ Accept(c) \/ Serve(c) \/ Fail(c)

Spec == Init /\ [][Next]_ledgerVars
=============================================================================
