----------------------------- MODULE Redemption -----------------------------
(***************************************************************************)
(* What every charge server promises, whatever the order of its internal   *)
(* steps: a payment buys one response, and only once it is on the ledger.  *)
(***************************************************************************)
EXTENDS Naturals

CONSTANT Payments  \* transactions that can pay for something

VARIABLES
  landed,   \* payments that executed successfully on the ledger
  honoured  \* how many receipts each payment has bought

Init ==
  /\ landed = {}
  /\ honoured = [p \in Payments |-> 0]

Land(p) ==
  /\ p \notin landed
  /\ landed' = landed \cup {p}
  /\ UNCHANGED honoured

Honour(p) ==
  /\ p \in landed
  /\ honoured[p] = 0
  /\ honoured' = [honoured EXCEPT ![p] = 1]
  /\ UNCHANGED landed

Next == \E p \in Payments : Land(p) \/ Honour(p)

Spec == Init /\ [][Next]_<<landed, honoured>>

=============================================================================
