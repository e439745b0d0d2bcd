---------------------------- MODULE MCTypeScriptCharge ----------------------------
(* Small instances of TypeScriptCharge for TLC: a cheap and a dear payment,*)
(* routes with and without an expected request, credentials good and bad.  *)
EXTENDS TypeScriptCharge, TLC

CONSTANTS p1, p2, p3, r1, r0

\* p1 and p3 pay the price 1 (p3 with fee sponsorship), p2 pays 2.
MCTx == [p \in Payments |->
  [amount |-> IF p = p2 THEN 2 ELSE 1, currency |-> "USDC", recipient |-> "shop",
   fee_payer |-> p = p3, surfpool |-> FALSE]]

MCRoutes == {r1, r0}

\* The framework compares with the route's own request: r1 costs 1, r0 costs 2.
MCExpected == [r \in MCRoutes |-> RouteRequest(IF r = r1 THEN 1 ELSE 2)]

Cheap == Issue(1, 1)
Dear == Issue(2, None)
OtherRealm == [Cheap EXCEPT !.realm = "elsewhere"]
Forged == [Dear EXCEPT !.request.amount = 1]

MCCredentials ==
  {cred \in [challenge : {Cheap, Dear, OtherRealm, Forged},
             type : {"transaction", "signature"}, payment : Payments, text : Texts] :
     cred.type = "signature" => cred.text = "plain"}

WorkerSymmetry == Permutations(Workers)

=============================================================================
