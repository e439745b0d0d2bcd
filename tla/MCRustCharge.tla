---------------------------- MODULE MCRustCharge ----------------------------
(* Small instances of RustCharge for TLC: a cheap and a dear payment,      *)
(* routes with and without an expected request, credentials good and bad.  *)
EXTENDS RustCharge, TLC

CONSTANTS p1, p2, p3, r1, r0

\* p1 and p3 pay the price 1 (p3 with fee sponsorship), p2 pays 2.
MCTx == [p \in Payments |->
  [amount |-> IF p = p2 THEN 2 ELSE 1, currency |-> "USDC", recipient |-> "shop",
   fee_payer |-> p = p3, surfpool |-> FALSE]]

MCRoutes == {r1, r0}

\* r1 knows its price, r0 uses the simple API.
MCExpected == [r \in MCRoutes |->
  IF r = r1 THEN ChargeWithOptions(1, 1).request ELSE None]

Cheap == ChargeWithOptions(1, 1)
Dear == ChargeWithOptions(2, None)
OtherRealm == [Cheap EXCEPT !.realm = "elsewhere"]
Forged == [Dear EXCEPT !.request.amount = 1]

MCCredentials ==
  {cred \in [challenge : {Cheap, Dear, OtherRealm, Forged},
             type : {"transaction", "signature"}, payment : Payments, text : Texts] :
     cred.type = "signature" => cred.text = "plain"}

WorkerSymmetry == Permutations(Workers)

=============================================================================
