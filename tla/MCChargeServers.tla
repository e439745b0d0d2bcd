--------------------------- MODULE MCChargeServers ---------------------------
(* Small instances of ChargeServers for TLC: a cheap and a dear payment,    *)
(* routes with and without an expected request, credentials good and bad.   *)
EXTENDS ChargeServers, TLC

CONSTANTS p1, p2, r1, r0

\* p1 pays the price 1, p2 pays 2.
MCTx == [p \in Payments |->
  [amount |-> IF p = p2 THEN 2 ELSE 1, currency |-> "USDC", recipient |-> "shop",
   fee_payer |-> FALSE, surfpool |-> FALSE]]

MCRoutes == {r1, r0}

PriceRequest(amount) ==
  [amount |-> amount, currency |-> Currency, recipient |-> Recipient, fee_payer |-> FALSE]

\* r1 knows its price, r0 uses the simple API.
MCExpected == [r \in MCRoutes |-> IF r = r1 THEN PriceRequest(1) ELSE None]

\* The TypeScript framework always knows it: r0 costs 2.
MCRoutePrices == [r \in MCRoutes |-> PriceRequest(IF r = r1 THEN 1 ELSE 2)]

Issued(amount, expires) ==
  LET c == [realm |-> Realm, method |-> "solana", intent |-> "charge",
            request |-> PriceRequest(amount), expires |-> expires]
  IN c @@ [id |-> Hmac(Realm, c)]

Cheap == Issued(1, 1)
Dear == Issued(2, None)

\* Without fee sponsorship every server issues these.
ASSUME IssuedAlike ==
  \A amount \in {1, 2}, expires \in {1, None} :
    {Go!ChargeWithOptions(amount, expires), Lua!ChargeWithOptions(amount, expires),
     Python!ChargeWithOptions(amount, expires), TypeScript!Issue(amount, expires)}
      = {Issued(amount, expires)}

OtherRealm == [Cheap EXCEPT !.realm = "elsewhere"]
Forged == [Dear EXCEPT !.request.amount = 1]

MCCredentials ==
  {cred \in [challenge : {Cheap, Dear, OtherRealm, Forged},
             type : {"transaction", "signature"}, payment : Payments, text : Texts] :
     cred.text = "spaced" => cred.type = "transaction" /\ cred.challenge = Dear}

MCOneForm ==
  {cred \in MCCredentials :
     cred.text = "plain" /\ (cred.type = "transaction" <=> cred.payment = p1)}

=============================================================================
