------------------------ MODULE MCChargeTransaction ------------------------
(* Charges, wallets and ledgers for TLC. *)
EXTENDS ChargeTransaction, TLC

CONSTANTS client, sponsor, shop, tax, stray

MCWallets == {client, sponsor, shop, tax, stray}
MCMints == {"usdc", "usdc-dev", "pyusd", "odd"}
MCTokenPrograms == {"token", "token-2022"}

\* "odd" is a Token-2022 mint the SDK does not know.
MCMintOwner == [m \in MCMints |-> IF m \in {"pyusd", "odd"} THEN "token-2022" ELSE "token"]

MCSymbolMint ==
  [USDC |-> [main |-> "usdc", devnet |-> "usdc-dev"],
   PYUSD |-> [main |-> "pyusd", devnet |-> "pyusd"]]

Split(to, amount, required, memo) ==
  [recipient |-> to, amount |-> amount, ata_required |-> required, memo |-> memo]

Charge(currency, amount, splits) ==
  [amount |-> amount, currency |-> currency, recipient |-> shop, external_id |-> None,
   network |-> "main", decimals |-> 6,
   token_program |-> IF currency \in {"usdc", "USDC"} THEN "token" ELSE None,
   fee_payer |-> FALSE, fee_payer_key |-> None, splits |-> splits]

Sponsored(c, key) == [c EXCEPT !.fee_payer = TRUE, !.fee_payer_key = key]
WithMemo(c, memo) == [c EXCEPT !.external_id = memo]

TwoAlike == <<Split(tax, 2, FALSE, "fee"), Split(tax, 2, FALSE, "fee")>>
Required == <<Split(tax, 1, TRUE, None)>>
Wrapping == <<Split(tax, 7, FALSE, None), Split(shop, 10, FALSE, None)>>
Nine == [i \in 1..9 |-> Split(tax, 1, FALSE, None)]

Charges ==
  {WithMemo(Charge("SOL", 5, <<>>), "order"),
   Charge("SOL", 5, TwoAlike),
   Sponsored(Charge("SOL", 5, <<Split(tax, 0, FALSE, "")>>), sponsor),
   Sponsored(WithMemo(Charge("SOL", 5, <<Split(shop, 2, FALSE, "tip")>>), "order"), sponsor),
   Sponsored(Charge("SOL", 3, <<>>), client),
   Sponsored(Charge("SOL", 3, <<>>), None),
   Charge("SOL", 3, Wrapping),
   Charge("SOL", 3, Required),
   Charge("SOL", None, <<>>),
   Charge("SOL", 3, <<Split(tax, 3, FALSE, None)>>),
   Charge("SOL", 3, <<Split(tax, None, FALSE, None)>>),
   Charge("SOL", 12, Nine),
   [Charge("SOL", 3, <<>>) EXCEPT !.recipient = "bad address"],
   WithMemo(Charge("SOL", 3, <<>>), "long"),
   Charge("usdc", 5, TwoAlike),
   Charge("usdc", 3, Required),
   Sponsored(Charge("usdc", 3, Required), sponsor),
   Sponsored(WithMemo(Charge("usdc", 5, TwoAlike), ""), sponsor),
   Charge("USDC", 3, Required),
   WithMemo(Sponsored(Charge("USDC", 3, <<Split(tax, 2, FALSE, None)>>), sponsor), "order"),
   Charge("pyusd", 3, <<Split(tax, 2, FALSE, None)>>),
   Charge("odd", 3, <<Split(tax, 1, FALSE, "vat")>>),
   Charge("EURC", 3, <<>>),
   [Charge("usdc", 3, <<>>) EXCEPT !.token_program = "loader"],
   [Charge("usdc", 3, <<>>) EXCEPT !.token_program = "token-2022"],
   [Charge("odd", 3, <<>>) EXCEPT !.decimals = None]}

Challenge(c) == [method |-> "solana", intent |-> "charge", decodes |-> TRUE, charge |-> c]

Single(c) == [challenges |-> <<Challenge(c)>>, options |-> [network |-> None, currencies |-> <<>>]]

InUsdc == Challenge(Charge("USDC", 3, <<>>))
InDevnetUsdc == Challenge([Charge("USDC", 3, <<>>) EXCEPT !.network = "devnet"])
InPyusd == Challenge(Charge("pyusd", 3, <<>>))
InSol == Challenge([Charge("SOL", 3, <<>>) EXCEPT !.network = None])
Broken == [InSol EXCEPT !.decodes = FALSE]
Session == [Broken EXCEPT !.intent = "session"]

Options ==
  {[network |-> n, currencies |-> cs] :
     n \in {None, "main", "devnet"},
     cs \in {<<>>, <<"PYUSD", "usdc">>, <<"USDC", "SOL">>, <<"EURC">>}}

MCOffers ==
  {Single(c) : c \in Charges}
    \cup {[challenges |-> cs, options |-> o] :
            cs \in {<<InUsdc, Session, InPyusd, InSol>>, <<InSol, InDevnetUsdc, InUsdc>>,
                    <<InUsdc, Broken>>},
            o \in Options}

\* Every account but a split's, or none of the split's.
MCLedgers ==
  LET all == {Ata(w, MCMintOwner[m], m) : w \in {client, sponsor, shop, tax}, m \in MCMints}
  IN {all, {a \in all : a.owner # tax}}

MCForeign(c) ==
  LET amount == PrimaryAmount(c)
      token(from, by, to, n) ==
        [PayInstruction(c, to, n) EXCEPT
           !.source = Ata(from, ResolveTokenProgram(c), MintOf(c)), !.authority = by]
      create == CreateAtaIdempotent(Payer(c), tax, MintOf(c), ResolveTokenProgram(c))
  IN {Compute("limit", 200001), Compute("price", 5000001), Compute("heap", 1),
      [Compute("price", 2) EXCEPT !.accounts = 1],
      MemoIx("order"), MemoIx("fee"),
      [program |-> "other", op |-> "other"]}
     \cup (IF Native(c)
           THEN {SolTransfer(sponsor, c.recipient, amount), SolTransfer(client, tax, 2),
                 SolTransfer(client, stray, 1), SolTransfer(client, c.recipient, 1)}
           ELSE {token(sponsor, client, c.recipient, amount),
                 token(client, sponsor, c.recipient, amount),
                 token(client, client, tax, 2), token(client, client, stray, 1),
                 [PayInstruction(c, c.recipient, amount) EXCEPT !.decimals = 9],
                 [PayInstruction(c, c.recipient, amount) EXCEPT !.mint = "usdc-dev"],
                 create, [create EXCEPT !.op = "create"], [create EXCEPT !.payer = stray],
                 [create EXCEPT !.ata.owner = stray],
                 CreateAtaIdempotent(Payer(c), stray, MintOf(c), ResolveTokenProgram(c))})

=============================================================================
