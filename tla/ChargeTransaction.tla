-------------------------- MODULE ChargeTransaction --------------------------
(***************************************************************************)
(* What a charge transaction holds: how the Rust client chooses a          *)
(* challenge and builds the transaction (rust/src/client/charge.rs), what  *)
(* the server demands of it before broadcasting (pull mode) and of the     *)
(* parsed form the RPC node returns (push mode), both in                   *)
(* rust/src/server/charge.rs.                                              *)
(*                                                                         *)
(* A transaction is a fee payer and a sequence of instructions.  An        *)
(* instruction is a record of the fields the code reads from its accounts  *)
(* and data.  An address that does not parse is one outside Mints, Wallets *)
(* or TokenPrograms; an amount that does not parse is None.  Other clients *)
(* build other transactions: Edit drops and appends instructions.          *)
(***************************************************************************)
EXTENDS Integers, Sequences, FiniteSets, SequencesExt, FiniteSetsExt

CONSTANTS
  None,
  Signer,          \* the client's key
  Wallets,         \* addresses that parse
  Mints,           \* mint addresses
  TokenPrograms,   \* the SPL Token and Token-2022 programs
  LegacyProgram,   \* TOKEN_PROGRAM
  Token2022Mints,  \* mints of stablecoin_uses_token_2022
  MintOwner,       \* the program that owns each mint on the ledger
  SymbolMint,      \* stablecoin symbol -> network -> mint
  DefaultNetwork,  \* "mainnet-beta"
  LongMemos,       \* memos above 566 bytes
  U64,             \* modulus of the amounts
  Offers,          \* challenge lists with the options of the choosing client
  Ledgers,         \* token accounts that may exist beforehand
  Foreign(_),      \* instructions other clients append for a charge
  MaxEdits         \* bound: changes of another client

\* is_solana_charge_challenge_name.
IsCharge(challenge) == challenge.method = "solana" /\ challenge.intent = "charge"

EmptyMemo == ""

ASSUME TransactionAssumption ==
  /\ Signer \in Wallets /\ IsFiniteSet(Wallets)
  /\ None \notin Wallets \cup LongMemos \cup {EmptyMemo}
  /\ LegacyProgram \in TokenPrograms
  /\ MintOwner \in [Mints -> TokenPrograms]
  /\ Token2022Mints \subseteq Mints
  /\ TokenPrograms \cap {"compute", "memo", "system", "ata"} = {}
  /\ U64 \in Nat \ {0} /\ MaxEdits \in Nat

\* Challenges and splits come in lists; an amount that parses fits into 64 bits.
ASSUME OffersAssumption ==
  \A o \in Offers :
    /\ o.challenges \in Seq(Range(o.challenges))
    /\ o.options.currencies \in Seq(Range(o.options.currencies))
    /\ \A i \in DOMAIN o.challenges : IsCharge(o.challenges[i]) /\ o.challenges[i].decodes =>
         LET c == o.challenges[i].charge
             amounts == {c.amount} \cup {c.splits[j].amount : j \in DOMAIN c.splits} IN
           c.splits \in Seq(Range(c.splits)) /\ amounts \ {None} \subseteq 0..(U64 - 1)

VARIABLES
  offer,     \* challenges of the 402 answer, with the client's options
  charge,    \* the request of the chosen challenge
  tx,        \* the transaction, once built
  edits,     \* how often another client changed it
  accounts,  \* token accounts on the ledger
  landed     \* the executed instructions as the RPC node lists them

vars == <<offer, charge, tx, edits, accounts, landed>>

-----------------------------------------------------------------------------
(* Currencies (rust/src/protocol/solana.rs). *)

ResolveStablecoinMint(currency, network) ==
  IF currency = "SOL" THEN None
  ELSE IF currency \in DOMAIN SymbolMint
       THEN SymbolMint[currency][IF network = None THEN DefaultNetwork ELSE network]
       ELSE currency

DefaultTokenProgram(currency, network) ==
  IF ResolveStablecoinMint(currency, network) \in Token2022Mints
    THEN CHOOSE p \in TokenPrograms : p # LegacyProgram
    ELSE LegacyProgram

MintOf(c) == ResolveStablecoinMint(c.currency, c.network)

Native(c) == c.currency = "SOL"

Ata(owner, program, mint) == [owner |-> owner, program |-> program, mint |-> mint]

-----------------------------------------------------------------------------
(* What a charge asks for: amounts, memos and token accounts. *)

MaxSplits == 8

\* The sum skips amounts that do not parse and wraps like u64.
SplitsTotal(c) ==
  FoldLeft(LAMBDA sum, s : IF s.amount = None THEN sum ELSE (sum + s.amount) % U64,
           0, c.splits)

PrimaryAmount(c) ==
  IF c.amount = None THEN None
  ELSE IF c.amount > SplitsTotal(c) THEN c.amount - SplitsTotal(c) ELSE None

\* Transfers the charge asks for, the recipient's first.
Expected(c) ==
  <<[owner |-> c.recipient, amount |-> PrimaryAmount(c)]>>
    \o [i \in DOMAIN c.splits |->
          [owner |-> c.splits[i].recipient, amount |-> c.splits[i].amount]]

WellFormed(c) ==
  /\ PrimaryAmount(c) # None
  /\ \A i \in DOMAIN Expected(c) :
       Expected(c)[i].owner \in Wallets /\ Expected(c)[i].amount # None

MemoFields(c) == <<c.external_id>> \o [i \in DOMAIN c.splits |-> c.splits[i].memo]

ExpectedMemos(c) ==
  FoldLeft(LAMBDA memos, m : IF m \in {None, EmptyMemo} THEN memos ELSE Append(memos, m),
           <<>>, MemoFields(c))

MemosFit(memos) == \A i \in DOMAIN memos : memos[i] \notin LongMemos

RequiredOwners(c) ==
  {c.splits[i].recipient : i \in {j \in DOMAIN c.splits : c.splits[j].ata_required}}

\* A sponsor pays only for accounts the challenge demands.
AllowedOwners(c, feePayer) ==
  IF feePayer # None THEN RequiredOwners(c)
  ELSE {c.splits[i].recipient : i \in DOMAIN c.splits}

AtaCreationFits(c) == RequiredOwners(c) # {} => ~Native(c) /\ MintOf(c) = c.currency

-----------------------------------------------------------------------------
(* Instructions. *)

Compute(op, value) ==
  [program |-> "compute", op |-> op, value |-> value, accounts |-> 0]

MemoIx(text) == [program |-> "memo", op |-> "memo", text |-> text]

SolTransfer(source, dest, amount) ==
  [program |-> "system", op |-> "transfer", source |-> source, dest |-> dest,
   amount |-> amount]

TransferChecked(program, source, mint, dest, authority, amount, decimals) ==
  [program |-> program, op |-> "transferChecked", source |-> source, mint |-> mint,
   dest |-> dest, authority |-> authority, amount |-> amount, decimals |-> decimals]

CreateAtaIdempotent(payer, owner, mint, program) ==
  [program |-> "ata", op |-> "createIdempotent", payer |-> payer,
   ata |-> Ata(owner, program, mint), owner |-> owner, mint |-> mint,
   token_program |-> program]

-----------------------------------------------------------------------------
(* The client. *)

\* A fee payer without a key is ignored by the client.
UsesFeePayer(c) == c.fee_payer /\ c.fee_payer_key # None

Payer(c) == IF UsesFeePayer(c) THEN c.fee_payer_key ELSE Signer

ResolveTokenProgram(c) ==
  IF c.token_program # None THEN c.token_program ELSE MintOwner[MintOf(c)]

Decimals(c) == IF c.decimals = None THEN 6 ELSE c.decimals

\* push_memo_instruction: only an absent memo is skipped.
PushMemo(memo) == IF memo = None THEN <<>> ELSE <<MemoIx(memo)>>

PayInstruction(c, owner, amount) ==
  LET program == ResolveTokenProgram(c) IN
    IF Native(c) THEN SolTransfer(Signer, owner, amount)
    ELSE TransferChecked(program, Ata(Signer, program, MintOf(c)), MintOf(c),
                         Ata(owner, program, MintOf(c)), Signer, amount, Decimals(c))

\* Mutant: token accounts are created whoever pays for them.
CreatesAtaAlways(c, split) == ~Native(c)

CreatesAta(c, split) == ~Native(c) /\ (~UsesFeePayer(c) \/ split.ata_required)

SplitInstructions(c, split) ==
  (IF CreatesAta(c, split)
     THEN <<CreateAtaIdempotent(Payer(c), split.recipient, MintOf(c), ResolveTokenProgram(c))>>
     ELSE <<>>)
  \o <<PayInstruction(c, split.recipient, split.amount)>> \o PushMemo(split.memo)

MayBuild(c) ==
  /\ Len(c.splits) <= MaxSplits
  /\ WellFormed(c)
  /\ UsesFeePayer(c) => c.fee_payer_key \in Wallets
  /\ AtaCreationFits(c)
  /\ ~Native(c) => MintOf(c) \in Mints /\ ResolveTokenProgram(c) \in TokenPrograms
  /\ MemosFit(MemoFields(c))

PrimaryInstructions(c) ==
  <<Compute("price", 1), Compute("limit", 200000)>>
    \o <<PayInstruction(c, c.recipient, PrimaryAmount(c))>> \o PushMemo(c.external_id)

BuildInstructions(c) ==
  FoldLeft(LAMBDA ixs, s : ixs \o SplitInstructions(c, s),
           PrimaryInstructions(c), c.splits)

BuildChargeTransaction(c) ==
  [payer |-> Payer(c), lookups |-> FALSE, instructions |-> BuildInstructions(c)]

\* select_charge_challenge: names first, then the decoding, then the network.
MatchesNetwork(c, network) ==
  network \in {None, IF c.network = None THEN DefaultNetwork ELSE c.network}

CurrenciesMatch(c, expected) ==
  ResolveStablecoinMint(c.currency, c.network)
    = ResolveStablecoinMint(expected, c.network)

Candidates(challenges, options) ==
  {k \in DOMAIN challenges :
     IsCharge(challenges[k]) /\ MatchesNetwork(challenges[k].charge, options.network)}

\* Mutant: the server's order decides, not the client's preference.
SelectByServerOrder(challenges, options) ==
  LET hits == {k \in Candidates(challenges, options) :
                 options.currencies = <<>>
                 \/ \E i \in DOMAIN options.currencies :
                      CurrenciesMatch(challenges[k].charge, options.currencies[i])}
  IN IF hits = {} THEN None ELSE challenges[Min(hits)].charge

\* One undecodable charge challenge fails the whole choice.
SelectChargeChallenge(challenges, options) ==
  LET cands == Candidates(challenges, options)
      hits == {h \in (DOMAIN options.currencies) \X cands :
                 CurrenciesMatch(challenges[h[2]].charge, options.currencies[h[1]])}
      best == {h \in hits : \A g \in hits :
                 h[1] < g[1] \/ (h[1] = g[1] /\ h[2] <= g[2])}
  IN IF \E k \in DOMAIN challenges :
          IsCharge(challenges[k]) /\ ~challenges[k].decodes
     THEN None
     ELSE IF options.currencies = <<>>
          THEN IF cands = {} THEN None ELSE challenges[Min(cands)].charge
          ELSE IF hits = {} THEN None
               ELSE challenges[(CHOOSE h \in best : TRUE)[2]].charge

-----------------------------------------------------------------------------
(* Matching, shared by both verifiers: every demand in turn takes the first *)
(* instruction not yet taken among its hits, unless a fatal one comes       *)
(* first or there is none.                                                  *)

Untaken == [ok |-> TRUE, taken |-> {}]

Match(matched, d, hits, fatal) ==
  LET seen == (hits[d] \cup fatal[d]) \ matched.taken
  IN IF matched.ok /\ seen # {} /\ Min(seen) \notin fatal[d]
     THEN [ok |-> TRUE, taken |-> matched.taken \cup {Min(seen)}]
     ELSE [ok |-> FALSE, taken |-> matched.taken]

MatchInOrder(demands, hits, fatal, start) ==
  FoldLeft(LAMBDA matched, d : Match(matched, d, hits, fatal), start, demands)

IsMemo(ix, memo) == ix.program = "memo" /\ ix.text = memo

\* Memos are matched after the transfers, among what those left over.
MatchMemos(instructions, c, transfers) ==
  LET memos == ExpectedMemos(c) IN
    MatchInOrder(memos,
      [m \in Range(memos) |-> {i \in DOMAIN instructions : IsMemo(instructions[i], m)}],
      [m \in Range(memos) |-> {}], transfers)

IsSolTransfer(ix, d) ==
  ix.program = "system" /\ ix.op = "transfer" /\ ix.dest = d.owner /\ ix.amount = d.amount

\* Only the programs in `programs` count; decimals are checked when given.
IsTokenTransfer(ix, amount, mint, programs, decimals) ==
  /\ ix.program \in programs
  /\ ix.op = "transferChecked"
  /\ ix.amount = amount
  /\ ix.mint = mint
  /\ decimals \in {None, ix.decimals}

\* The account creation every verifier accepts.
IsAtaCreation(ix, mint, owners, programs, payers) ==
  /\ ix.op = "createIdempotent"
  /\ payers = {} \/ ix.payer \in payers
  /\ ix.mint = mint
  /\ ix.owner \in owners
  /\ ix.token_program \in programs
  /\ ix.ata = Ata(ix.owner, ix.token_program, ix.mint)

Calls(instructions, program) ==
  {i \in DOMAIN instructions : instructions[i].program = program}

\* Compute-budget and account-creation instructions must be good ones, any other
\* must have been matched, and every required account is created.
Allowlist(instructions, matched, compute, created, required) ==
  /\ Calls(instructions, "compute") \subseteq compute
  /\ Calls(instructions, "ata") \subseteq created
  /\ DOMAIN instructions \subseteq
       Calls(instructions, "compute") \cup Calls(instructions, "ata") \cup matched
  /\ required \subseteq {instructions[i].owner : i \in Calls(instructions, "ata")}

-----------------------------------------------------------------------------
(* Pull mode: before the server broadcasts. *)

ValidComputeBudget(ix) ==
  /\ ix.accounts = 0
  /\ \/ ix.op = "limit" /\ ix.value <= 200000
     \/ ix.op = "price" /\ ix.value <= 5000000

\* Mutant: the sponsor may fund the payment.
FundedByNobody(c, ix, feePayer) == FALSE

\* The sponsor must not be the one who pays.
FundedByFeePayer(c, ix, feePayer) ==
  /\ feePayer # None
  /\ IF Native(c) THEN ix.source = feePayer
     ELSE \/ ix.authority = feePayer
          \/ ix.source = Ata(feePayer, ix.program, ix.mint)

PullPrograms(c) == IF c.token_program = None THEN TokenPrograms ELSE {c.token_program}

PullTransfer(c, ix, d) ==
  IF Native(c) THEN IsSolTransfer(ix, d)
  ELSE /\ IsTokenTransfer(ix, d.amount, MintOf(c), PullPrograms(c), c.decimals)
       /\ ix.dest = Ata(d.owner, ix.program, MintOf(c))

\* For tokens the sponsor is looked for before the destination.
PullFatal(c, ix, d, feePayer) ==
  /\ IF Native(c) THEN IsSolTransfer(ix, d)
     ELSE IsTokenTransfer(ix, d.amount, MintOf(c), PullPrograms(c), c.decimals)
  /\ FundedByFeePayer(c, ix, feePayer)

PullAtaCreation(c, t, feePayer, ix) ==
  ~Native(c) /\ IsAtaCreation(ix, MintOf(c), AllowedOwners(c, feePayer),
                              PullPrograms(c), {t.payer})

PullAllowlist(c, t, feePayer, matched) ==
  Allowlist(t.instructions, matched,
    {i \in Calls(t.instructions, "compute") : ValidComputeBudget(t.instructions[i])},
    {i \in Calls(t.instructions, "ata") : PullAtaCreation(c, t, feePayer, t.instructions[i])},
    RequiredOwners(c))

\* The sponsor the challenge names pays the fees: the first account.
PaidByExpected(c, t) ==
  c.fee_payer => c.fee_payer_key \in Wallets /\ t.payer = c.fee_payer_key

RejectAddressLookupTables(t) == ~t.lookups

VerifyPreBroadcast(c, t) ==
  LET feePayer == IF c.fee_payer THEN c.fee_payer_key ELSE None
      ixs == t.instructions
      demands == Expected(c)
      transfers ==
        MatchInOrder(demands,
          [d \in Range(demands) |-> {i \in DOMAIN ixs : PullTransfer(c, ixs[i], d)}],
          [d \in Range(demands) |-> {i \in DOMAIN ixs : PullFatal(c, ixs[i], d, feePayer)}],
          Untaken)
      matched == MatchMemos(ixs, c, transfers)
  IN /\ RejectAddressLookupTables(t)
     /\ Len(c.splits) <= MaxSplits
     /\ WellFormed(c)
     /\ PaidByExpected(c, t)
     /\ AtaCreationFits(c)
     /\ ~Native(c) => MintOf(c) \in Mints /\ PullPrograms(c) \subseteq TokenPrograms
     /\ MemosFit(ExpectedMemos(c))
     /\ matched.ok
     /\ PullAllowlist(c, t, feePayer, matched.taken)

-----------------------------------------------------------------------------
(* Push mode: on the parsed instructions, inner ones included. *)

PushPrograms(c) ==
  {IF c.token_program # None THEN c.token_program
   ELSE DefaultTokenProgram(c.currency, c.network)}

PushTransfer(c, ix, d) ==
  IF Native(c) THEN IsSolTransfer(ix, d)
  ELSE /\ IsTokenTransfer(ix, d.amount, MintOf(c), PushPrograms(c) \cap TokenPrograms, None)
       /\ ix.dest = Ata(d.owner, ix.program, MintOf(c))

\* Mutant: the payer of the accounts must be the client.
PushPayersSigner(c) == {Signer}

PushPayers(c) == IF UsesFeePayer(c) THEN {c.fee_payer_key} ELSE {}

PushAtaCreation(c, feePayer, ix) ==
  ~Native(c) /\ IsAtaCreation(ix, MintOf(c), AllowedOwners(c, feePayer),
                              PushPrograms(c) \cap TokenPrograms, PushPayers(c))

PushAllowlist(c, instructions, feePayer, matched) ==
  Allowlist(instructions, matched, Calls(instructions, "compute"),
    {i \in Calls(instructions, "ata") : PushAtaCreation(c, feePayer, instructions[i])},
    RequiredOwners(c))

VerifyOnChain(c, instructions) ==
  LET feePayer == IF UsesFeePayer(c) THEN c.fee_payer_key ELSE None
      demands == Expected(c)
      transfers ==
        MatchInOrder(demands,
          [d \in Range(demands) |->
             {i \in DOMAIN instructions : PushTransfer(c, instructions[i], d)}],
          [d \in Range(demands) |-> {}], Untaken)
      matched == MatchMemos(instructions, c, transfers)
  IN /\ WellFormed(c)
     /\ feePayer # None => feePayer \in Wallets
     /\ AtaCreationFits(c)
     /\ ~Native(c) => MintOf(c) \in Mints
     /\ MemosFit(ExpectedMemos(c))
     /\ matched.ok
     /\ PushAllowlist(c, instructions, feePayer, matched.taken)

-----------------------------------------------------------------------------
(* The cluster (external).  A transaction lands when every instruction      *)
(* succeeds; creating a token account calls the system and token programs,  *)
(* and those inner instructions follow the outer ones in the RPC's answer.  *)

CreatedBy(instructions) ==
  {instructions[i].ata : i \in {j \in DOMAIN instructions : instructions[j].program = "ata"}}

Succeeds(ix, index, instructions) ==
  LET open == accounts \cup CreatedBy(SubSeq(instructions, 1, index)) IN
    CASE ix.program \in TokenPrograms ->
           /\ {ix.source, ix.dest} \subseteq open
           /\ ix.authority = ix.source.owner
           /\ {ix.source.mint, ix.dest.mint} = {ix.mint}
           /\ ix.program = MintOwner[ix.mint]
           /\ ix.decimals = 6
      [] ix.program = "ata" ->
           /\ ix.ata = Ata(ix.owner, MintOwner[ix.mint], ix.mint)
           /\ ix.token_program = MintOwner[ix.mint]
           /\ ix.op = "create" => ix.ata \notin accounts
      [] OTHER -> TRUE

Signs(ix) ==
  CASE ix.program \in TokenPrograms -> {ix.authority}
    [] ix.program = "system" -> {ix.source}
    [] ix.program = "ata" -> {ix.payer}
    [] OTHER -> {}

Signatures(t) ==
  {t.payer} \cup UNION {Signs(t.instructions[i]) : i \in DOMAIN t.instructions}

InnerOf(instructions) ==
  FoldLeft(LAMBDA inner, ix :
             IF ix.program = "ata" /\ ix.ata \notin accounts
               THEN inner \o <<[program |-> "system", op |-> "createAccount"],
                               [program |-> ix.token_program, op |-> "initializeAccount3"]>>
               ELSE inner,
           <<>>, instructions)

\* extract_parsed_instructions: the outer instructions, then the inner ones.
ParsedInstructions(instructions) == instructions \o InnerOf(instructions)

-----------------------------------------------------------------------------

Init ==
  /\ offer \in Offers
  /\ accounts \in Ledgers
  /\ charge = None /\ tx = None /\ landed = None
  /\ edits = 0

Select ==
  /\ charge = None
  /\ charge' = SelectChargeChallenge(offer.challenges, offer.options)
  /\ charge' # None
  /\ UNCHANGED <<offer, tx, edits, accounts, landed>>

Build ==
  /\ charge # None /\ tx = None
  /\ MayBuild(charge)
  /\ tx' = BuildChargeTransaction(charge)
  /\ UNCHANGED <<offer, charge, edits, accounts, landed>>

\* Another client sends something else for the same challenge.
Edit ==
  /\ tx # None /\ landed = None
  /\ edits < MaxEdits
  /\ edits' = edits + 1
  /\ \/ \E i \in DOMAIN tx.instructions :
          tx' = [tx EXCEPT !.instructions = RemoveAt(@, i)]
     \/ \E ix \in Foreign(charge) \cup Range(tx.instructions) :
          tx' = [tx EXCEPT !.instructions = Append(@, ix)]
     \/ tx' = [tx EXCEPT !.payer = IF @ = Signer THEN charge.recipient ELSE Signer]
     \/ tx' = [tx EXCEPT !.lookups = ~@]
  /\ UNCHANGED <<offer, charge, accounts, landed>>

\* The server cosigns and broadcasts what it accepts; a client that needs no
\* other signature broadcasts for itself.
Land ==
  /\ tx # None /\ landed = None
  /\ Signatures(tx) = {Signer} \/ VerifyPreBroadcast(charge, tx)
  /\ \A i \in DOMAIN tx.instructions : Succeeds(tx.instructions[i], i, tx.instructions)
  /\ landed' = ParsedInstructions(tx.instructions)
  /\ accounts' = accounts \cup CreatedBy(tx.instructions)
  /\ UNCHANGED <<offer, charge, tx, edits>>

Next == Select \/ Build \/ Edit \/ Land

Spec == Init /\ [][Next]_vars

-----------------------------------------------------------------------------
(* Properties. *)

\* Charges no transaction of this client can satisfy, though it builds one:
\* an empty memo becomes an instruction nobody expects, a sponsor without a key
\* is demanded by the server only, and a sponsor that is the client itself
\* cannot fund the payment.
Unpayable(c) ==
  \/ EmptyMemo \in Range(MemoFields(c))
  \/ c.fee_payer /\ c.fee_payer_key \in {None, Signer}

\* Client and server agree: what build_charge_transaction returns for a challenge
\* passes verify_versioned_transaction_pre_broadcast, except for exactly the
\* charges of Unpayable.
ServerTakesClientTransaction ==
  tx # None /\ edits = 0 => (VerifyPreBroadcast(charge, tx) <=> ~Unpayable(charge))

Received(instructions, owner) ==
  FoldLeft(LAMBDA sum, ix :
             IF ix.program \in TokenPrograms \cup {"system"}
                  /\ owner = (IF ix.program = "system" THEN ix.dest ELSE ix.dest.owner)
               THEN sum + ix.amount ELSE sum,
           0, instructions)

Owed(c, owner) ==
  FoldLeft(LAMBDA sum, d : IF d.owner = owner THEN sum + d.amount ELSE sum, 0, Expected(c))

\* However its instructions were shuffled, repeated, dropped or replaced, a
\* transaction the server cosigns pays every recipient what it is owed, nobody
\* anything else, takes none of it from the sponsor, and adds up to the charge's
\* amount (modulo the width of the sum, which the code does not check).
AcceptedPaysWhatIsOwed ==
  tx # None /\ VerifyPreBroadcast(charge, tx) =>
    /\ MapThenSumSet(LAMBDA w : Received(tx.instructions, w), Wallets) % U64 = charge.amount
    /\ \A w \in Wallets :
         /\ Received(tx.instructions, w) = Owed(charge, w)
         /\ charge.fee_payer /\ w = charge.fee_payer_key =>
              \A i \in DOMAIN tx.instructions :
                tx.instructions[i].program # "ata" => w \notin Signs(tx.instructions[i])

\* The two verifiers agree: a landed transaction that pull mode would have taken
\* is taken in push mode, unless landing created a token account (its inner
\* instructions are on no allowlist) or the challenge left the token program open
\* and the mint is not under the program push mode assumes.
PushTakesWhatPullTakes ==
  landed # None /\ VerifyPreBroadcast(charge, tx) =>
    \/ VerifyOnChain(charge, landed)
    \/ Len(landed) > Len(tx.instructions)
    \/ ~Native(charge) /\ MintOwner[MintOf(charge)] \notin PushPrograms(charge)

\* The client pays in the first of its currencies the server offers on its
\* network, however the server ordered the challenges.
PreferenceHonoured ==
  charge # None /\ offer.options.currencies # <<>> =>
    LET offered(i) == \E k \in Candidates(offer.challenges, offer.options) :
                        CurrenciesMatch(offer.challenges[k].charge, offer.options.currencies[i])
        wanted == {i \in DOMAIN offer.options.currencies : offered(i)}
    IN /\ MatchesNetwork(charge, offer.options.network)
       /\ wanted # {} /\ CurrenciesMatch(charge, offer.options.currencies[Min(wanted)])

=============================================================================
