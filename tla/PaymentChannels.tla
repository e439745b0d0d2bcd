--------------------------- MODULE PaymentChannels ---------------------------
(***************************************************************************)
(* The on-chain half of a session: how client and server derive the        *)
(* channel, the instructions the SDK builds for the payment-channels       *)
(* program, and the settlement of what the server accepted.                *)
(*   rust/src/client/payment_channels.rs     opening                       *)
(*   rust/src/server/session.rs              challenge, open, close        *)
(*   rust/src/program/payment_channels.rs    addresses and instructions    *)
(*   rust/payment_channels_client            generated instruction layouts *)
(*                                                                         *)
(* The program itself is not in the repository.  Its rules are those its   *)
(* error codes name (generated/errors/payment_channels.rs); a hash is      *)
(* modelled by what it covers, an address by its seeds.  The host that     *)
(* embeds the SDK completes an open only when it is the instruction        *)
(* payment_channel_open_instruction expects.  Nothing makes it look at the *)
(* chain before process_open or process_topup: whether it did, as their    *)
(* documentation asks, is remembered in the auxiliary variable verified.   *)
(***************************************************************************)
EXTENDS Integers, Sequences, FiniteSets

CONSTANTS
  None,
  Payer, Payee, Operator, SessionKey, Stranger,   \* public keys
  Mint, OtherMint,
  TokenProgram,        \* default_token_program_for_currency of the currency
  OtherTokenProgram,
  DefaultProgram,      \* PAYMENT_CHANNELS_PROGRAM_ID
  Configs,             \* SessionConfig values of the server
  Caps,                \* caps asked of build_challenge_request
  OpenOptions,         \* PaymentChannelOpenOptions of the client
  Amounts,             \* voucher cumulatives, reservations and top-ups
  DefaultGrace,        \* DEFAULT_GRACE_PERIOD_SECONDS
  MaxTime,             \* bound on the clock
  MaxDeposit,          \* bound on a channel's deposit
  MaxOpens             \* bound on the calls of process_open that succeed

Pubkeys ==
  {Payer, Payee, Operator, SessionKey, Stranger, Mint, OtherMint, TokenProgram,
   OtherTokenProgram, DefaultProgram}

Distributions == Seq([recipient : Pubkeys, bps : Nat])

SessionConfigs ==
  [recipient : Pubkeys, mint : Pubkeys, splits : Distributions, max_cap : Nat,
   program_id : Pubkeys \cup {None}, modes : SUBSET {"push", "pull"}, strategy : STRING]

PaymentChannelOpenOptions ==
  [deposit : Nat \cup {None}, grace_period : Nat \cup {None},
   recipients : Distributions \cup {None}, salt : Nat,
   token_program : Pubkeys \cup {None}, program_id : Pubkeys \cup {None}]

\* A program-derived address stands for its seeds, a signature for its key and
\* the message it covers.
ChannelAddresses ==
  [payer : Pubkeys, payee : Pubkeys, mint : Pubkeys, authorized_signer : Pubkeys,
   salt : Nat, program : Pubkeys]

VoucherSignatures == [signer : Pubkeys, message : ChannelAddresses \X Nat \X Nat]

\* The fields of ChannelState that settlement reads.
ChannelStates ==
  [channel_id : ChannelAddresses, authorized_signer : Pubkeys, deposit : Nat,
   cumulative : Nat, signature : VoucherSignatures \cup {None},
   expires_at : Nat \cup {None}, closing : BOOLEAN, finalized : BOOLEAN]

ASSUME ChannelAssumption ==
  /\ Configs \subseteq SessionConfigs
  /\ OpenOptions \subseteq PaymentChannelOpenOptions
  /\ Caps \subseteq Nat /\ Amounts \subseteq Nat
  /\ DefaultGrace \in Nat /\ MaxTime \in Nat /\ MaxDeposit \in Nat /\ MaxOpens \in Nat
  /\ None \notin VoucherSignatures /\ None \notin ChannelStates

VARIABLES
  config,   \* SessionConfig
  request,  \* SessionRequest of the challenge
  sent,     \* the client's open action: payload and transaction
  chan,     \* the Channel account
  record,   \* ChannelState of the server, as far as settlement reads it
  now,
  landed,   \* auxiliary: the open action whose transaction created the channel
  verified, \* auxiliary: all the server recorded was on-chain as it was told
  opens     \* auxiliary: successful calls of process_open

history == <<landed, verified, opens>>

vars == <<config, request, sent, chan, record, now, history>>

-----------------------------------------------------------------------------
(* Addresses and messages. *)

FindChannelPda(p) ==
  [payer |-> p.payer, payee |-> p.payee, mint |-> p.mint,
   authorized_signer |-> p.authorized_signer, salt |-> p.salt, program |-> p.program_id]

TokenAddress(owner, mint, program) == <<owner, mint, program>>

DistributionHash(recipients) == <<Len(recipients), recipients>>

VoucherMessage(channel, cumulative, expires) == <<channel, cumulative, expires>>

-----------------------------------------------------------------------------
(* Generated instruction layouts: the accounts in order, then the arguments. *)

OpenIx(payer, payee, mint, signer, channel, payerAta, channelAta, program, args) ==
  [op |-> "open", accounts |-> <<payer, payee, mint, signer, channel, payerAta, channelAta, program>>,
   signer |-> payer, args |-> args]

TopUpIx(payer, channel, payerAta, channelAta, mint, program, amount) ==
  [op |-> "topUp", accounts |-> <<payer, channel, payerAta, channelAta, mint, program>>,
   signer |-> payer, args |-> amount]

SettleIx(channel, voucher) ==
  [op |-> "settle", accounts |-> <<channel>>, signer |-> None, args |-> voucher]

SettleAndFinalizeIx(merchant, channel, voucher, hasVoucher) ==
  [op |-> "settleAndFinalize", accounts |-> <<merchant, channel>>, signer |-> merchant,
   args |-> [voucher |-> voucher, has_voucher |-> hasVoucher]]

RequestCloseIx(payer, channel) ==
  [op |-> "requestClose", accounts |-> <<payer, channel>>, signer |-> payer, args |-> None]

FinalizeIx(channel) ==
  [op |-> "finalize", accounts |-> <<channel>>, signer |-> None, args |-> None]

DistributeIx(channel, payer, atas, mint, program, tail, recipients) ==
  [op |-> "distribute", accounts |-> <<channel, payer, atas, mint, program, tail>>,
   signer |-> None, args |-> recipients]

WithdrawPayerIx(payer, channel, channelAta, payerAta, mint, program) ==
  [op |-> "withdrawPayer", accounts |-> <<payer, channel, channelAta, payerAta, mint, program>>,
   signer |-> payer, args |-> None]

-----------------------------------------------------------------------------
(* The SDK's builders on top of them. *)

DeriveChannelAddresses(p) ==
  [channel |-> FindChannelPda(p),
   payer_token_account |-> TokenAddress(p.payer, p.mint, p.token_program),
   channel_token_account |-> TokenAddress(FindChannelPda(p), p.mint, p.token_program)]

BuildOpenInstruction(p) ==
  [program_id |-> p.program_id,
   ix |-> OpenIx(p.payer, p.payee, p.mint, p.authorized_signer,
                 DeriveChannelAddresses(p).channel,
                 DeriveChannelAddresses(p).payer_token_account,
                 DeriveChannelAddresses(p).channel_token_account, p.token_program,
                 [salt |-> p.salt, deposit |-> p.deposit, grace_period |-> p.grace_period,
                  recipients |-> p.recipients])]

BuildTopUpInstruction(payer, channel, mint, amount, program) ==
  TopUpIx(payer, channel, TokenAddress(payer, mint, program),
          TokenAddress(channel, mint, program), mint, program, amount)

Ed25519Verify(signer, signature, message) ==
  [op |-> "ed25519", signer |-> None,
   valid |-> signature = [signer |-> signer, message |-> message], by |-> signer, message |-> message]

VoucherArgs(channel, cumulative, expires) ==
  [channel_id |-> channel, cumulative |-> cumulative, expires_at |-> expires]

BuildSettleInstructions(channel, signer, signature, cumulative, expires) ==
  <<Ed25519Verify(signer, signature, VoucherMessage(channel, cumulative, expires)),
    SettleIx(channel, VoucherArgs(channel, cumulative, expires))>>

BuildSettleAndFinalizeInstructions(merchant, channel, signer, signature, cumulative, expires) ==
  (IF signature = None THEN <<>>
   ELSE <<Ed25519Verify(signer, signature, VoucherMessage(channel, cumulative, expires))>>)
  \o <<SettleAndFinalizeIx(merchant, channel, VoucherArgs(channel, cumulative, expires),
                           signature # None)>>

BuildRequestCloseInstruction(payer, channel) == RequestCloseIx(payer, channel)

BuildFinalizeInstruction(channel) == FinalizeIx(channel)

BuildDistributeInstruction(channel, payer, payee, mint, recipients, program) ==
  DistributeIx(channel, payer, TokenAddress(payee, mint, program), mint, program,
               [i \in DOMAIN recipients |-> TokenAddress(recipients[i].recipient, mint, program)],
               recipients)

-----------------------------------------------------------------------------
(* The challenge, the client's open and the server's reading of it. *)

Or(option, default) == IF option = None THEN default ELSE option

BuildChallengeRequest(cap) ==
  [cap |-> IF cap < config.max_cap THEN cap ELSE config.max_cap,
   mint |-> config.mint, recipient |-> config.recipient, operator |-> Operator,
   splits |-> config.splits, program_id |-> config.program_id,
   modes |-> IF config.modes = {"push"} THEN {} ELSE config.modes,
   strategy |-> IF "pull" \in config.modes THEN config.strategy ELSE None]

EnsureClientVoucherPull(r) == "pull" \in r.modes /\ r.strategy = "clientVoucher"

DerivePaymentChannelOpen(r, payer, options) ==
  [payer |-> payer, payee |-> r.recipient, mint |-> r.mint,
   authorized_signer |-> SessionKey, salt |-> options.salt,
   deposit |-> Or(options.deposit, r.cap),
   grace_period |-> Or(options.grace_period, DefaultGrace),
   recipients |-> Or(options.recipients, r.splits),
   token_program |-> Or(options.token_program, TokenProgram),
   program_id |-> Or(options.program_id, Or(r.program_id, DefaultProgram))]

\* The payer signs; the fee payer, the operator, has yet to.
BuildOpenPaymentChannelTx(open, feePayer) ==
  [instruction |-> BuildOpenInstruction(open), fee_payer |-> feePayer, signed |-> {open.payer}]

OpenPayloadOf(open) ==
  [mode |-> "pull", channel_id |-> FindChannelPda(open), deposit |-> open.deposit,
   payer |-> open.payer, payee |-> open.payee, mint |-> open.mint, salt |-> open.salt,
   grace_period |-> open.grace_period, authorized_signer |-> open.authorized_signer]

\* What the server makes of a payload: recipients, token program and program are
\* its own; payee and mint must be.
PaymentChannelOpenParams(payload) ==
  [payer |-> payload.payer, payee |-> payload.payee, mint |-> payload.mint,
   authorized_signer |-> payload.authorized_signer, salt |-> payload.salt,
   deposit |-> payload.deposit, grace_period |-> payload.grace_period,
   recipients |-> config.splits, token_program |-> TokenProgram,
   program_id |-> Or(config.program_id, DefaultProgram)]

\* parse_payload_pubkey and its like: a payment-channel open has all its fields.
HasOpenFields(payload) ==
  None \notin {payload.payer, payload.payee, payload.mint, payload.salt, payload.grace_period}

OpenParamsValid(payload) ==
  /\ HasOpenFields(payload)
  /\ payload.payee = config.recipient
  /\ payload.mint = config.mint
  /\ payload.channel_id = FindChannelPda(PaymentChannelOpenParams(payload))

\* Mutant: the host compares addresses only.
IsExpectedOpenByAddress(payload, transaction) ==
  payload.channel_id = IF transaction = None THEN payload.channel_id
                       ELSE transaction.instruction.ix.accounts[5]

\* payment_channel_open_instruction is what a broadcast open is held against; a
\* server-opened channel has no client transaction.
IsExpectedOpen(payload, transaction) ==
  transaction # None =>
    transaction.instruction = BuildOpenInstruction(PaymentChannelOpenParams(payload))

ExpectedOpen(open) ==
  /\ OpenParamsValid(open.payload)
  /\ IsExpectedOpen(open.payload, open.transaction)

-----------------------------------------------------------------------------
(* The program (external). *)

ValidPlan(recipients) ==
  /\ Len(recipients) <= 32
  /\ \A i, j \in DOMAIN recipients :
       recipients[i].bps > 0 /\ (i # j => recipients[i].recipient # recipients[j].recipient)

NoChannel == [status |-> "None"]

ProgramOpens(instruction, token) ==
  LET ix == instruction.ix IN
  /\ chan.status = "None"
  /\ ix.args.deposit > 0 /\ ix.accounts[1] # ix.accounts[2]
  /\ ValidPlan(ix.args.recipients)
  /\ ix.accounts[8] = token
  /\ chan' = [status |-> "Open", address |-> ix.accounts[5], payer |-> ix.accounts[1],
              payee |-> ix.accounts[2], mint |-> ix.accounts[3],
              authorized_signer |-> ix.accounts[4], deposit |-> ix.args.deposit,
              grace |-> ix.args.grace_period, hash |-> DistributionHash(ix.args.recipients),
              settled |-> 0, paid_out |-> 0, refunded |-> FALSE, by |-> None]

\* The voucher rules, on the voucher instruction and the one before it.
VoucherSettles(verify, voucher) ==
  /\ chan.status \in {"Open", "Closing"}
  /\ verify.valid
  /\ verify.by = chan.authorized_signer
  /\ verify.message = VoucherMessage(chan.address, voucher.cumulative, voucher.expires_at)
  /\ voucher.channel_id = chan.address
  /\ voucher.expires_at > now
  /\ voucher.cumulative > chan.settled
  /\ voucher.cumulative <= chan.deposit

ProgramSettles(ixs) ==
  /\ VoucherSettles(ixs[1], ixs[2].args)
  /\ ixs[2].accounts[1] = chan.address
  /\ chan' = [chan EXCEPT !.settled = ixs[2].args.cumulative]

ProgramSettlesAndFinalizes(ixs) ==
  LET ix == ixs[Len(ixs)] IN
  /\ chan.status \in {"Open", "Closing"}
  /\ ix.signer = chan.payee /\ ix.accounts[2] = chan.address
  /\ ix.args.has_voucher => Len(ixs) = 2 /\ VoucherSettles(ixs[1], ix.args.voucher)
  /\ chan' = [chan EXCEPT !.status = "Finalized", !.by = "payee",
                !.settled = IF ix.args.has_voucher THEN ix.args.voucher.cumulative ELSE @]

ProgramDistributes(ix) ==
  /\ chan.status \in {"Open", "Finalized"}
  /\ ix.accounts[1] = chan.address
  /\ chan.settled > chan.paid_out
  /\ DistributionHash(ix.args) = chan.hash
  /\ Len(ix.accounts[6]) = Len(ix.args)
  /\ chan' = [chan EXCEPT !.paid_out = chan.settled]

ProgramTopsUp(ix) ==
  /\ chan.status = "Open"
  /\ ix.signer = chan.payer /\ ix.accounts[2] = chan.address
  /\ ix.args > 0
  /\ chan' = [chan EXCEPT !.deposit = @ + ix.args]

ProgramRequestsClose(ix) ==
  /\ chan.status = "Open"
  /\ ix.signer = chan.payer /\ ix.accounts[2] = chan.address
  /\ chan' = [chan EXCEPT !.status = "Closing"]

ProgramFinalizes(ix) ==
  /\ chan.status = "Closing" /\ chan.grace = 0
  /\ ix.accounts[1] = chan.address
  /\ chan' = [chan EXCEPT !.status = "Finalized", !.by = "grace"]

ProgramWithdraws(ix) ==
  /\ chan.status = "Finalized" /\ ~chan.refunded
  /\ ix.signer = chan.payer /\ ix.accounts[2] = chan.address
  /\ chan' = [chan EXCEPT !.refunded = TRUE]

-----------------------------------------------------------------------------
(* Opening. *)

Challenge ==
  /\ request = None
  /\ \E cap \in Caps : request' = BuildChallengeRequest(cap)
  /\ UNCHANGED <<config, sent, chan, record, now, history>>

\* create_payment_channel_session_opener: the client signs the open.
ClientOpens ==
  /\ request # None /\ sent = None
  /\ EnsureClientVoucherPull(request)
  /\ \E options \in OpenOptions :
       LET open == DerivePaymentChannelOpen(request, Payer, options) IN
         sent' = [payload |-> OpenPayloadOf(open),
                  transaction |-> BuildOpenPaymentChannelTx(open, request.operator),
                  altered |-> FALSE]
  /\ UNCHANGED <<config, request, chan, record, now, history>>

\* create_server_opened_payment_channel_session_opener: the operator pays, or a
\* payer the options name.
ServerOpenedClient ==
  /\ request # None /\ sent = None
  /\ EnsureClientVoucherPull(request)
  /\ \E options \in OpenOptions, payer \in {request.operator, Stranger} :
       LET open == DerivePaymentChannelOpen(request, payer, options) IN
         sent' = [payload |-> OpenPayloadOf(open), transaction |-> None, altered |-> FALSE]
  /\ UNCHANGED <<config, request, chan, record, now, history>>

\* Another client's payload, before the channel opens or after: one change to it.
AlterPayload ==
  /\ sent # None /\ ~sent.altered
  /\ \E p \in {[sent.payload EXCEPT !.payee = Stranger], [sent.payload EXCEPT !.mint = OtherMint],
               [sent.payload EXCEPT !.deposit = @ + 1], [sent.payload EXCEPT !.salt = None],
               [sent.payload EXCEPT !.authorized_signer = Stranger],
               [sent.payload EXCEPT !.mode = "push"]} :
       sent' = [sent EXCEPT !.payload = p, !.altered = TRUE]
  /\ sent.payload.deposit < MaxDeposit
  /\ UNCHANGED <<config, request, chan, record, now, history>>

\* The host completes the client's transaction, or makes one for a channel it is
\* to open; it can add the operator's signature and no other.
OpenTransaction ==
  Or(sent.transaction,
     [instruction |-> BuildOpenInstruction(PaymentChannelOpenParams(sent.payload)),
      fee_payer |-> Operator, signed |-> {}])

HostBroadcastsOpen ==
  /\ sent # None
  /\ ExpectedOpen(sent)
  /\ {OpenTransaction.fee_payer, OpenTransaction.instruction.ix.signer}
       \subseteq OpenTransaction.signed \cup {Operator}
  /\ ProgramOpens(OpenTransaction.instruction, TokenProgram)
  /\ landed' = sent
  /\ UNCHANGED <<config, request, sent, record, now, verified, opens>>

\* A client that pays the fee itself needs no host.
ClientBroadcastsOpen ==
  /\ sent # None /\ sent.transaction # None
  /\ sent.transaction.instruction.ix.signer \in sent.transaction.signed
  /\ ProgramOpens(sent.transaction.instruction, TokenProgram)
  /\ landed' = sent
  /\ UNCHANGED <<config, request, sent, record, now, verified, opens>>

\* The channel store: put_channel writes blindly, update_channel replaces what its
\* closure was given, under the store's lock.
PutChannel(state) == record' = state
UpdateChannel(state) == record # None /\ record' = state

\* Mutant: the deposit recorded is the session's cap.
RecordedDepositCap(payload) == config.max_cap

RecordedDeposit(payload) == payload.deposit

\* In push mode some confirmed signature is asked for, in pull mode none: any
\* payload passes, also for a channel that is not there or is recorded already,
\* whose record is then replaced.  (A payload of another channel is another record.)
ProcessOpen ==
  /\ sent # None /\ opens < MaxOpens
  /\ sent.payload.mode \in (IF config.modes = {} THEN {"push"} ELSE config.modes)
  /\ sent.payload.deposit > 0 /\ sent.payload.deposit <= config.max_cap
  /\ record # None => record.channel_id = sent.payload.channel_id
  /\ PutChannel([channel_id |-> sent.payload.channel_id,
                 authorized_signer |-> sent.payload.authorized_signer,
                 deposit |-> RecordedDeposit(sent.payload), cumulative |-> 0,
                 signature |-> None, expires_at |-> None,
                 closing |-> FALSE, finalized |-> FALSE])
  /\ opens' = opens + 1
  /\ verified' = (verified /\ landed = sent /\ ExpectedOpen(sent))
  /\ UNCHANGED <<config, request, sent, chan, now, landed>>

-----------------------------------------------------------------------------
(* Serving, topping up and settling. *)

\* A voucher that may raise the watermark now, and the record with it.
RaisesWatermark(cumulative, expires) ==
  cumulative > record.cumulative /\ cumulative <= record.deposit /\ expires > now

\* The signature is over the channel the voucher names.
WithVoucher(channel, cumulative, expires) ==
  [record EXCEPT !.cumulative = cumulative, !.expires_at = expires,
     !.signature = [signer |-> record.authorized_signer,
                    message |-> VoucherMessage(channel, cumulative, expires)]]

\* verify_voucher, for vouchers that raise the watermark: it looks up the channel
\* the voucher names.
AcceptVoucher ==
  /\ record # None
  /\ ~record.finalized /\ ~record.closing
  /\ \E cumulative \in Amounts, expires \in 1..MaxTime + 1 :
       /\ RaisesWatermark(cumulative, expires)
       /\ UpdateChannel(WithVoucher(record.channel_id, cumulative, expires))
  /\ UNCHANGED <<config, request, sent, chan, now, history>>

\* process_commit against a reservation begin_delivery granted earlier, of at most
\* the deposit; vouchers in between may have used that deposit up.
AcceptCommit ==
  /\ record # None
  /\ ~record.finalized /\ ~record.closing
  /\ \E reserved \in Amounts, cumulative \in Amounts, expires \in 1..MaxTime + 1 :
       /\ reserved <= record.deposit /\ expires > now
       /\ cumulative > record.cumulative /\ cumulative - record.cumulative <= reserved
       /\ UpdateChannel(WithVoucher(record.channel_id, cumulative, expires))
  /\ UNCHANGED <<config, request, sent, chan, now, history>>

ClientTopsUp ==
  /\ chan.status # "None"
  /\ \E amount \in Amounts :
       /\ chan.deposit + amount <= MaxDeposit
       /\ ProgramTopsUp(BuildTopUpInstruction(chan.payer, chan.address, chan.mint, amount,
                                              TokenProgram))
  /\ UNCHANGED <<config, request, sent, record, now, history>>

\* process_topup looks at nothing but the deposits, on a closed channel too.
ProcessTopup ==
  /\ record # None
  /\ \E new_deposit \in Amounts :
       /\ new_deposit > record.deposit /\ new_deposit <= config.max_cap
       /\ UpdateChannel([record EXCEPT !.deposit = new_deposit])
       /\ verified' = (verified /\ new_deposit <= chan.deposit)
  /\ UNCHANGED <<config, request, sent, chan, now, landed, opens>>

\* The host may settle what was accepted while the session goes on.
HostSettles ==
  /\ record # None /\ record.signature # None
  /\ ProgramSettles(BuildSettleInstructions(record.channel_id, record.authorized_signer,
                      record.signature, record.cumulative, record.expires_at))
  /\ UNCHANGED <<config, request, sent, record, now, history>>

\* Another channel of the same payer and key.
OtherChannel(address) == [address EXCEPT !.salt = @ + 1]

\* With a final voucher or without one.  Nothing compares the channel the voucher
\* names with the one that closes.
ProcessClose ==
  /\ record # None /\ ~record.finalized /\ ~record.closing
  /\ \/ UpdateChannel([record EXCEPT !.closing = TRUE])
     \/ \E channel \in {record.channel_id, OtherChannel(record.channel_id)},
           cumulative \in Amounts, expires \in 1..MaxTime + 1 :
          /\ RaisesWatermark(cumulative, expires)
          /\ UpdateChannel([WithVoucher(channel, cumulative, expires) EXCEPT !.closing = TRUE])
  /\ UNCHANGED <<config, request, sent, chan, now, history>>

\* Mutant: the highest voucher is left behind.
FinalizeParamsBare ==
  [channel_id |-> record.channel_id, authorized_signer |-> record.authorized_signer,
   settled |-> record.cumulative, voucher_signature |-> None,
   voucher_expires_at |-> None, splits |-> config.splits]

FinalizeParams ==
  [channel_id |-> record.channel_id, authorized_signer |-> record.authorized_signer,
   settled |-> record.cumulative, voucher_signature |-> record.signature,
   voucher_expires_at |-> record.expires_at, splits |-> config.splits]

HostFinalizes ==
  /\ record # None /\ record.closing
  /\ ProgramSettlesAndFinalizes(
       BuildSettleAndFinalizeInstructions(config.recipient, FinalizeParams.channel_id,
         FinalizeParams.authorized_signer, FinalizeParams.voucher_signature,
         FinalizeParams.settled, FinalizeParams.voucher_expires_at))
  /\ UNCHANGED <<config, request, sent, record, now, history>>

MarkFinalized ==
  /\ record # None /\ ~record.finalized
  /\ chan.status = "Finalized" /\ chan.address = record.channel_id
  /\ record' = [record EXCEPT !.finalized = TRUE]
  /\ UNCHANGED <<config, request, sent, chan, now, history>>

HostDistributes ==
  /\ record # None /\ chan.status # "None"
  /\ ProgramDistributes(BuildDistributeInstruction(FinalizeParams.channel_id, chan.payer,
       config.recipient, chan.mint, FinalizeParams.splits, TokenProgram))
  /\ UNCHANGED <<config, request, sent, record, now, history>>

-----------------------------------------------------------------------------
(* The payer leaves without the server. *)

PayerRequestsClose ==
  /\ chan.status # "None"
  /\ ProgramRequestsClose(BuildRequestCloseInstruction(chan.payer, chan.address))
  /\ UNCHANGED <<config, request, sent, record, now, history>>

\* Anyone may finalize once the grace period is over.
AnyoneFinalizes ==
  /\ chan.status # "None"
  /\ ProgramFinalizes(BuildFinalizeInstruction(chan.address))
  /\ UNCHANGED <<config, request, sent, record, now, history>>

PayerWithdraws ==
  /\ chan.status # "None"
  /\ ProgramWithdraws(WithdrawPayerIx(chan.payer, chan.address,
       TokenAddress(chan.address, chan.mint, TokenProgram),
       TokenAddress(chan.payer, chan.mint, TokenProgram), chan.mint, TokenProgram))
  /\ UNCHANGED <<config, request, sent, record, now, history>>

\* Time passes; the grace period counts down while the channel is closing.
Tick ==
  /\ now < MaxTime
  /\ now' = now + 1
  /\ chan' = IF chan.status = "Closing" /\ chan.grace > 0
               THEN [chan EXCEPT !.grace = @ - 1] ELSE chan
  /\ UNCHANGED <<config, request, sent, record, history>>

-----------------------------------------------------------------------------

Init ==
  /\ config \in Configs
  /\ request = None /\ sent = None /\ record = None
  /\ chan = NoChannel
  /\ now = 0
  /\ landed = None /\ verified = TRUE /\ opens = 0

Next ==
  \/ Challenge \/ ClientOpens \/ ServerOpenedClient \/ AlterPayload
  \/ HostBroadcastsOpen \/ ClientBroadcastsOpen \/ ProcessOpen
  \/ AcceptVoucher \/ AcceptCommit \/ ClientTopsUp \/ ProcessTopup \/ HostSettles
  \/ ProcessClose \/ HostFinalizes \/ MarkFinalized \/ HostDistributes
  \/ PayerRequestsClose \/ AnyoneFinalizes \/ PayerWithdraws \/ Tick

Spec == Init /\ [][Next]_vars

-----------------------------------------------------------------------------
(* Properties. *)

\* What the server recorded of a session is what the chain holds: the same
\* channel under the same voucher key, a deposit that is really there, and the
\* distribution the server will ask for at the end, whatever the client chose to
\* put into its transaction and its payload, however often the open or a top-up is
\* repeated.  It holds for a host that verified on-chain what it passed to
\* process_open (against payment_channel_open_instruction) and to process_topup:
\* the code itself does not, beyond asking whether some signature is confirmed.
RecordMatchesChannel ==
  record # None /\ verified =>
    /\ chan.status # "None"
    /\ record.channel_id = chan.address
    /\ record.authorized_signer = chan.authorized_signer
    /\ record.deposit <= chan.deposit
    /\ DistributionHash(config.splits) = chan.hash
    /\ chan.payee = config.recipient /\ chan.mint = config.mint

\* A voucher the server of such a host stored can be cashed: until the voucher
\* expires, is settled or the channel is finalized, the instructions built from it
\* satisfy every rule of the program, top-ups, repeated opens and a payer that asked
\* to close included.  Two vouchers cannot: one that took the watermark past the
\* deposit (process_commit has no deposit check) and a final voucher of another
\* channel (process_close does not compare channels).
AcceptedVoucherSettles ==
  (/\ record # None /\ verified /\ record.signature # None
   /\ record.expires_at > now
   /\ chan.status \in {"Open", "Closing"}
   /\ chan.settled < record.cumulative)
    => LET ixs == BuildSettleInstructions(record.channel_id, record.authorized_signer,
                    record.signature, record.cumulative, record.expires_at)
       IN \/ VoucherSettles(ixs[1], ixs[2].args)
          \/ record.cumulative > record.deposit
          \/ record.closing /\ record.signature.message[1] # record.channel_id

\* A channel the server finalized paid for everything it accepted, and a channel
\* finalized over its head never pays more than that, whatever was verified before
\* it was recorded.  (A second open of the channel would forget what was accepted
\* under the first: opens is 1.)
FinalizedPaysAccepted ==
  record # None /\ chan.status = "Finalized" =>
    /\ chan.paid_out <= chan.settled
    /\ opens = 1 =>
         /\ chan.settled <= record.cumulative
         /\ chan.by = "payee" => chan.settled = record.cumulative

=============================================================================
