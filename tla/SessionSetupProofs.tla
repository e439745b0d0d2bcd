-------------------------- MODULE SessionSetupProofs --------------------------
(* Proofs about PaymentChannels and MultiDelegate, for every value of their
   constants. *)
EXTENDS PaymentChannels, MultiDelegate, SequenceTheorems, TLAPS

-----------------------------------------------------------------------------
(* Payment channels: the inductive invariant. *)

OpenPayloads ==
  [mode : {"push", "pull"}, channel_id : ChannelAddresses, deposit : Nat,
   payer : Pubkeys, payee : Pubkeys, mint : Pubkeys, salt : Nat \cup {None},
   grace_period : Nat, authorized_signer : Pubkeys]

\* What an open instruction is built from.
OpenParams ==
  [payer : Pubkeys, payee : Pubkeys, mint : Pubkeys, authorized_signer : Pubkeys,
   salt : Nat, deposit : Nat, grace_period : Nat, recipients : Distributions,
   token_program : Pubkeys, program_id : Pubkeys]

\* A payload as it was derived or altered, beside a transaction one of our openers built.
IsOpen(open) ==
  /\ DOMAIN open = {"payload", "transaction", "altered"}
  /\ open.payload \in OpenPayloads
  /\ open.transaction # None =>
       \E p \in OpenParams : open.transaction.instruction = BuildOpenInstruction(p)

ChannelAccounts ==
  [status : {"Open", "Closing", "Finalized"}, address : ChannelAddresses,
   payer : Pubkeys, payee : Pubkeys, mint : Pubkeys, authorized_signer : Pubkeys,
   deposit : Nat, grace : Nat, hash : Nat \X Distributions, settled : Nat,
   paid_out : Nat, refunded : BOOLEAN, by : {None, "payee", "grace"}]

\* What the later steps rely on, as far as it is a matter of types.
ChannelTypes ==
  /\ config \in SessionConfigs
  /\ request # None =>
       /\ request.cap \in Nat /\ request.operator \in Pubkeys
       /\ request.recipient \in Pubkeys /\ request.mint \in Pubkeys
       /\ request.program_id \in Pubkeys \cup {None}
       /\ request.splits \in Distributions
  /\ sent # None => IsOpen(sent)
  /\ chan = NoChannel \/ chan \in ChannelAccounts
  /\ record = None \/ record \in ChannelStates
  /\ now \in Nat
  /\ verified \in BOOLEAN /\ opens \in Nat
  /\ opens = 0 <=> record = None

\* A channel opened by the transaction the server expects is the one the payload
\* names, with the distribution and the recipient of the server's configuration.
ChannelMatchesPayload ==
  chan.status # "None" /\ landed # None /\ ExpectedOpen(landed) =>
    /\ chan.address = landed.payload.channel_id
    /\ chan.authorized_signer = landed.payload.authorized_signer
    /\ chan.deposit >= landed.payload.deposit
    /\ chan.hash = DistributionHash(config.splits)
    /\ chan.payee = config.recipient /\ chan.mint = config.mint

\* The open that landed was an open action.
LandedIsOpen == landed # None => IsOpen(landed)

\* There is a landed open as soon as, and only when, there is a channel.
OpenedIsLanded == landed = None <=> chan.status = "None"

\* Nothing is settled before there is a record.
UnrecordedIsUnsettled ==
  record = None /\ chan.status # "None" =>
    chan.settled = 0 /\ ~(chan.status = "Finalized" /\ chan.by = "payee")

\* The stored voucher is what its signature covers; its channel is the record's
\* unless a close brought it.
StoredVoucherSigned ==
  record # None =>
    IF record.signature = None THEN record.cumulative = 0
    ELSE /\ record.expires_at \in Nat
         /\ record.signature.signer = record.authorized_signer
         /\ record.signature.message =
              VoucherMessage(record.signature.message[1], record.cumulative, record.expires_at)
         /\ record.signature.message[1] = record.channel_id \/ record.closing

\* Watermark and what the program settled and paid out, of a channel opened once.
SettledWithinRecord ==
  chan.status # "None" =>
    /\ chan.paid_out <= chan.settled
    /\ record # None /\ opens = 1 => chan.settled <= record.cumulative

\* Once the payee has finalized, the record is closing, so its watermark stays.
FinalizedByPayee ==
  record # None /\ opens = 1 /\ chan.status = "Finalized" /\ chan.by = "payee" =>
    record.closing /\ chan.settled = record.cumulative

ChannelInv ==
  /\ ChannelTypes
  /\ ChannelMatchesPayload
  /\ OpenedIsLanded
  /\ LandedIsOpen
  /\ RecordMatchesChannel
  /\ UnrecordedIsUnsettled
  /\ StoredVoucherSigned
  /\ SettledWithinRecord
  /\ FinalizedByPayee

-----------------------------------------------------------------------------

\* The initial state: a configuration and nothing else.
LEMMA ChannelInit == Init => ChannelInv
BY ChannelAssumption
   DEF Init, ChannelInv, ChannelTypes, NoChannel, ChannelMatchesPayload, OpenedIsLanded,
       LandedIsOpen, RecordMatchesChannel, UnrecordedIsUnsettled, StoredVoucherSigned,
       SettledWithinRecord, FinalizedByPayee

\* What the server expects of an open changes with its configuration only.
LEMMA ExpectedStays ==
  ASSUME config' = config, landed' = landed
  PROVE  ExpectedOpen(landed)' = ExpectedOpen(landed)
BY DEF ExpectedOpen, OpenParamsValid, HasOpenFields, IsExpectedOpen,
       PaymentChannelOpenParams, BuildOpenInstruction, OpenIx, DeriveChannelAddresses,
       FindChannelPda, TokenAddress, Or

\* A step of neither the channel nor the record.
LEMMA NeitherChanges ==
  ASSUME ChannelInv, ChannelTypes', UNCHANGED <<config, chan, record, history>>
  PROVE  ChannelInv'
<1>1. UNCHANGED <<landed, verified, opens>>
  BY DEF history
<1>2. ChannelMatchesPayload' /\ RecordMatchesChannel'
  BY <1>1, ExpectedStays
     DEF ChannelInv, ChannelMatchesPayload, RecordMatchesChannel, DistributionHash
<1>3. LandedIsOpen' /\ OpenedIsLanded' /\ StoredVoucherSigned'
  BY <1>1
     DEF ChannelInv, LandedIsOpen, OpenedIsLanded, StoredVoucherSigned, VoucherMessage
<1> QED
  BY <1>1, <1>2, <1>3
     DEF ChannelInv, UnrecordedIsUnsettled, SettledWithinRecord, FinalizedByPayee

\* An account that exists has the fields of one.
LEMMA OpenedAccount ==
  ASSUME ChannelTypes, chan.status # "None"
  PROVE  chan \in ChannelAccounts
BY DEF ChannelTypes, NoChannel

\* build_challenge_request: the request repeats the configuration.
LEMMA ChallengeKeeps ==
  ASSUME ChannelInv, Challenge
  PROVE  ChannelInv'
<1> USE DEF ChannelInv, Challenge
<1>1. PICK cap \in Caps : request' = BuildChallengeRequest(cap)
  OBVIOUS
<1>2. cap \in Nat
  BY ChannelAssumption
<1>3. Operator \in Pubkeys
  BY DEF Pubkeys
<1>4. ChannelTypes'
  BY <1>1, <1>2, <1>3
     DEF ChannelTypes, BuildChallengeRequest, SessionConfigs, NoChannel, history
<1> QED
  BY <1>4, NeitherChanges

\* What derive_payment_channel_open leads to is well typed.
LEMMA DerivedOpen ==
  ASSUME ChannelTypes, request # None, NEW options \in OpenOptions, NEW payer \in Pubkeys
  PROVE  /\ DerivePaymentChannelOpen(request, payer, options) \in OpenParams
         /\ OpenPayloadOf(DerivePaymentChannelOpen(request, payer, options)) \in OpenPayloads
<1> DEFINE open == DerivePaymentChannelOpen(request, payer, options)
<1>1. options \in PaymentChannelOpenOptions
  BY ChannelAssumption
<1>2. SessionKey \in Pubkeys /\ DefaultProgram \in Pubkeys /\ TokenProgram \in Pubkeys
  BY DEF Pubkeys
<1>3. DefaultGrace \in Nat
  BY ChannelAssumption
<1>4. open \in OpenParams
  BY <1>1, <1>2, <1>3
     DEF DerivePaymentChannelOpen, PaymentChannelOpenOptions, ChannelTypes, Or, OpenParams
<1> HIDE DEF open
<1>5. FindChannelPda(open) \in ChannelAddresses
  BY <1>4 DEF FindChannelPda, ChannelAddresses, OpenParams
<1>6. OpenPayloadOf(open) \in OpenPayloads
  BY <1>4, <1>5 DEF OpenPayloadOf, OpenPayloads, OpenParams
<1> QED
  BY <1>4, <1>6 DEF open

\* An open action is made or changed.
LEMMA NewOpen ==
  ASSUME ChannelInv, UNCHANGED <<config, request, chan, record, now, history>>,
         IsOpen(sent')
  PROVE  ChannelInv'
<1>1. IsOpen(sent)'
  BY DEF IsOpen
<1>2. ChannelTypes'
  BY <1>1 DEF ChannelInv, ChannelTypes, NoChannel, history
<1> QED
  BY <1>2, NeitherChanges

\* Both openers of client/payment_channels.rs.
LEMMA ClientOpensKeeps ==
  ASSUME ChannelInv, ClientOpens \/ ServerOpenedClient
  PROVE  ChannelInv'
<1>1. /\ request # None /\ ChannelTypes
      /\ UNCHANGED <<config, request, chan, record, now, history>>
  BY DEF ClientOpens, ServerOpenedClient, ChannelInv
<1>2. Payer \in Pubkeys /\ Stranger \in Pubkeys
  BY DEF Pubkeys
<1>3. IsOpen(sent')
  <2>1. CASE ClientOpens
    <3>1. PICK options \in OpenOptions :
            sent' = [payload |-> OpenPayloadOf(DerivePaymentChannelOpen(request, Payer, options)),
                     transaction |-> BuildOpenPaymentChannelTx(
                       DerivePaymentChannelOpen(request, Payer, options), request.operator),
                     altered |-> FALSE]
      BY <2>1 DEF ClientOpens
    <3> QED
      BY <3>1, <1>1, <1>2, DerivedOpen DEF IsOpen, BuildOpenPaymentChannelTx
  <2>2. CASE ServerOpenedClient
    <3>1. request.operator \in Pubkeys
      BY <1>1 DEF ChannelTypes
    <3> QED
      BY <2>2, <3>1, <1>1, <1>2, DerivedOpen DEF ServerOpenedClient, IsOpen
  <2> QED BY <2>1, <2>2
<1> QED
  BY <1>1, <1>3, NewOpen

LEMMA AlterPayloadKeeps ==
  ASSUME ChannelInv, AlterPayload
  PROVE  ChannelInv'
<1>1. sent # None /\ UNCHANGED <<config, request, chan, record, now, history>>
  BY DEF AlterPayload
<1>2. IsOpen(sent)
  BY <1>1 DEF ChannelInv, ChannelTypes
<1>3. PICK p \in {[sent.payload EXCEPT !.payee = Stranger], [sent.payload EXCEPT !.mint = OtherMint],
               [sent.payload EXCEPT !.deposit = @ + 1], [sent.payload EXCEPT !.salt = None],
               [sent.payload EXCEPT !.authorized_signer = Stranger],
               [sent.payload EXCEPT !.mode = "push"]} :
             sent' = [sent EXCEPT !.payload = p, !.altered = TRUE]
  BY DEF AlterPayload
<1>4. Stranger \in Pubkeys /\ OtherMint \in Pubkeys
  BY DEF Pubkeys
<1>5. p \in OpenPayloads
  BY <1>2, <1>3, <1>4 DEF OpenPayloads, IsOpen
<1>6. /\ DOMAIN sent' = {"payload", "transaction", "altered"} /\ sent'.payload = p
      /\ sent'.transaction = sent.transaction
  BY <1>2, <1>3 DEF IsOpen
<1>7. IsOpen(sent')
  BY <1>2, <1>5, <1>6 DEF IsOpen
<1> QED
  BY <1>1, <1>7, NewOpen

\* The open the host completes is the one the server's own configuration and the
\* payload describe, whoever built the transaction.
LEMMA ExpectedTransaction ==
  ASSUME ExpectedOpen(sent)
  PROVE  OpenTransaction.instruction =
           BuildOpenInstruction(PaymentChannelOpenParams(sent.payload))
<1>1. CASE sent.transaction = None
  BY <1>1 DEF OpenTransaction, Or
<1>2. CASE sent.transaction # None
  BY <1>2 DEF OpenTransaction, Or, IsExpectedOpen, ExpectedOpen
<1> QED BY <1>1, <1>2

\* The account an open of these parameters creates.
LEMMA OpenedChannel ==
  ASSUME NEW p, ProgramOpens(BuildOpenInstruction(p), TokenProgram)
  PROVE  chan' = [status |-> "Open", address |-> FindChannelPda(p), payer |-> p.payer,
                  payee |-> p.payee, mint |-> p.mint,
                  authorized_signer |-> p.authorized_signer, deposit |-> p.deposit,
                  grace |-> p.grace_period, hash |-> DistributionHash(p.recipients),
                  settled |-> 0, paid_out |-> 0, refunded |-> FALSE, by |-> None]
BY DEF ProgramOpens, BuildOpenInstruction, OpenIx, DeriveChannelAddresses

\* What the server makes of a payload it can read.
LEMMA ExpectedParams ==
  ASSUME ChannelTypes, sent # None, ExpectedOpen(sent)
  PROVE  PaymentChannelOpenParams(sent.payload) \in OpenParams
<1>1. sent.payload \in OpenPayloads /\ config \in SessionConfigs
  BY DEF ChannelTypes, IsOpen
<1>2. TokenProgram \in Pubkeys /\ DefaultProgram \in Pubkeys
  BY DEF Pubkeys
<1>3. sent.payload.salt \in Nat
  BY <1>1 DEF ExpectedOpen, OpenParamsValid, HasOpenFields, OpenPayloads
<1>4. config.splits \in Distributions /\ Or(config.program_id, DefaultProgram) \in Pubkeys
  BY <1>1, <1>2 DEF SessionConfigs, Or
<1> QED
  BY <1>1, <1>2, <1>3, <1>4 DEF PaymentChannelOpenParams, OpenPayloads, OpenParams

\* The channel opens, by the host's transaction or by the client's own: a record
\* made before it was not verified.
LEMMA BroadcastKeeps ==
  ASSUME ChannelInv, HostBroadcastsOpen \/ ClientBroadcastsOpen
  PROVE  ChannelInv'
<1> DEFINE payload == sent.payload
           params == PaymentChannelOpenParams(payload)
<1>1. /\ sent # None /\ chan.status = "None" /\ landed' = sent /\ ChannelTypes
      /\ UNCHANGED <<config, request, sent, record, now, verified, opens>>
  BY DEF HostBroadcastsOpen, ClientBroadcastsOpen, ProgramOpens, ChannelInv
<1>2. IsOpen(sent) /\ config \in SessionConfigs
  BY <1>1 DEF ChannelTypes
<1>3. ExpectedOpen(sent) => ProgramOpens(BuildOpenInstruction(params), TokenProgram)
  <2>1. CASE HostBroadcastsOpen
    BY <2>1, ExpectedTransaction DEF HostBroadcastsOpen
  <2>2. CASE ClientBroadcastsOpen
    BY <2>2 DEF ClientBroadcastsOpen, ExpectedOpen, IsExpectedOpen
  <2> QED BY <2>1, <2>2
<1>4. PICK p \in OpenParams : ProgramOpens(BuildOpenInstruction(p), TokenProgram)
  <2>1. CASE HostBroadcastsOpen
    BY <2>1, <1>1, <1>3, ExpectedParams DEF HostBroadcastsOpen
  <2>2. CASE ClientBroadcastsOpen
    BY <2>2, <1>2 DEF ClientBroadcastsOpen, IsOpen
  <2> QED BY <2>1, <2>2
<1>5. chan' = [status |-> "Open", address |-> FindChannelPda(p), payer |-> p.payer,
               payee |-> p.payee, mint |-> p.mint,
               authorized_signer |-> p.authorized_signer, deposit |-> p.deposit,
               grace |-> p.grace_period, hash |-> DistributionHash(p.recipients),
               settled |-> 0, paid_out |-> 0, refunded |-> FALSE, by |-> None]
  BY <1>4, OpenedChannel
<1>6. /\ FindChannelPda(p) \in ChannelAddresses
      /\ DistributionHash(p.recipients) \in Nat \X Distributions
  BY <1>4 DEF FindChannelPda, ChannelAddresses, OpenParams, DistributionHash, Distributions
<1>7. chan' \in ChannelAccounts
  BY <1>4, <1>5, <1>6 DEF ChannelAccounts, OpenParams
<1>8. ChannelTypes'
  <2>1. IsOpen(sent)'
    BY <1>1, <1>2 DEF IsOpen
  <2> QED
    BY <1>1, <1>7, <2>1 DEF ChannelTypes
<1>9. ExpectedOpen(sent) =>
        /\ chan'.address = payload.channel_id
        /\ chan'.authorized_signer = payload.authorized_signer
        /\ chan'.deposit = payload.deposit /\ payload.deposit \in Nat
        /\ chan'.hash = DistributionHash(config.splits)
        /\ chan'.payee = config.recipient /\ chan'.mint = config.mint
  <2> SUFFICES ASSUME ExpectedOpen(sent)
               PROVE  /\ chan'.address = payload.channel_id
                      /\ chan'.authorized_signer = payload.authorized_signer
                      /\ chan'.deposit = payload.deposit /\ payload.deposit \in Nat
                      /\ chan'.hash = DistributionHash(config.splits)
                      /\ chan'.payee = config.recipient /\ chan'.mint = config.mint
    OBVIOUS
  <2>1. /\ FindChannelPda(params) = payload.channel_id
        /\ payload.payee = config.recipient /\ payload.mint = config.mint
    BY DEF ExpectedOpen, OpenParamsValid
  <2>2. /\ params.payee = payload.payee /\ params.mint = payload.mint
        /\ params.authorized_signer = payload.authorized_signer
        /\ params.deposit = payload.deposit /\ params.recipients = config.splits
    BY DEF PaymentChannelOpenParams
  <2>3. payload.deposit \in Nat
    BY <1>2 DEF IsOpen, OpenPayloads
  <2> HIDE DEF params, payload
  <2> QED BY <1>3, <2>1, <2>2, <2>3, OpenedChannel
<1>10. ChannelMatchesPayload'
  <2>1. ExpectedOpen(landed)' = ExpectedOpen(sent)
    BY <1>1 DEF ExpectedOpen, OpenParamsValid, HasOpenFields, IsExpectedOpen,
       PaymentChannelOpenParams, BuildOpenInstruction, OpenIx, DeriveChannelAddresses,
       FindChannelPda, TokenAddress, Or
  <2> QED
    BY <1>1, <1>9, <2>1 DEF ChannelMatchesPayload
<1>11. ~(record # None /\ verified)
  BY <1>1 DEF ChannelInv, RecordMatchesChannel
<1> QED
  BY <1>1, <1>5, <1>8, <1>10, <1>11
     DEF ChannelInv, OpenedIsLanded, LandedIsOpen, RecordMatchesChannel,
         UnrecordedIsUnsettled, StoredVoucherSigned, SettledWithinRecord,
         FinalizedByPayee, ChannelTypes, ChannelStates

-----------------------------------------------------------------------------
(* Steps of the server: the record changes, the channel does not. *)

\* process_open records what the payload says; when that was verified, it is what
\* the channel holds.
LEMMA ProcessOpenKeeps ==
  ASSUME ChannelInv, ProcessOpen
  PROVE  ChannelInv'
<1>1. /\ sent # None
      /\ UNCHANGED <<config, request, sent, chan, now, landed>>
      /\ record' = [channel_id |-> sent.payload.channel_id,
                    authorized_signer |-> sent.payload.authorized_signer,
                    deposit |-> sent.payload.deposit, cumulative |-> 0,
                    signature |-> None, expires_at |-> None,
                    closing |-> FALSE, finalized |-> FALSE]
      /\ opens' = opens + 1
      /\ verified' = (verified /\ landed = sent /\ ExpectedOpen(sent))
  BY DEF ProcessOpen, PutChannel, RecordedDeposit
<1>2. IsOpen(sent) /\ sent.payload \in OpenPayloads /\ opens \in Nat
  BY <1>1 DEF ChannelInv, ChannelTypes, IsOpen
<1>3. record' \in ChannelStates /\ record' # None
  <2>1. record' \in ChannelStates
    BY <1>1, <1>2 DEF ChannelStates, OpenPayloads
  <2> QED BY <2>1, ChannelAssumption
<1>4. ChannelTypes'
  <2>1. IsOpen(sent)'
    BY <1>1, <1>2 DEF IsOpen
  <2>2. opens' \in Nat /\ opens' # 0 /\ verified' \in BOOLEAN
    BY <1>1, <1>2
  <2> QED
    BY <1>1, <1>3, <2>1, <2>2 DEF ChannelInv, ChannelTypes, NoChannel
<1>5. ChannelMatchesPayload' /\ OpenedIsLanded' /\ LandedIsOpen'
  BY <1>1, ExpectedStays DEF ChannelInv, ChannelMatchesPayload, OpenedIsLanded, LandedIsOpen
<1>6. RecordMatchesChannel'
  <2> SUFFICES ASSUME verified'
               PROVE  /\ chan.status # "None"
                      /\ sent.payload.channel_id = chan.address
                      /\ sent.payload.authorized_signer = chan.authorized_signer
                      /\ sent.payload.deposit <= chan.deposit
                      /\ DistributionHash(config.splits) = chan.hash
                      /\ chan.payee = config.recipient /\ chan.mint = config.mint
    BY <1>1 DEF RecordMatchesChannel, DistributionHash
  <2>1. landed = sent /\ landed # None /\ ExpectedOpen(landed)
    BY <1>1
  <2>2. chan.status # "None" /\ chan \in ChannelAccounts
    BY <2>1, OpenedAccount DEF ChannelInv, OpenedIsLanded
  <2> QED
    BY <1>2, <2>1, <2>2 DEF ChannelInv, ChannelMatchesPayload, ChannelAccounts, OpenPayloads
<1>7. opens' = 1 => record = None
  BY <1>1, <1>2 DEF ChannelInv, ChannelTypes
<1>8. SettledWithinRecord'
  BY <1>1, <1>7 DEF ChannelInv, UnrecordedIsUnsettled, SettledWithinRecord
<1> QED
  BY <1>1, <1>3, <1>4, <1>5, <1>6, <1>7, <1>8
     DEF ChannelInv, UnrecordedIsUnsettled, StoredVoucherSigned, FinalizedByPayee

\* A server step may raise the watermark together with the voucher that covers it,
\* raise the deposit, to what the channel holds if that was verified, and set the
\* flags; once closing, only the deposit and the flags.
LEMMA RecordUpdate ==
  ASSUME ChannelInv, record # None, record' \in ChannelStates,
         UNCHANGED <<config, request, sent, chan, now, landed, opens>>,
         record'.channel_id = record.channel_id,
         record'.authorized_signer = record.authorized_signer,
         verified' \in BOOLEAN,
         verified' => verified /\ record'.deposit <= chan.deposit,
         record'.cumulative >= record.cumulative,
         record.closing => record'.closing /\ record'.cumulative = record.cumulative,
         StoredVoucherSigned'
  PROVE  ChannelInv'
<1>1. record' # None /\ record \in ChannelStates
  BY ChannelAssumption DEF ChannelInv, ChannelTypes
<1>2. ChannelTypes'
  <2>1. sent # None => IsOpen(sent)'
    BY DEF ChannelInv, ChannelTypes, IsOpen
  <2> QED
    BY <1>1, <2>1 DEF ChannelInv, ChannelTypes, NoChannel
<1>3. ChannelMatchesPayload' /\ OpenedIsLanded' /\ LandedIsOpen'
  BY ExpectedStays DEF ChannelInv, ChannelMatchesPayload, OpenedIsLanded, LandedIsOpen
<1>4. RecordMatchesChannel'
  BY <1>1 DEF ChannelInv, RecordMatchesChannel, DistributionHash
<1>5. SettledWithinRecord'
  <2>1. chan.status # "None" => chan \in ChannelAccounts
    BY OpenedAccount DEF ChannelInv
  <2> QED
    BY <1>1, <2>1 DEF ChannelInv, SettledWithinRecord, ChannelStates, ChannelAccounts
<1>6. FinalizedByPayee'
  BY <1>1 DEF ChannelInv, FinalizedByPayee
<1> QED
  BY <1>1, <1>2, <1>3, <1>4, <1>5, <1>6 DEF ChannelInv, UnrecordedIsUnsettled

\* The fields of a record that took a voucher.
LEMMA VoucherTaken ==
  ASSUME ChannelInv, record # None, NEW c \in Amounts, NEW e \in 1..MaxTime + 1,
         NEW channel \in ChannelAddresses, c > record.cumulative,
         NEW state, state = WithVoucher(channel, c, e)
  PROVE  /\ state \in ChannelStates
         /\ state.channel_id = record.channel_id
         /\ state.authorized_signer = record.authorized_signer
         /\ state.deposit = record.deposit
         /\ state.cumulative >= record.cumulative
         /\ state.closing = record.closing
         /\ state.expires_at \in Nat /\ state.signature # None
         /\ state.signature.signer = state.authorized_signer
         /\ state.signature.message =
              VoucherMessage(state.signature.message[1], state.cumulative, state.expires_at)
         /\ state.signature.message[1] = channel
<1>1. record \in ChannelStates
  BY DEF ChannelInv, ChannelTypes
<1>2. c \in Nat /\ e \in Nat
  BY ChannelAssumption
<1>3. [signer |-> record.authorized_signer,
       message |-> VoucherMessage(channel, c, e)] \in VoucherSignatures
  BY <1>1, <1>2 DEF ChannelStates, VoucherSignatures, VoucherMessage
<1>4. /\ state \in ChannelStates
      /\ state.signature = [signer |-> record.authorized_signer,
                            message |-> VoucherMessage(channel, c, e)]
      /\ state.cumulative = c /\ state.expires_at = e
      /\ state.channel_id = record.channel_id
      /\ state.authorized_signer = record.authorized_signer
      /\ state.deposit = record.deposit /\ state.closing = record.closing
  BY <1>1, <1>2, <1>3 DEF ChannelStates, WithVoucher
<1>5. c >= record.cumulative
  BY <1>1, <1>2 DEF ChannelStates
<1> QED
  BY <1>2, <1>3, <1>4, <1>5, ChannelAssumption DEF VoucherMessage

\* Vouchers and commits: both are looked up by the channel they name.
LEMMA AcceptKeeps ==
  ASSUME ChannelInv, AcceptVoucher \/ AcceptCommit
  PROVE  ChannelInv'
<1>1. PICK c \in Amounts, e \in 1..MaxTime + 1 :
        c > record.cumulative /\ record' = WithVoucher(record.channel_id, c, e)
  BY DEF AcceptVoucher, AcceptCommit, UpdateChannel, RaisesWatermark
<1>2. /\ record # None /\ ~record.closing
      /\ UNCHANGED <<config, request, sent, chan, now, landed, verified, opens>>
  BY DEF AcceptVoucher, AcceptCommit, history
<1>3. record.channel_id \in ChannelAddresses /\ verified \in BOOLEAN
  BY <1>2 DEF ChannelInv, ChannelTypes, ChannelStates
<1>4. /\ record' \in ChannelStates
      /\ record'.channel_id = record.channel_id
      /\ record'.authorized_signer = record.authorized_signer
      /\ record'.deposit = record.deposit
      /\ record'.cumulative >= record.cumulative
      /\ StoredVoucherSigned'
  BY <1>1, <1>2, <1>3, VoucherTaken DEF StoredVoucherSigned, VoucherMessage
<1>5. verified => record.deposit <= chan.deposit
  BY <1>2 DEF ChannelInv, RecordMatchesChannel
<1> QED
  BY <1>2, <1>3, <1>4, <1>5, RecordUpdate

\* With a final voucher, of whatever channel, or without one.
LEMMA ProcessCloseKeeps ==
  ASSUME ChannelInv, ProcessClose
  PROVE  ChannelInv'
<1>1. PICK state :
        /\ \/ state = record
           \/ \E channel \in {record.channel_id, OtherChannel(record.channel_id)},
                 c \in Amounts, e \in 1..MaxTime + 1 :
                c > record.cumulative /\ state = WithVoucher(channel, c, e)
        /\ record' = [state EXCEPT !.closing = TRUE]
  BY DEF ProcessClose, UpdateChannel, RaisesWatermark
<1>2. /\ record # None /\ record \in ChannelStates /\ verified \in BOOLEAN
      /\ ~record.closing
      /\ UNCHANGED <<config, request, sent, chan, now, landed, verified, opens>>
  BY DEF ProcessClose, ChannelInv, ChannelTypes, history
<1>3. /\ record.channel_id \in ChannelAddresses
      /\ OtherChannel(record.channel_id) \in ChannelAddresses
  BY <1>2 DEF ChannelStates, ChannelAddresses, OtherChannel
<1>4. /\ state \in ChannelStates /\ state.deposit = record.deposit
      /\ state.channel_id = record.channel_id
      /\ state.authorized_signer = record.authorized_signer
      /\ state.cumulative >= record.cumulative
      /\ IF state.signature = None THEN state.cumulative = 0
         ELSE /\ state.expires_at \in Nat
              /\ state.signature.signer = state.authorized_signer
              /\ state.signature.message =
                   VoucherMessage(state.signature.message[1], state.cumulative,
                                  state.expires_at)
  <2>1. CASE state = record
    BY <2>1, <1>2 DEF ChannelInv, StoredVoucherSigned, ChannelStates
  <2>2. CASE \E channel \in {record.channel_id, OtherChannel(record.channel_id)},
               c \in Amounts, e \in 1..MaxTime + 1 :
               c > record.cumulative /\ state = WithVoucher(channel, c, e)
    <3>1. PICK channel \in {record.channel_id, OtherChannel(record.channel_id)},
               c \in Amounts, e \in 1..MaxTime + 1 :
               c > record.cumulative /\ state = WithVoucher(channel, c, e)
      BY <2>2
    <3>2. channel \in ChannelAddresses
      BY <1>3, <3>1
    <3> QED BY <3>1, <3>2, <1>2, VoucherTaken
  <2> QED BY <1>1, <2>1, <2>2
<1>5. /\ record' \in ChannelStates /\ record'.closing
      /\ record'.deposit = state.deposit /\ record'.cumulative = state.cumulative
      /\ record'.channel_id = state.channel_id
      /\ record'.authorized_signer = state.authorized_signer
      /\ record'.signature = state.signature /\ record'.expires_at = state.expires_at
  BY <1>1, <1>4 DEF ChannelStates
<1>6. verified => record'.deposit <= chan.deposit
  BY <1>2, <1>4, <1>5 DEF ChannelInv, RecordMatchesChannel
<1>7. StoredVoucherSigned'
  BY <1>4, <1>5 DEF StoredVoucherSigned, VoucherMessage
<1> QED
  BY <1>2, <1>4, <1>5, <1>6, <1>7, RecordUpdate

\* A step that leaves the watermark and its voucher.
LEMMA VoucherStays ==
  ASSUME ChannelInv, record # None, NEW d \in Nat, NEW f \in BOOLEAN,
         record' = [record EXCEPT !.deposit = d, !.finalized = f]
  PROVE  /\ record' \in ChannelStates /\ record'.deposit = d
         /\ record'.cumulative = record.cumulative
         /\ record'.cumulative >= record.cumulative
         /\ record'.closing = record.closing
         /\ record'.channel_id = record.channel_id
         /\ record'.authorized_signer = record.authorized_signer
         /\ StoredVoucherSigned'
<1>1. record \in ChannelStates
  BY DEF ChannelInv, ChannelTypes
<1>2. /\ record' \in ChannelStates /\ record'.deposit = d
      /\ record'.cumulative = record.cumulative /\ record.cumulative \in Nat
      /\ record'.closing = record.closing
      /\ record'.channel_id = record.channel_id
      /\ record'.authorized_signer = record.authorized_signer
      /\ record'.signature = record.signature /\ record'.expires_at = record.expires_at
  BY <1>1 DEF ChannelStates
<1>3. StoredVoucherSigned'
  BY <1>2 DEF ChannelInv, StoredVoucherSigned, VoucherMessage
<1> QED BY <1>2, <1>3

LEMMA ProcessTopupKeeps ==
  ASSUME ChannelInv, ProcessTopup
  PROVE  ChannelInv'
<1>1. PICK new_deposit \in Amounts :
        /\ record # None
        /\ record' = [record EXCEPT !.deposit = new_deposit]
        /\ verified' = (verified /\ new_deposit <= chan.deposit)
        /\ UNCHANGED <<config, request, sent, chan, now, landed, opens>>
  BY DEF ProcessTopup, UpdateChannel
<1>2. new_deposit \in Nat /\ record \in ChannelStates
  BY <1>1, ChannelAssumption DEF ChannelInv, ChannelTypes
<1>3. record' = [record EXCEPT !.deposit = new_deposit, !.finalized = record.finalized]
  BY <1>1, <1>2 DEF ChannelStates
<1>4. record.finalized \in BOOLEAN
  BY <1>2 DEF ChannelStates
<1>5. verified' \in BOOLEAN /\ (verified' => verified /\ new_deposit <= chan.deposit)
  BY <1>1
<1> HIDE DEF ChannelInv
<1> QED
  BY <1>1, <1>2, <1>3, <1>4, <1>5, VoucherStays, RecordUpdate

LEMMA MarkFinalizedKeeps ==
  ASSUME ChannelInv, MarkFinalized
  PROVE  ChannelInv'
<1>1. /\ record # None /\ record \in ChannelStates
      /\ record' = [record EXCEPT !.finalized = TRUE]
      /\ UNCHANGED <<config, request, sent, chan, now, landed, verified, opens>>
      /\ verified \in BOOLEAN
  BY DEF MarkFinalized, ChannelInv, ChannelTypes, history
<1>2. /\ record' = [record EXCEPT !.deposit = record.deposit, !.finalized = TRUE]
      /\ record.deposit \in Nat
  BY <1>1 DEF ChannelStates
<1>3. verified => record.deposit <= chan.deposit
  BY <1>1 DEF ChannelInv, RecordMatchesChannel
<1> QED
  BY <1>1, <1>2, <1>3, VoucherStays, RecordUpdate

-----------------------------------------------------------------------------
(* Steps of the program: the channel changes, the record does not. *)

\* No instruction changes what the channel was opened with or lowers its deposit;
\* what it settles stays within a record opened once.
LEMMA ChannelUpdate ==
  ASSUME ChannelInv, chan.status # "None", chan' \in ChannelAccounts,
         UNCHANGED <<config, request, sent, record, history>>, now' \in Nat,
         chan'.address = chan.address, chan'.authorized_signer = chan.authorized_signer,
         chan'.payee = chan.payee, chan'.mint = chan.mint, chan'.hash = chan.hash,
         chan'.deposit >= chan.deposit,
         chan'.paid_out <= chan'.settled,
         record = None => chan'.settled = chan.settled,
         record # None /\ opens = 1 => chan'.settled <= record.cumulative,
         chan'.status = "Finalized" /\ chan'.by = "payee" =>
           /\ record # None
           /\ opens = 1 => record.closing /\ chan'.settled = record.cumulative
  PROVE  ChannelInv'
<1>1. chan \in ChannelAccounts
  BY OpenedAccount DEF ChannelInv
<1>2. chan'.status # "None"
  BY DEF ChannelAccounts
<1>3. UNCHANGED <<landed, verified, opens>>
  BY DEF history
<1>4. ChannelTypes'
  <2>1. sent # None => IsOpen(sent)'
    BY DEF ChannelInv, ChannelTypes, IsOpen
  <2> QED
    BY <1>3, <2>1 DEF ChannelInv, ChannelTypes
<1>5. ChannelMatchesPayload'
  <2> SUFFICES ASSUME landed # None, ExpectedOpen(landed)
               PROVE  /\ chan'.address = landed.payload.channel_id
                      /\ chan'.authorized_signer = landed.payload.authorized_signer
                      /\ chan'.deposit >= landed.payload.deposit
                      /\ chan'.hash = DistributionHash(config.splits)
                      /\ chan'.payee = config.recipient /\ chan'.mint = config.mint
    BY <1>3, ExpectedStays DEF ChannelMatchesPayload, DistributionHash
  <2>1. /\ chan.address = landed.payload.channel_id
        /\ chan.authorized_signer = landed.payload.authorized_signer
        /\ chan.deposit >= landed.payload.deposit
        /\ chan.hash = DistributionHash(config.splits)
        /\ chan.payee = config.recipient /\ chan.mint = config.mint
    BY DEF ChannelInv, ChannelMatchesPayload
  <2>2. landed.payload.deposit \in Nat
    BY DEF ChannelInv, LandedIsOpen, IsOpen, OpenPayloads
  <2> QED
    BY <1>1, <2>1, <2>2 DEF ChannelAccounts
<1>6. RecordMatchesChannel'
  <2> SUFFICES ASSUME record # None, verified
               PROVE  record.deposit <= chan'.deposit
    BY <1>2, <1>3 DEF ChannelInv, RecordMatchesChannel, DistributionHash
  <2>1. record \in ChannelStates
    BY DEF ChannelInv, ChannelTypes
  <2> QED
    BY <1>1, <2>1 DEF ChannelInv, RecordMatchesChannel, ChannelStates, ChannelAccounts
<1>7. /\ OpenedIsLanded' /\ LandedIsOpen'
      /\ UnrecordedIsUnsettled' /\ SettledWithinRecord' /\ FinalizedByPayee'
  BY <1>2, <1>3
     DEF ChannelInv, OpenedIsLanded, LandedIsOpen, UnrecordedIsUnsettled, SettledWithinRecord,
         FinalizedByPayee, IsOpen
<1> QED
  BY <1>3, <1>4, <1>5, <1>6, <1>7 DEF ChannelInv, StoredVoucherSigned, VoucherMessage

\* What an open channel's invariant says of its numbers.
LEMMA ChannelNumbers ==
  ASSUME ChannelInv, chan.status # "None"
  PROVE  /\ chan \in ChannelAccounts
         /\ chan.settled \in Nat /\ chan.paid_out \in Nat /\ chan.deposit \in Nat
         /\ now \in Nat
         /\ chan.paid_out <= chan.settled
         /\ record = None => chan.settled = 0
         /\ record # None => /\ record \in ChannelStates
                             /\ record.cumulative \in Nat
         /\ record # None /\ opens = 1 => chan.settled <= record.cumulative
         /\ chan.status = "Finalized" /\ chan.by = "payee" =>
              /\ record # None
              /\ opens = 1 => record.closing /\ chan.settled = record.cumulative
<1>1. chan \in ChannelAccounts
  BY OpenedAccount DEF ChannelInv
<1> QED
  BY <1>1 DEF ChannelInv, ChannelTypes, ChannelAccounts, ChannelStates, SettledWithinRecord,
              UnrecordedIsUnsettled, FinalizedByPayee

LEMMA ClientTopsUpKeeps ==
  ASSUME ChannelInv, ClientTopsUp
  PROVE  ChannelInv'
<1>1. PICK amount \in Amounts :
        ProgramTopsUp(BuildTopUpInstruction(chan.payer, chan.address, chan.mint, amount,
                                            TokenProgram))
  BY DEF ClientTopsUp
<1>2. /\ chan.status = "Open" /\ chan' = [chan EXCEPT !.deposit = @ + amount]
      /\ UNCHANGED <<config, request, sent, record, now, history>>
  BY <1>1 DEF ClientTopsUp, ProgramTopsUp, BuildTopUpInstruction, TopUpIx
<1>3. amount \in Nat
  BY ChannelAssumption
<1>4. /\ chan' \in ChannelAccounts /\ chan'.deposit = chan.deposit + amount
      /\ chan'.address = chan.address /\ chan'.authorized_signer = chan.authorized_signer
      /\ chan'.payee = chan.payee /\ chan'.mint = chan.mint /\ chan'.hash = chan.hash
      /\ chan'.settled = chan.settled /\ chan'.paid_out = chan.paid_out
      /\ chan'.status = chan.status /\ chan'.by = chan.by
  BY <1>2, <1>3, ChannelNumbers DEF ChannelAccounts
<1>5. chan'.deposit >= chan.deposit
  BY <1>2, <1>3, <1>4, ChannelNumbers
<1> QED
  BY <1>2, <1>4, <1>5, ChannelNumbers, ChannelUpdate

\* A channel step that leaves the money alone.
LEMMA StatusUpdate ==
  ASSUME ChannelInv, chan.status # "None", UNCHANGED <<config, request, sent, record, history>>,
         now' \in Nat, NEW status \in {"Open", "Closing", "Finalized"},
         NEW by \in {None, "payee", "grace"}, NEW grace \in Nat, NEW refunded \in BOOLEAN,
         chan' = [chan EXCEPT !.status = status, !.by = by, !.grace = grace,
                    !.refunded = refunded],
         status = "Finalized" /\ by = "payee" =>
           chan.status = "Finalized" /\ chan.by = "payee"
  PROVE  ChannelInv'
<1>1. /\ chan' \in ChannelAccounts /\ chan'.deposit = chan.deposit
      /\ chan'.address = chan.address /\ chan'.authorized_signer = chan.authorized_signer
      /\ chan'.payee = chan.payee /\ chan'.mint = chan.mint /\ chan'.hash = chan.hash
      /\ chan'.settled = chan.settled /\ chan'.paid_out = chan.paid_out
      /\ chan'.status = status /\ chan'.by = by
  BY ChannelNumbers DEF ChannelAccounts
<1>2. chan'.deposit >= chan.deposit
  BY <1>1, ChannelNumbers
<1> QED
  BY <1>1, <1>2, ChannelNumbers, ChannelUpdate

\* request_close, finalize and withdraw_payer, and the clock.
LEMMA PayerStepKeeps ==
  ASSUME ChannelInv, PayerRequestsClose \/ AnyoneFinalizes \/ PayerWithdraws
  PROVE  ChannelInv'
<1>1. /\ chan.status # "None" /\ UNCHANGED <<config, request, sent, record, now, history>>
      /\ now' \in Nat
  BY ChannelNumbers DEF PayerRequestsClose, AnyoneFinalizes, PayerWithdraws
<1>2. /\ chan \in ChannelAccounts /\ chan.status \in {"Open", "Closing", "Finalized"}
      /\ chan.by \in {None, "payee", "grace"} /\ chan.grace \in Nat /\ chan.refunded \in BOOLEAN
  BY <1>1, ChannelNumbers DEF ChannelAccounts
<1>3. CASE PayerRequestsClose
  <2>1. chan' = [chan EXCEPT !.status = "Closing"]
    BY <1>3 DEF PayerRequestsClose, ProgramRequestsClose
  <2>2. chan' = [chan EXCEPT !.status = "Closing", !.by = chan.by, !.grace = chan.grace,
                   !.refunded = chan.refunded]
    BY <2>1, <1>2 DEF ChannelAccounts
  <2> QED BY <1>1, <1>2, <2>2, StatusUpdate
<1>4. CASE AnyoneFinalizes
  <2>1. chan' = [chan EXCEPT !.status = "Finalized", !.by = "grace"]
    BY <1>4 DEF AnyoneFinalizes, ProgramFinalizes
  <2>2. chan' = [chan EXCEPT !.status = "Finalized", !.by = "grace", !.grace = chan.grace,
                   !.refunded = chan.refunded]
    BY <2>1, <1>2 DEF ChannelAccounts
  <2> QED BY <1>1, <1>2, <2>2, StatusUpdate
<1>5. CASE PayerWithdraws
  <2>1. chan' = [chan EXCEPT !.refunded = TRUE]
    BY <1>5 DEF PayerWithdraws, ProgramWithdraws
  <2>2. chan' = [chan EXCEPT !.status = chan.status, !.by = chan.by, !.grace = chan.grace,
                   !.refunded = TRUE]
    BY <2>1, <1>2 DEF ChannelAccounts
  <2> QED BY <1>1, <1>2, <2>2, StatusUpdate
<1> QED BY <1>3, <1>4, <1>5

LEMMA TickKeeps ==
  ASSUME ChannelInv, Tick
  PROVE  ChannelInv'
<1>1. now' \in Nat /\ UNCHANGED <<config, request, sent, record, history>>
  BY DEF Tick, ChannelInv, ChannelTypes
<1>2. CASE chan.status = "Closing" /\ chan.grace > 0
  <2>1. /\ chan \in ChannelAccounts /\ chan.status \in {"Open", "Closing", "Finalized"}
        /\ chan.by \in {None, "payee", "grace"} /\ chan.grace - 1 \in Nat
        /\ chan.refunded \in BOOLEAN
    BY <1>2, ChannelNumbers DEF ChannelAccounts
  <2>2. chan' = [chan EXCEPT !.grace = @ - 1]
    BY <1>2 DEF Tick
  <2>3. chan' = [chan EXCEPT !.status = chan.status, !.by = chan.by, !.grace = chan.grace - 1,
                   !.refunded = chan.refunded]
    BY <2>1, <2>2 DEF ChannelAccounts
  <2> QED BY <1>1, <1>2, <2>1, <2>3, StatusUpdate
<1>3. CASE ~(chan.status = "Closing" /\ chan.grace > 0)
  <2>1. chan' = chan
    BY <1>3 DEF Tick
  <2>2. ChannelTypes'
    BY <1>1, <2>1 DEF ChannelInv, ChannelTypes, NoChannel, history
  <2> QED
    BY <1>1, <2>1, <2>2, NeitherChanges
<1> QED BY <1>2, <1>3

-----------------------------------------------------------------------------
(* Settlement. *)

\* settle takes the watermark of the record to the channel.
LEMMA HostSettlesKeeps ==
  ASSUME ChannelInv, HostSettles
  PROVE  ChannelInv'
<1>1. /\ record # None /\ chan.status \in {"Open", "Closing"}
      /\ record.cumulative > chan.settled
      /\ chan' = [chan EXCEPT !.settled = record.cumulative]
      /\ UNCHANGED <<config, request, sent, record, now, history>>
  BY DEF HostSettles, ProgramSettles, VoucherSettles, BuildSettleInstructions, SettleIx,
         VoucherArgs
<1>2. /\ chan' \in ChannelAccounts /\ chan'.deposit = chan.deposit
      /\ chan'.address = chan.address /\ chan'.authorized_signer = chan.authorized_signer
      /\ chan'.payee = chan.payee /\ chan'.mint = chan.mint /\ chan'.hash = chan.hash
      /\ chan'.settled = record.cumulative /\ chan'.paid_out = chan.paid_out
      /\ chan'.status = chan.status /\ chan'.by = chan.by
  BY <1>1, ChannelNumbers DEF ChannelAccounts
<1>3. chan'.deposit >= chan.deposit /\ chan'.paid_out <= chan'.settled
      /\ chan'.settled <= record.cumulative
  BY <1>1, <1>2, ChannelNumbers
<1> QED
  BY <1>1, <1>2, <1>3, ChannelNumbers, ChannelUpdate

\* The verify instruction, when there is one, comes before the other.
LEMMA TwoInstructions ==
  ASSUME NEW x, NEW y
  PROVE  <<y>> \o <<x>> = <<y, x>>
<1> DEFINE a == <<y>>
           b == <<x>>
<1>1. a \in Seq({x, y}) /\ b \in Seq({x, y})
  OBVIOUS
<1>2. Len(a) = 1 /\ Len(b) = 1 /\ a[1] = y /\ b[1] = x
  OBVIOUS
<1>3. /\ Len(a \o b) = Len(a) + Len(b)
      /\ \A i \in 1..(Len(a) + Len(b)) :
           (a \o b)[i] = IF i <= Len(a) THEN a[i] ELSE b[i - Len(a)]
  <2> HIDE DEF a, b
  <2> QED BY <1>1
<1>4. a \o b \in Seq({x, y})
  <2> HIDE DEF a, b
  <2> QED BY <1>1
<1>5. Len(a \o b) = 2 /\ (a \o b)[1] = y /\ (a \o b)[2] = x
  <2> HIDE DEF a, b
  <2> QED BY <1>2, <1>3
<1>6. <<y, x>> \in Seq({x, y}) /\ Len(<<y, x>>) = 2 /\ <<y, x>>[1] = y /\ <<y, x>>[2] = x
  OBVIOUS
<1>7. a \o b = <<y, x>>
  <2> DEFINE t == <<y, x>>
             u == a \o b
  <2>1. Len(u) = Len(t) /\ \A i \in 1..Len(u) : u[i] = t[i]
    <3>1. \A i \in 1..2 : i = 1 \/ i = 2
      OBVIOUS
    <3> HIDE DEF a, b, t, u
    <3>2. /\ Len(u) = 2 /\ u[1] = y /\ u[2] = x
          /\ Len(t) = 2 /\ t[1] = y /\ t[2] = x
      BY <1>5, <1>6 DEF t, u
    <3> QED BY <3>1, <3>2
  <2>2. u \in Seq({x, y}) /\ t \in Seq({x, y})
    BY <1>4, <1>6
  <2> HIDE DEF a, b, t, u
  <2>3. u = t
    BY <2>1, <2>2, SeqEqual
  <2> QED BY <2>3 DEF t, u
<1> QED BY <1>7

\* settle_and_finalize: with the stored voucher everything is settled; without one
\* nothing was accepted.
LEMMA HostFinalizesKeeps ==
  ASSUME ChannelInv, HostFinalizes
  PROVE  ChannelInv'
<1>1. /\ record # None /\ record.closing
      /\ UNCHANGED <<config, request, sent, record, now, history>>
  BY DEF HostFinalizes
<1>2. /\ chan.status \in {"Open", "Closing"}
      /\ chan' = [chan EXCEPT !.status = "Finalized", !.by = "payee",
                    !.settled = IF record.signature # None THEN record.cumulative ELSE @]
      /\ record.signature # None => record.cumulative > chan.settled
  <2> DEFINE finalize == SettleAndFinalizeIx(config.recipient, record.channel_id,
                           VoucherArgs(record.channel_id, record.cumulative, record.expires_at),
                           record.signature # None)
             verify == Ed25519Verify(record.authorized_signer, record.signature,
                         VoucherMessage(record.channel_id, record.cumulative,
                                        record.expires_at))
             ixs == BuildSettleAndFinalizeInstructions(config.recipient, record.channel_id,
                      record.authorized_signer, record.signature, record.cumulative,
                      record.expires_at)
  <2>1. ProgramSettlesAndFinalizes(ixs)
    BY DEF HostFinalizes, FinalizeParams
  <2>2. ixs[Len(ixs)] = finalize
    <3>1. CASE record.signature = None
      <4>1. ixs = << >> \o <<finalize>>
        BY <3>1 DEF BuildSettleAndFinalizeInstructions
      <4> HIDE DEF ixs, finalize
      <4>2. ixs = <<finalize>>
        BY <4>1
      <4> QED BY <4>2
    <3>2. CASE record.signature # None
      <4>1. ixs = <<verify>> \o <<finalize>>
        BY <3>2 DEF BuildSettleAndFinalizeInstructions
      <4>2. ixs = <<verify, finalize>>
        BY <4>1, TwoInstructions
      <4> HIDE DEF ixs, finalize, verify
      <4> QED BY <4>2
    <3> QED BY <3>1, <3>2
  <2>3. /\ finalize.args.has_voucher = (record.signature # None)
        /\ finalize.args.voucher.cumulative = record.cumulative
    BY DEF SettleAndFinalizeIx, VoucherArgs
  <2> HIDE DEF ixs, finalize
  <2> QED BY <2>1, <2>2, <2>3 DEF ProgramSettlesAndFinalizes, VoucherSettles
<1>3. opens = 1 /\ record.signature = None => record.cumulative = 0 /\ chan.settled = 0
  BY <1>1, <1>2, ChannelNumbers DEF ChannelInv, StoredVoucherSigned
<1>4. /\ chan' \in ChannelAccounts /\ chan'.deposit = chan.deposit
      /\ chan'.address = chan.address /\ chan'.authorized_signer = chan.authorized_signer
      /\ chan'.payee = chan.payee /\ chan'.mint = chan.mint /\ chan'.hash = chan.hash
      /\ chan'.settled = IF record.signature # None THEN record.cumulative ELSE chan.settled
      /\ chan'.paid_out = chan.paid_out
  BY <1>1, <1>2, ChannelNumbers DEF ChannelAccounts
<1>5. /\ chan'.deposit >= chan.deposit /\ chan'.paid_out <= chan'.settled
      /\ opens = 1 => chan'.settled = record.cumulative /\ chan'.settled <= record.cumulative
  BY <1>1, <1>2, <1>3, <1>4, ChannelNumbers
<1> QED
  BY <1>1, <1>2, <1>4, <1>5, ChannelNumbers, ChannelUpdate

LEMMA HostDistributesKeeps ==
  ASSUME ChannelInv, HostDistributes
  PROVE  ChannelInv'
<1>1. /\ chan.status \in {"Open", "Finalized"}
      /\ chan' = [chan EXCEPT !.paid_out = chan.settled]
      /\ UNCHANGED <<config, request, sent, record, now, history>>
  BY DEF HostDistributes, ProgramDistributes
<1>2. /\ chan' \in ChannelAccounts /\ chan'.deposit = chan.deposit
      /\ chan'.address = chan.address /\ chan'.authorized_signer = chan.authorized_signer
      /\ chan'.payee = chan.payee /\ chan'.mint = chan.mint /\ chan'.hash = chan.hash
      /\ chan'.settled = chan.settled /\ chan'.paid_out = chan.settled
      /\ chan'.status = chan.status /\ chan'.by = chan.by
  BY <1>1, ChannelNumbers DEF ChannelAccounts
<1>3. chan'.deposit >= chan.deposit /\ chan'.paid_out <= chan'.settled
  BY <1>1, <1>2, ChannelNumbers
<1> QED
  BY <1>1, <1>2, <1>3, ChannelNumbers, ChannelUpdate

-----------------------------------------------------------------------------

LEMMA ChannelNext == ChannelInv /\ [Next]_vars => ChannelInv'
<1> SUFFICES ASSUME ChannelInv, [Next]_vars PROVE ChannelInv'
  OBVIOUS
<1>1. CASE UNCHANGED vars
  <2>1. ChannelTypes'
    BY <1>1 DEF vars, history, ChannelInv, ChannelTypes, NoChannel
  <2> QED
    BY <1>1, <2>1, NeitherChanges DEF vars
<1>2. CASE Next
  BY <1>2, ChallengeKeeps, ClientOpensKeeps, AlterPayloadKeeps, BroadcastKeeps,
     ProcessOpenKeeps, AcceptKeeps, ProcessCloseKeeps, ProcessTopupKeeps,
     MarkFinalizedKeeps, ClientTopsUpKeeps, PayerStepKeeps, TickKeeps, HostSettlesKeeps,
     HostFinalizesKeeps, HostDistributesKeeps DEF Next
<1> QED BY <1>1, <1>2

\* The inductive invariant of a channel and its record, from the challenge to the
\* withdrawal, for any configuration, options, amounts and clock.
THEOREM ChannelInvariance == Spec => []ChannelInv
<1>1. Init => ChannelInv
  BY ChannelInit
<1>2. ChannelInv /\ [Next]_vars => ChannelInv'
  BY ChannelNext
<1> QED
  BY <1>1, <1>2, PTL DEF Spec

\* What process_open recorded, and process_topup raised, is what the chain holds for
\* a host that verified both on-chain, whatever the client put into its transaction
\* and its payload and however often an open is repeated.
THEOREM RecordTheorem == Spec => []RecordMatchesChannel
<1>1. ChannelInv => RecordMatchesChannel
  BY DEF ChannelInv
<1> QED
  BY <1>1, ChannelInvariance, PTL

\* Until it expires, is settled or the channel is finalized, the voucher such a host
\* stored satisfies every rule of the program (build_settle_instructions), or it is
\* one of two: past the deposit, or of another channel and brought by a close.
THEOREM SettlesTheorem == Spec => []AcceptedVoucherSettles
<1>1. ChannelInv => AcceptedVoucherSettles
  <2> SUFFICES ASSUME ChannelInv, record # None, verified, record.signature # None,
                      record.expires_at > now, chan.status \in {"Open", "Closing"},
                      chan.settled < record.cumulative,
                      ~(record.cumulative > record.deposit),
                      ~(record.closing /\ record.signature.message[1] # record.channel_id)
               PROVE  LET ixs == BuildSettleInstructions(record.channel_id,
                                   record.authorized_signer, record.signature,
                                   record.cumulative, record.expires_at)
                      IN VoucherSettles(ixs[1], ixs[2].args)
    BY DEF AcceptedVoucherSettles
  <2>1. record.cumulative <= chan.deposit /\ record.cumulative > chan.settled
    BY ChannelNumbers DEF ChannelInv, RecordMatchesChannel, ChannelStates
  <2>2. /\ record.channel_id = chan.address
        /\ record.authorized_signer = chan.authorized_signer
    BY DEF ChannelInv, RecordMatchesChannel
  <2>3. /\ record.signature.signer = record.authorized_signer
        /\ record.signature.message = VoucherMessage(record.channel_id, record.cumulative,
                                                     record.expires_at)
    BY DEF ChannelInv, StoredVoucherSigned
  <2>4. record.signature = [signer |-> record.authorized_signer,
                            message |-> VoucherMessage(record.channel_id, record.cumulative,
                                                       record.expires_at)]
    <3>1. record \in ChannelStates /\ record.signature \in VoucherSignatures
      BY DEF ChannelInv, ChannelTypes, ChannelStates
    <3> QED BY <2>3, <3>1 DEF VoucherSignatures
  <2> QED
    BY <2>1, <2>2, <2>4 DEF BuildSettleInstructions, VoucherSettles, Ed25519Verify, SettleIx,
                            VoucherArgs
<1> QED
  BY <1>1, ChannelInvariance, PTL

\* A channel the server finalized paid for all it accepted; one finalized over its
\* head, after the grace period, never paid more; whether or not the host verified
\* anything, as long as the channel was opened once at the server.
THEOREM FinalizedTheorem == Spec => []FinalizedPaysAccepted
<1>1. ChannelInv => FinalizedPaysAccepted
  BY DEF ChannelInv, FinalizedPaysAccepted, SettledWithinRecord, FinalizedByPayee
<1> QED
  BY <1>1, ChannelInvariance, PTL

-----------------------------------------------------------------------------
(* Delegated tokens. *)

Actions ==
  {"none", "SubmitInit", "SubmitUpdate", "MissingPayload", "AlreadySufficient",
   "opened", "refused"}

\* A delegation the server found sufficient stays so until the session opens:
\* delegations are never removed and their caps never lowered.
SufficientIsCovered ==
  \A s \in Setups :
    setup[s].action \in {"AlreadySufficient", "opened"} =>
      /\ delegate /\ NonceOf[s] \in DOMAIN delegations
      /\ delegations[NonceOf[s]] >= CapOf[s]

DelegateInv ==
  /\ delegate \in BOOLEAN
  /\ delegations \in [DOMAIN delegations -> Nat]
  /\ setup \in [Setups -> [action : Actions, retries : Nat]]
  /\ SufficientIsCovered

\* A step that takes one session to another action and, if it is then covered,
\* leaves the others covered too.
LEMMA SetupStep ==
  ASSUME DelegateInv, NEW s \in Setups, NEW a \in Actions, NEW r \in Nat,
         setup' = [setup EXCEPT ![s] = [action |-> a, retries |-> r]],
         delegate' \in BOOLEAN, delegations' \in [DOMAIN delegations' -> Nat],
         delegate => delegate',
         \A n \in DOMAIN delegations :
           n \in DOMAIN delegations' /\ delegations'[n] >= delegations[n],
         a \in {"AlreadySufficient", "opened"} =>
           /\ delegate' /\ NonceOf[s] \in DOMAIN delegations'
           /\ delegations'[NonceOf[s]] >= CapOf[s]
  PROVE  DelegateInv'
<1>1. setup' \in [Setups -> [action : Actions, retries : Nat]]
  BY DEF DelegateInv
<1>2. SufficientIsCovered'
  <2> SUFFICES ASSUME NEW t \in Setups, setup'[t].action \in {"AlreadySufficient", "opened"}
               PROVE  /\ delegate' /\ NonceOf[t] \in DOMAIN delegations'
                      /\ delegations'[NonceOf[t]] >= CapOf[t]
    BY DEF SufficientIsCovered
  <2>1. CASE t = s
    BY <2>1 DEF DelegateInv
  <2>2. CASE t # s
    <3>1. /\ delegate /\ NonceOf[t] \in DOMAIN delegations
          /\ delegations[NonceOf[t]] >= CapOf[t]
      BY <2>2 DEF DelegateInv, SufficientIsCovered
    <3>2. /\ CapOf[t] \in Nat /\ delegations[NonceOf[t]] \in Nat
          /\ delegations'[NonceOf[t]] \in Nat
      BY <3>1, DelegateAssumption DEF DelegateInv
    <3> QED
      BY <3>1, <3>2
  <2> QED BY <2>1, <2>2
<1> QED
  BY <1>1, <1>2 DEF DelegateInv

\* CreateFixedDelegation over a missing or a smaller delegation.
LEMMA DelegationCreated ==
  ASSUME DelegateInv, NEW s \in Setups, CreateFixedDelegation(NonceOf[s], CapOf[s]),
         NonceOf[s] \in DOMAIN delegations => CapOf[s] >= delegations[NonceOf[s]]
  PROVE  /\ delegations' \in [DOMAIN delegations' -> Nat]
         /\ \A n \in DOMAIN delegations :
              n \in DOMAIN delegations' /\ delegations'[n] >= delegations[n]
         /\ NonceOf[s] \in DOMAIN delegations'
         /\ delegations'[NonceOf[s]] >= CapOf[s]
<1>1. CapOf[s] \in Nat /\ \A n \in DOMAIN delegations : delegations[n] \in Nat
  BY DelegateAssumption DEF DelegateInv
<1>2. /\ DOMAIN delegations' = DOMAIN delegations \cup {NonceOf[s]}
      /\ \A n \in DOMAIN delegations' :
           delegations'[n] = IF n = NonceOf[s] THEN CapOf[s] ELSE delegations[n]
      /\ delegations' = [n \in DOMAIN delegations' |-> delegations'[n]]
  BY DEF CreateFixedDelegation
<1>3. \A n \in DOMAIN delegations' : delegations'[n] \in Nat
  BY <1>1, <1>2
<1> QED
  BY <1>1, <1>2, <1>3

LEMMA DelegateNextKeeps == DelegateInv /\ [DelegateNext]_delegateVars => DelegateInv'
<1> SUFFICES ASSUME DelegateInv, [DelegateNext]_delegateVars PROVE DelegateInv'
  OBVIOUS
<1>1. CASE UNCHANGED delegateVars
  BY <1>1 DEF delegateVars, DelegateInv, SufficientIsCovered
<1>2. ASSUME NEW s \in Setups,
             Assess(s) \/ SubmitInit(s) \/ SubmitUpdate(s) \/ OpenAtOnce(s) \/ Retry(s)
      PROVE  DelegateInv'
  <2>1. /\ setup[s] \in [action : Actions, retries : Nat] /\ setup[s].retries \in Nat
        /\ setup[s] = [action |-> setup[s].action, retries |-> setup[s].retries]
        /\ \A a : [setup EXCEPT ![s].action = a]
                    = [setup EXCEPT ![s] = [action |-> a, retries |-> setup[s].retries]]
    BY DEF DelegateInv
  <2>2. /\ delegate \in BOOLEAN /\ delegations \in [DOMAIN delegations -> Nat]
        /\ \A n \in DOMAIN delegations : delegations[n] \in Nat
        /\ CapOf[s] \in Nat
    BY DelegateAssumption DEF DelegateInv
  <2>a. UNCHANGED <<delegate, delegations>> =>
          /\ delegate' \in BOOLEAN /\ delegations' \in [DOMAIN delegations' -> Nat]
          /\ delegate => delegate'
          /\ \A n \in DOMAIN delegations :
               n \in DOMAIN delegations' /\ delegations'[n] >= delegations[n]
    BY <2>2
  <2>b. {"none", "opened", "refused"} \subseteq Actions
    BY DEF Actions
  <2>3. CASE Assess(s)
    <3> DEFINE state == [exists |-> delegate, cap |-> CapAt(NonceOf[s])]
               a == AssessMultiDelegateSetup(state, CapOf[s], s \in HasInit, s \in HasUpdate)
    <3>1. /\ setup' = [setup EXCEPT ![s] = [action |-> a, retries |-> setup[s].retries]]
          /\ UNCHANGED <<delegate, delegations>>
      BY <2>1, <2>3 DEF Assess
    <3>2. a \in Actions
      BY DEF AssessMultiDelegateSetup, Actions
    <3>3. a \in {"AlreadySufficient", "opened"} =>
            delegate /\ NonceOf[s] \in DOMAIN delegations /\ delegations[NonceOf[s]] >= CapOf[s]
      BY DEF AssessMultiDelegateSetup, CapAt
    <3> HIDE DEF a
    <3> QED BY <2>1, <2>a, <3>1, <3>2, <3>3, SetupStep
  <2>4. CASE SubmitInit(s) /\ InitLands(NonceOf[s])
    <3>1. /\ setup' = [setup EXCEPT ![s] = [action |-> "opened", retries |-> setup[s].retries]]
          /\ delegate' = TRUE /\ CreateFixedDelegation(NonceOf[s], CapOf[s])
          /\ NonceOf[s] \notin DOMAIN delegations
      BY <2>1, <2>4 DEF SubmitInit, InitLands, InitMultiDelegate
    <3> QED BY <2>1, <2>2, <3>1, SetupStep, DelegationCreated DEF Actions
  <2>5. CASE SubmitUpdate(s) /\ UNCHANGED delegate /\ UpdateLands(NonceOf[s], CapOf[s])
             /\ CreateFixedDelegation(NonceOf[s], CapOf[s])
             /\ setup' = [setup EXCEPT ![s].action = "opened"]
    <3>1. /\ setup' = [setup EXCEPT ![s] = [action |-> "opened", retries |-> setup[s].retries]]
          /\ delegate /\ (NonceOf[s] \in DOMAIN delegations => CapOf[s] >= delegations[NonceOf[s]])
      BY <2>1, <2>5 DEF UpdateLands
    <3> QED BY <2>1, <2>2, <2>5, <3>1, SetupStep, DelegationCreated DEF Actions
  <2>6. CASE UNCHANGED <<delegate, delegations>> /\ setup' = [setup EXCEPT ![s].action = "refused"]
    <3>1. setup' = [setup EXCEPT ![s] = [action |-> "refused", retries |-> setup[s].retries]]
      BY <2>1, <2>6
    <3>2. UNCHANGED <<delegate, delegations>>
      BY <2>6
    <3> QED BY <2>1, <2>a, <2>b, <3>1, <3>2, SetupStep
  <2>7. CASE OpenAtOnce(s) /\ setup[s].action = "AlreadySufficient"
    <3>1. /\ setup' = [setup EXCEPT ![s] = [action |-> "opened", retries |-> setup[s].retries]]
          /\ UNCHANGED <<delegate, delegations>>
      BY <2>1, <2>7 DEF OpenAtOnce, DelegateInv
    <3>2. delegate /\ NonceOf[s] \in DOMAIN delegations /\ delegations[NonceOf[s]] >= CapOf[s]
      BY <2>7 DEF DelegateInv, SufficientIsCovered
    <3> QED BY <2>1, <2>a, <2>b, <3>1, <3>2, SetupStep
  <2>8. CASE OpenAtOnce(s) /\ setup[s].action # "AlreadySufficient"
    BY <2>1, <2>6, <2>8 DEF OpenAtOnce, DelegateInv
  <2>9. CASE Retry(s)
    <3>1. /\ setup' = [setup EXCEPT ![s] = [action |-> "none", retries |-> 1]]
          /\ UNCHANGED <<delegate, delegations>>
      BY <2>9 DEF Retry
    <3> QED BY <2>a, <2>b, <3>1, SetupStep
  <2>10. CASE SubmitInit(s) /\ ~InitLands(NonceOf[s])
    BY <2>6, <2>10 DEF SubmitInit
  <2>11. CASE SubmitUpdate(s)
    BY <2>5, <2>6, <2>11 DEF SubmitUpdate
  <2> QED BY <1>2, <2>3, <2>4, <2>7, <2>8, <2>9, <2>10, <2>11
<1> QED BY <1>1, <1>2 DEF DelegateNext

\* A delegated session opens only over a delegation that covers it, whatever the
\* other sessions of the client did between the reading and the submission
\* (assess_multi_delegate_setup), for any sessions, caps and nonces.
THEOREM CoveredTheorem == DelegateSpec => []OpenedIsCovered
<1>1. DelegateInit => DelegateInv
  BY DEF DelegateInit, DelegateInv, SufficientIsCovered, Actions
<1>2. DelegateInv /\ [DelegateNext]_delegateVars => DelegateInv'
  BY DelegateNextKeeps
<1>3. DelegateInv => OpenedIsCovered
  BY DelegateAssumption DEF DelegateInv, SufficientIsCovered, OpenedIsCovered, CapAt
<1> QED
  BY <1>1, <1>2, <1>3, PTL DEF DelegateSpec

=============================================================================
