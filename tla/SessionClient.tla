---------------------------- MODULE SessionClient ----------------------------
(***************************************************************************)
(* The session client of the Rust SDK, ActiveSession and SessionConsumer   *)
(* (rust/src/client/session.rs, session_consumer.rs), composed with the    *)
(* session server of SessionServer over a transport that loses, delays and *)
(* repeats requests and loses replies.                                     *)
(*                                                                         *)
(* `wire` keeps every request the client ever sent: a request that is      *)
(* never handled was lost, one handled twice was duplicated, one handled   *)
(* after a later one was reordered.  The consumer takes &mut self, so one  *)
(* commit is in flight at a time; its caller sees a receipt or an error,   *)
(* and an error says nothing about what the server did.                    *)
(***************************************************************************)
EXTENDS SessionServer

CONSTANTS
  ClientKey,       \* the session key behind ActiveSession.signer
  Openings,        \* the open payloads the application may send
  Increments,      \* amounts the application signs directly
  Expiries,        \* values of ActiveSession.expires_at
  MaxRequests      \* bound: how many different requests the client sends

ASSUME ClientAssumption ==
  /\ ClientKey \in Signers
  /\ None \notin ChannelIds
  /\ Increments \subseteq Nat
  /\ Expiries \subseteq Nat /\ Expiries # {}
  /\ MaxRequests \in Nat
  /\ \A amount \in DeliveryAmounts : amount < U64
  /\ None \notin SignedVoucher
  /\ None \notin [delivery_id : Nat, voucher : SignedVoucher, answered : BOOLEAN]

VARIABLES
  session,    \* ActiveSession: cumulative and expires_at
  inbox,      \* MeteringDirectives of the deliveries accepted
  call,       \* the commit in flight, or None
  wire,       \* every request sent
  acked,      \* delivery ids whose ack returned a receipt
  doubt,      \* delivery ids whose last commit returned an error
  strayed,    \* the application went on while an outcome was in doubt
  increments  \* sum of the amounts signed directly

otherClientVars == <<session, inbox, wire, acked, doubt, strayed, increments>>
clientVars == <<call, otherClientVars>>
sessionVars == <<vars, clientVars>>

-----------------------------------------------------------------------------
(* ActiveSession.  The nonce is left out: no signature covers it and no    *)
(* server reads it.                                                        *)

\* prepare_voucher signs the given cumulative; the watermark stays.
PrepareVoucher(cumulative) ==
  [channel_id |-> ChannelId,
   cumulative |-> cumulative,
   expires_at |-> session.expires_at,
   signature |-> [signer |-> ClientKey, channel_id |-> ChannelId,
                  cumulative |-> cumulative, expires_at |-> session.expires_at]]

\* prepare_increment: u64 addition, which wraps in a release build.
PrepareIncrement(amount) == PrepareVoucher(AddU64(session.cumulative, amount))

\* Both prepare_voucher and record_voucher insist on a higher cumulative.
\* Vouchers is the bound on what the instance signs.
Exceeds(voucher) ==
  voucher.cumulative > session.cumulative /\ voucher \in Vouchers

RecordVoucher(voucher) ==
  session' = [session EXCEPT !.cumulative = voucher.cumulative]

\* Mutant: the consumer signs with sign_increment, as for a direct voucher.
PrepareRecords(voucher) == RecordVoucher(voucher)

\* Preparing leaves the watermark where it is.
PrepareKeeps(voucher) == UNCHANGED session

MaySend(request) == Cardinality(wire \cup {request}) <= MaxRequests

Send(request) == MaySend(request) /\ wire' = wire \cup {request}

-----------------------------------------------------------------------------
(* Opening: the payload's optional fields and how the server resolves them. *)

OpenPayload(mode, channel_id, deposit, token_account, approved_amount) ==
  [action |-> "open", mode |-> mode, channel_id |-> channel_id, deposit |-> deposit,
   token_account |-> token_account, approved_amount |-> approved_amount,
   authorized_signer |-> ClientKey]

\* open_action, open_payment_channel_action_with_mode and open_pull_action.
OpenPayloads(deposit) ==
  {OpenPayload(mode, ChannelId, deposit, None, None) : mode \in {"push", "pull"}}
    \cup {OpenPayload("pull", None, None, ChannelId, deposit)}

SessionIdOf(payload) ==
  IF payload.channel_id # None THEN payload.channel_id
  ELSE IF payload.mode = "push" THEN None ELSE payload.token_account

DepositAmount(payload) ==
  IF payload.deposit # None THEN payload.deposit
  ELSE IF payload.mode = "push" THEN None ELSE payload.approved_amount

ASSUME OpeningsAssumption == Openings \subseteq UNION {OpenPayloads(d) : d \in Deposits}

Opened == \E m \in wire : m.action = "open"

OpenAction(payload) ==
  /\ ~Opened
  /\ Send(payload)
  /\ UNCHANGED <<vars, session, inbox, call, acked, doubt, strayed, increments>>

-----------------------------------------------------------------------------
(* Direct vouchers, top-up and close: the watermark moves when the voucher *)
(* is signed, before anything is known of the server.                      *)

\* sign_increment = prepare and record; the request that carries it follows.
SignIncrement(amount, voucher) ==
  /\ Exceeds(voucher)
  /\ RecordVoucher(voucher)
  /\ increments' = increments + amount
  /\ strayed' = (strayed \/ doubt # {})

VoucherAction(amount) ==
  /\ Opened /\ call = None
  /\ LET voucher == PrepareIncrement(amount) IN
       /\ SignIncrement(amount, voucher)
       /\ Send([action |-> "voucher", voucher |-> voucher])
  /\ UNCHANGED <<vars, inbox, call, acked, doubt>>

CloseAction(final_increment) ==
  /\ Opened /\ call = None
  /\ \/ /\ final_increment = 0
        /\ Send([action |-> "close", voucher |-> None])
        /\ UNCHANGED <<session, strayed, increments>>
     \/ /\ final_increment > 0
        /\ LET voucher == PrepareIncrement(final_increment) IN
             /\ SignIncrement(final_increment, voucher)
             /\ Send([action |-> "close", voucher |-> voucher])
  /\ UNCHANGED <<vars, inbox, call, acked, doubt>>

TopupAction(new_deposit) ==
  /\ Opened
  /\ Send([action |-> "topup", new_deposit |-> new_deposit])
  /\ UNCHANGED <<vars, session, inbox, call, acked, doubt, strayed, increments>>

SetExpiresAt(expires_at) ==
  /\ call = None
  /\ session' = [session EXCEPT !.expires_at = expires_at]
  /\ strayed' = (strayed \/ doubt # {})
  /\ UNCHANGED <<vars, inbox, call, wire, acked, doubt, increments>>

-----------------------------------------------------------------------------
(* SessionConsumer.                                                        *)

Directive(p, session_id) ==
  [delivery_id |-> p.delivery_id, session_id |-> session_id,
   amount |-> p.amount, expires_at |-> p.expires_at]

\* Mutant: any directive will do.
ValidateAny(directive) == TRUE

ValidateDirective(directive) == directive.session_id = ChannelId

\* accept: a response arrives with its directive, of this or of another session.
\* A delivery id is accepted once: after a repeated open the server gives the same
\* ids again, and those deliveries are left out where the id was accepted before.
Accept(p, session_id) ==
  /\ \A d \in inbox : d.delivery_id # p.delivery_id
  /\ ValidateDirective(Directive(p, session_id))
  /\ inbox' = inbox \cup {Directive(p, session_id)}
  /\ UNCHANGED <<vars, session, call, wire, acked, doubt, strayed, increments>>

\* commit_directive up to the await of the transport: prepare and send.  ack
\* consumes its delivery, so an acknowledged one is not committed again.
CommitDirective(directive) ==
  /\ call = None
  /\ directive \in inbox
  /\ directive.delivery_id \notin acked
  /\ ValidateDirective(directive)
  /\ directive.amount # 0
  /\ LET voucher == PrepareIncrement(directive.amount) IN
       /\ Exceeds(voucher)
       /\ PrepareKeeps(voucher)
       /\ call' = [delivery_id |-> directive.delivery_id, voucher |-> voucher,
                   answered |-> FALSE]
       /\ Send([action |-> "commit", delivery_id |-> directive.delivery_id,
                voucher |-> voucher])
  /\ strayed' = (strayed \/ doubt \ {directive.delivery_id} # {})
  /\ UNCHANGED <<vars, inbox, acked, doubt, increments>>

\* The receipt arrives: record the voucher.
CommitReply ==
  /\ call # None
  /\ call.answered
  /\ call.voucher.cumulative > session.cumulative
  /\ RecordVoucher(call.voucher)
  /\ acked' = acked \cup {call.delivery_id}
  /\ doubt' = doubt \ {call.delivery_id}
  /\ call' = None
  /\ UNCHANGED <<vars, inbox, wire, strayed, increments>>

\* Mutant: the voucher is recorded although the commit returned an error.
CommitFailsRecording ==
  /\ call # None
  /\ RecordVoucher(call.voucher)
  /\ doubt' = doubt \cup {call.delivery_id}
  /\ call' = None
  /\ UNCHANGED <<vars, inbox, wire, acked, strayed, increments>>

\* A refusal, a transport error or a timeout: `?` leaves before recording.
CommitFails ==
  /\ call # None
  /\ doubt' = doubt \cup {call.delivery_id}
  /\ call' = None
  /\ UNCHANGED <<vars, session, inbox, wire, acked, strayed, increments>>

-----------------------------------------------------------------------------
(* The server handles a request that is on the wire, or goes on with one.  *)

\* The open stays on the wire as every request does: handled again, it overwrites
\* the channel, and the server starts from zero under a client that does not.
HandleOpen(m, status) ==
  /\ m.action = "open"
  /\ SessionIdOf(m) = ChannelId
  /\ ProcessOpen(m.mode, m.authorized_signer, DepositAmount(m), status)
  /\ UNCHANGED clientVars

\* A receipt for this request is on its way to the call that waits for it.
Answer(id, voucher) ==
  call' = IF call # None /\ call.delivery_id = id /\ call.voucher = voucher
          THEN [call EXCEPT !.answered = TRUE] ELSE call

HandleCommit(m) ==
  /\ m.action = "commit"
  /\ \/ /\ ProcessCommitReplay(m.voucher, m.delivery_id)
        /\ Answer(m.delivery_id, m.voucher)
     \/ /\ \E w \in Workers : ProcessCommitCheck(w, m.voucher, m.delivery_id)
        /\ UNCHANGED call
  /\ UNCHANGED otherClientVars

ContinueCommit(w) ==
  /\ ProcessCommitApply(w)
  /\ IF CommitApplies(task[w]) \/ CommitReplays(task[w])
     THEN Answer(task[w].delivery_id, task[w].voucher)
     ELSE UNCHANGED call
  /\ UNCHANGED otherClientVars

HandleVoucher(m) ==
  /\ m.action = "voucher"
  /\ \/ VerifyVoucherReplay(m.voucher)
     \/ \E w \in Workers : VerifyVoucherCheck(w, m.voucher)

HandleClose(m) == m.action = "close" /\ \E w \in Workers : ProcessClose(w, m.voucher)

HandleTopup(m) == m.action = "topup" /\ ProcessTopup(m.new_deposit)

ServerStep ==
  \/ \E m \in wire, status \in OpenTxStatus : HandleOpen(m, status)
  \/ \E m \in wire : HandleCommit(m)
  \/ \E w \in Workers : ContinueCommit(w)
  \/ /\ \/ \E m \in wire : HandleVoucher(m) \/ HandleClose(m) \/ HandleTopup(m)
        \/ \E w \in Workers : VerifyVoucherApply(w) \/ ProcessCloseReply(w)
        \/ \E amount \in DeliveryAmounts, expires_at \in DeliveryExpiries :
             BeginDelivery(amount, None, expires_at)
        \/ Tick
     /\ UNCHANGED clientVars

ClientStep ==
  \/ \E payload \in Openings : OpenAction(payload)
  \/ \E amount \in Increments : VoucherAction(amount)
  \/ \E amount \in Increments \cup {0} : CloseAction(amount)
  \/ \E deposit \in Deposits : TopupAction(deposit)
  \/ \E e \in Expiries : SetExpiresAt(e)
  \/ \E p \in ch.pending_deliveries, id \in {ChannelId, OtherChannel} : Accept(p, id)
  \/ \E directive \in inbox : CommitDirective(directive)
  \/ CommitReply
  \/ CommitFails

SessionInit ==
  /\ Init
  /\ session \in {[cumulative |-> 0, expires_at |-> e] : e \in Expiries}
  /\ inbox = {}
  /\ call = None
  /\ wire = {}
  /\ acked = {}
  /\ doubt = {}
  /\ strayed = FALSE
  /\ increments = 0

SessionNext == ServerStep \/ ClientStep

SessionSpec == SessionInit /\ [][SessionNext]_sessionVars

\* The transport is not hopeless: of a commit that is sent again and again, some
\* copy reaches the server before its call gives up, and some receipt gets back.
\* Handlers run on, and the application retries a delivery whose outcome is in
\* doubt before it starts another.
Retry(directive) == doubt \subseteq {directive.delivery_id} /\ CommitDirective(directive)

SessionFairness ==
  /\ \A id \in 1..MaxSequence :
       SF_sessionVars(\E m \in wire : HandleCommit(m) /\ m.delivery_id = id)
  /\ \A w \in Workers :
       /\ WF_sessionVars(ContinueCommit(w))
       /\ WF_sessionVars((VerifyVoucherApply(w) \/ ProcessCloseReply(w))
                          /\ UNCHANGED clientVars)
  /\ WF_sessionVars(\E directive \in inbox : Retry(directive))
  /\ SF_sessionVars(CommitReply)

LiveSessionSpec == SessionSpec /\ SessionFairness

-----------------------------------------------------------------------------
(* Properties. *)

\* "the client can retry the same cumulative amount without its local state
\* drifting ahead of the server" (prepare_voucher): as long as the open is handled
\* once, and whatever else is lost, repeated or late, the client's watermark is one
\* the server has stored, unless the last voucher was signed directly and not
\* through a commit.  (process_open handled again sets the server's watermark back
\* to 0, and the client is ahead of it.)
NotAheadOfServer ==
  opens <= 1 =>
    \/ session.cumulative <= ch.cumulative
    \/ \E m \in wire : /\ m.action \in {"voucher", "close"}
                       /\ m.voucher # None
                       /\ m.voucher.cumulative = session.cumulative

\* Of each delivery of this session that the client tried to pay, its amount.
Attempted ==
  {d \in inbox : /\ d.session_id = ChannelId
                 /\ \E m \in wire : m.action = "commit" /\ m.delivery_id = d.delivery_id}

\* Retries never add up: no voucher the client signs authorizes more than the
\* deliveries of this session it tried to pay, each counted once, and the
\* increments it signed directly, also when the open is repeated under it.
NeverOverauthorized ==
  \A m \in wire :
    m.action \in {"voucher", "close", "commit"} /\ m.voucher # None =>
      m.voucher.cumulative <= TotalAmount(Attempted) + increments

\* A lost receipt can be fetched again: while the application resolves one
\* delivery before it goes on, and the open is handled once, a delivery the server
\* has committed and the client has not seen acknowledged is replayed by the
\* voucher a retry would sign now.
RetryReplays ==
  opens <= 1 /\ ~strayed => \A c \in ch.committed_deliveries, d \in inbox :
    d.delivery_id = c.delivery_id /\ d.delivery_id \notin acked
      => SettledBy(c, PrepareIncrement(d.amount))

\* Nothing served is forgotten: without direct vouchers, and while the application
\* resolves one delivery before the next, what the host reserved since the last open
\* is either paid or still reserved, also when the reservation has expired, and also
\* when a close came before the commit; and it is paid in full as long as the open
\* is handled once.
ServedIsPaidOrReserved ==
  ~strayed /\ increments = 0 =>
    /\ opens <= 1 => \A c \in ch.committed_deliveries, d \in inbox :
         d.delivery_id = c.delivery_id => c.amount = d.amount
    /\ ch.cumulative = TotalAmount(ch.committed_deliveries)
    /\ Cardinality(ch.pending_deliveries) + Cardinality(ch.committed_deliveries)
         = ch.next_delivery_sequence

\* Can this delivery still be paid for by the application's retries?
Payable(d) ==
  /\ opens = 1
  /\ ~strayed /\ increments = 0
  /\ Accepting
  /\ now < d.expires_at /\ now < session.expires_at
  /\ LET voucher == PrepareIncrement(d.amount) IN
       /\ voucher \in Vouchers
       /\ MaySend([action |-> "commit", delivery_id |-> d.delivery_id, voucher |-> voucher])

\* A delivery whose commit or receipt was lost is acknowledged in the end, as long
\* as it does not expire, the session is neither closed nor opened again and the
\* application retries.
DeliveriesSettle ==
  \A id \in 1..MaxSequence :
    (\E d \in inbox : d.delivery_id = id /\ d.session_id = ChannelId)
      ~> \/ id \in acked
         \/ \E d \in inbox : d.delivery_id = id /\ ~Payable(d)

=============================================================================
