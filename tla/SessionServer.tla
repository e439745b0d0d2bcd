---------------------------- MODULE SessionServer ----------------------------
(***************************************************************************)
(* The session side of the Rust SDK (rust/src/server/session.rs) over its  *)
(* channel store (rust/src/store.rs), for one channel: the store keeps one *)
(* ChannelState per session id and every handler touches exactly one.      *)
(* Vouchers may be bound to another channel: those of vouchers and commits *)
(* lead the handler to that channel, the one of a close does not.          *)
(*                                                                         *)
(* A handler that reads a snapshot with get_channel and later writes with  *)
(* update_channel is two actions, run by one of the concurrent Workers:    *)
(* anything may happen to the channel between the two.  update_channel     *)
(* runs its closure under the store's mutex, so a closure is one step.     *)
(* A rejected request changes nothing and is not an action, except where   *)
(* it ends a request already in flight.                                    *)
(***************************************************************************)
EXTENDS Integers, FiniteSetsExt

CONSTANTS
  Workers,          \* concurrent request tasks of the host's runtime
  Signers,          \* session keys
  ChannelId,        \* the id the channel is stored under
  OtherChannel,     \* the id of any other channel
  Vouchers,         \* the signed vouchers clients may present
  Deposits,         \* deposits that open and topup payloads may name
  DeliveryAmounts,  \* amounts the host asks begin_delivery to reserve
  DeliveryExpiries, \* expiries the host gives a delivery
  DeliveryIds,      \* idempotency keys the host chooses itself
  Modes,            \* SessionConfig.modes
  RpcConfigured,    \* is SessionConfig.rpc_url set
  MaxCap,           \* SessionConfig.max_cap
  MinVoucherDelta,  \* SessionConfig.min_voucher_delta
  U64,              \* number of values of a u64 (2^64 in the code)
  MaxTime,          \* bound: last value of the clock
  MaxOpens,         \* bound: how often the channel id is opened
  MaxSequence,      \* bound: how many deliveries are reserved per open
  None              \* Option::None

ChannelIds == {ChannelId, OtherChannel}

\* An Ed25519 signature stands for the key that made it and the bytes it covers
\* (VoucherData::message_bytes).
Signature ==
  [signer : Signers, channel_id : ChannelIds, cumulative : Nat, expires_at : Nat]

\* SignedVoucher: the data and a signature that may or may not match it.
SignedVoucher ==
  [channel_id : ChannelIds, cumulative : Nat, expires_at : Nat,
   signature : Signature]

ASSUME ConstantsAssumption ==
  /\ ChannelId # OtherChannel
  /\ Vouchers \subseteq SignedVoucher
  /\ Deposits \subseteq Nat
  /\ DeliveryAmounts \subseteq Nat
  /\ DeliveryExpiries \subseteq Nat
  /\ DeliveryIds \subseteq Nat
  /\ RpcConfigured \in BOOLEAN
  /\ MaxCap \in Nat
  /\ MinVoucherDelta \in Nat
  /\ U64 \in Nat \ {0}
  /\ MaxTime \in Nat
  /\ MaxOpens \in Nat
  /\ MaxSequence \in Nat
  /\ None \notin Signature
  /\ None \notin Nat

VARIABLES
  opens,     \* how often process_open stored the channel; 0: not in the store
  ch,        \* the stored ChannelState (meaningless while opens = 0)
  task,      \* the request each worker has in flight
  now,       \* the clock
  acks,      \* cumulatives verify_voucher answered Ok, since the last open
  receipts,  \* CommitReceipts returned since the last open
  finals     \* FinalizeParams process_close returned since the last open

vars == <<opens, ch, task, now, acks, receipts, finals>>

-----------------------------------------------------------------------------
(* The stored state. *)

PendingDelivery ==
  [delivery_id : Nat, amount : Nat, sequence : Nat, expires_at : Nat]

CommittedDelivery ==
  [delivery_id : Nat, amount : Nat, cumulative : Nat,
   voucher_signature : Signature]

ChannelState ==
  [authorized_signer : Signers \cup {None},
   deposit : Nat,
   cumulative : Nat,
   finalized : BOOLEAN,
   highest_voucher_signature : Signature \cup {None},
   highest_voucher_expires_at : Nat \cup {None},
   close_requested : BOOLEAN,
   next_delivery_sequence : Nat,
   pending_deliveries : SUBSET PendingDelivery,
   committed_deliveries : SUBSET CommittedDelivery]

\* The state process_open builds: nothing paid, nothing reserved, not closed.
FreshState(signer, deposit) ==
  [authorized_signer |-> signer,
   deposit |-> deposit,
   cumulative |-> 0,
   finalized |-> FALSE,
   highest_voucher_signature |-> None,
   highest_voucher_expires_at |-> None,
   close_requested |-> FALSE,
   next_delivery_sequence |-> 0,
   pending_deliveries |-> {},
   committed_deliveries |-> {}]

Idle == [op |-> "idle"]

Task ==
  [op : {"idle", "close"}]
    \cup [op : {"voucher"}, voucher : Vouchers]
    \cup [op : {"commit"}, voucher : Vouchers, delivery_id : Nat, now : Nat]

Receipt == [delivery_id : Nat, amount : Nat, cumulative : Nat]

FinalizeParams ==
  [settled : Nat, voucher_signature : Signature \cup {None},
   voucher_expires_at : Nat \cup {None}]

TypeOK ==
  /\ opens \in 0..MaxOpens
  /\ ch \in ChannelState
  /\ task \in [Workers -> Task]
  /\ now \in 0..MaxTime
  /\ acks \subseteq Nat
  /\ receipts \subseteq Receipt
  /\ finals \subseteq FinalizeParams

-----------------------------------------------------------------------------
(* Helpers. *)

Present == opens > 0

\* Neither finalized nor close-pending: what the closures re-check.
Accepting == ~ch.finalized /\ ~ch.close_requested

\* verify_signature: not expired, and signed by this key over exactly this data,
\* the voucher's own channel id among it.
VerifySignature(v, signer) ==
  /\ v.expires_at > now
  /\ v.signature = [signer |-> signer, channel_id |-> v.channel_id,
                    cumulative |-> v.cumulative, expires_at |-> v.expires_at]

\* get_channel(voucher.data.channel_id) finds this channel: a voucher or a commit
\* bound to another channel is another channel's business.
Finds(v) == Present /\ v.channel_id = ChannelId

\* A voucher with the stored cumulative and the stored signature.
IsReplay(v) ==
  /\ v.cumulative = ch.cumulative
  /\ v.signature = ch.highest_voucher_signature

TotalAmount(deliveries) == MapThenSumSet(LAMBDA d : d.amount, deliveries)

\* Sum of the reserved amounts; u64 addition wraps in a release build.
PendingTotal == TotalAmount(ch.pending_deliveries)
AddU64(a, b) == (a + b) % U64

PendingWith(id) == {d \in ch.pending_deliveries : d.delivery_id = id}
CommittedWith(id) == {d \in ch.committed_deliveries : d.delivery_id = id}

\* Mutant: a committed delivery is never the same commit again.
SettledByNone(c, v) == FALSE

\* The same voucher that settled this delivery before.
SettledBy(c, v) ==
  c.cumulative = v.cumulative /\ c.voucher_signature = v.signature

ReceiptFor(c) ==
  [delivery_id |-> c.delivery_id, amount |-> c.amount, cumulative |-> c.cumulative]

\* Mutant: the update leaves the stored expiry behind.
WithVoucherNoExpiry(s, v) ==
  [s EXCEPT !.cumulative = v.cumulative,
            !.highest_voucher_signature = v.signature]

WithVoucher(s, v) ==
  [s EXCEPT !.cumulative = v.cumulative,
            !.highest_voucher_signature = v.signature,
            !.highest_voucher_expires_at = v.expires_at]

Respond(w) == task' = [task EXCEPT ![w] = Idle]

-----------------------------------------------------------------------------
(* process_open: validate, confirm the open transaction in push mode, and  *)
(* store a fresh state, whatever the store held for this id before.        *)

SupportsMode(mode) ==
  IF Modes = {} THEN mode = "push" ELSE mode \in Modes

\* What getSignatureStatuses may say of the open transaction.
OpenTxStatus == {"confirmed", "rejected", "unknown", "rpc_error"}

OpenConfirmed(mode, status) ==
  mode = "push" /\ RpcConfigured => status = "confirmed"

ProcessOpen(mode, signer, deposit, status) ==
  /\ opens < MaxOpens
  /\ SupportsMode(mode)
  /\ deposit # 0
  /\ deposit <= MaxCap
  /\ OpenConfirmed(mode, status)
  /\ ch' = FreshState(signer, deposit)
  /\ opens' = opens + 1
  /\ acks' = {}
  /\ receipts' = {}
  /\ finals' = {}
  /\ UNCHANGED <<task, now>>

-----------------------------------------------------------------------------
(* verify_voucher: checks on a snapshot, then an atomic update that        *)
(* re-checks finalized, close-pending and the watermark.                   *)

VerifyVoucherReplay(v) ==
  /\ Finds(v)
  /\ Accepting
  /\ IsReplay(v)
  /\ VerifySignature(v, ch.authorized_signer)
  /\ acks' = acks \cup {v.cumulative}
  /\ UNCHANGED <<opens, ch, task, now, receipts, finals>>

\* Mutant: the snapshot is not compared with the deposit.
VerifyVoucherCheckNoCap(w, v) ==
  /\ task[w] = Idle
  /\ Finds(v)
  /\ Accepting
  /\ ~IsReplay(v)
  /\ v.cumulative > ch.cumulative
  /\ VerifySignature(v, ch.authorized_signer)
  /\ task' = [task EXCEPT ![w] = [op |-> "voucher", voucher |-> v]]
  /\ UNCHANGED <<opens, ch, now, acks, receipts, finals>>

VerifyVoucherCheck(w, v) ==
  /\ task[w] = Idle
  /\ Finds(v)
  /\ Accepting
  /\ ~IsReplay(v)
  /\ v.cumulative > ch.cumulative
  /\ v.cumulative <= ch.deposit
  /\ MinVoucherDelta > 0 => v.cumulative - ch.cumulative >= MinVoucherDelta
  /\ VerifySignature(v, ch.authorized_signer)
  /\ task' = [task EXCEPT ![w] = [op |-> "voucher", voucher |-> v]]
  /\ UNCHANGED <<opens, ch, now, acks, receipts, finals>>

\* Mutant: the closure trusts the snapshot's view of finalized and close-pending.
VoucherStillGoodStale(v) == IsReplay(v) \/ v.cumulative > ch.cumulative

\* The closure's guards, in the state the update finds.
VoucherStillGood(v) == Accepting /\ (IsReplay(v) \/ v.cumulative > ch.cumulative)

\* Mutant: a voucher that lost the race is answered Ok all the same.
VerifyVoucherApplyAlwaysOk(w) ==
  /\ task[w].op = "voucher"
  /\ LET v == task[w].voucher IN
       /\ ch' = IF VoucherStillGood(v) /\ ~IsReplay(v) THEN WithVoucher(ch, v) ELSE ch
       /\ acks' = acks \cup {v.cumulative}
  /\ Respond(w)
  /\ UNCHANGED <<opens, now, receipts, finals>>

VerifyVoucherApply(w) ==
  /\ task[w].op = "voucher"
  /\ LET v == task[w].voucher IN
       \/ /\ VoucherStillGood(v)
          /\ ch' = IF IsReplay(v) THEN ch ELSE WithVoucher(ch, v)
          /\ acks' = acks \cup {v.cumulative}
       \/ /\ ~VoucherStillGood(v)
          /\ UNCHANGED <<ch, acks>>
  /\ Respond(w)
  /\ UNCHANGED <<opens, now, receipts, finals>>

-----------------------------------------------------------------------------
(* process_topup: one atomic update; the only conditions are on the amount. *)

\* Mutant: a topup may name a smaller deposit.
ProcessTopupAnyDeposit(new_deposit) ==
  /\ Present
  /\ new_deposit <= MaxCap
  /\ ch' = [ch EXCEPT !.deposit = new_deposit]
  /\ UNCHANGED <<opens, task, now, acks, receipts, finals>>

ProcessTopup(new_deposit) ==
  /\ Present
  /\ new_deposit > ch.deposit
  /\ new_deposit <= MaxCap
  /\ ch' = [ch EXCEPT !.deposit = new_deposit]
  /\ UNCHANGED <<opens, task, now, acks, receipts, finals>>

-----------------------------------------------------------------------------
(* begin_delivery: reserve capacity under one atomic update.               *)

\* Mutant: earlier reservations are not counted.
FitsDepositAlone(amount) == AddU64(ch.cumulative, amount) <= ch.deposit

\* cumulative + pending_total + amount <= deposit, in u64 arithmetic.
FitsDeposit(amount) ==
  AddU64(AddU64(ch.cumulative, PendingTotal % U64), amount) <= ch.deposit

\* The id n stands for the text "{session_id}:{n}" the server derives.
DeliveryIdFor(requested) ==
  IF requested = None THEN ch.next_delivery_sequence + 1 ELSE requested

BeginDelivery(amount, requested, expires_at) ==
  /\ Present
  /\ amount # 0
  /\ Accepting
  /\ ch.next_delivery_sequence < MaxSequence
  /\ FitsDeposit(amount)
  /\ LET id == DeliveryIdFor(requested)
         sequence == ch.next_delivery_sequence + 1 IN
       /\ PendingWith(id) = {} /\ CommittedWith(id) = {}
       /\ ch' = [ch EXCEPT
                  !.next_delivery_sequence = sequence,
                  !.pending_deliveries = @ \cup
                     {[delivery_id |-> id, amount |-> amount,
                       sequence |-> sequence, expires_at |-> expires_at]}]
  /\ UNCHANGED <<opens, task, now, acks, receipts, finals>>

-----------------------------------------------------------------------------
(* process_commit: the snapshot decides between a replay and a first       *)
(* commit; the closure decides again.                                      *)

\* The snapshot shows the delivery committed: answered from the record,
\* whether or not the channel is still open.
ProcessCommitReplay(v, id) ==
  /\ Finds(v)
  /\ VerifySignature(v, ch.authorized_signer)
  /\ \E c \in CommittedWith(id) :
       /\ SettledBy(c, v)
       /\ receipts' = receipts \cup {ReceiptFor(c)}
  /\ UNCHANGED <<opens, ch, task, now, acks, finals>>

ProcessCommitCheck(w, v, id) ==
  /\ task[w] = Idle
  /\ Finds(v)
  /\ CommittedWith(id) = {}
  /\ \E p \in PendingWith(id) : p.expires_at > now
  /\ v.cumulative > ch.cumulative
  /\ VerifySignature(v, ch.authorized_signer)
  /\ task' = [task EXCEPT ![w] =
                [op |-> "commit", voucher |-> v, delivery_id |-> id, now |-> now]]
  /\ UNCHANGED <<opens, ch, now, acks, receipts, finals>>

\* Mutant: the closure only excludes the same watermark, not a lower one.
CommittableStale(p, v, checked_at) ==
  /\ p.expires_at > checked_at
  /\ v.cumulative # ch.cumulative
  /\ v.cumulative - ch.cumulative <= p.amount

\* The closure removes the reservation and moves the watermark by what the
\* voucher adds, which may be less than was reserved but never more.
Committable(p, v, checked_at) ==
  /\ p.expires_at > checked_at
  /\ v.cumulative > ch.cumulative
  /\ v.cumulative - ch.cumulative <= p.amount

\* Mutant: the reservation stays in the list.
CommitDeliveryKeepsPending(p, v) ==
  LET c == [delivery_id |-> p.delivery_id,
            amount |-> v.cumulative - ch.cumulative,
            cumulative |-> v.cumulative,
            voucher_signature |-> v.signature] IN
    /\ ch' = [WithVoucher(ch, v) EXCEPT !.committed_deliveries = @ \cup {c}]
    /\ receipts' = receipts \cup {ReceiptFor(c)}

\* Mutant: the receipt states what was reserved, the record what was paid.
CommitDeliveryReservedReceipt(p, v) ==
  LET c == [delivery_id |-> p.delivery_id,
            amount |-> v.cumulative - ch.cumulative,
            cumulative |-> v.cumulative,
            voucher_signature |-> v.signature] IN
    /\ ch' = [WithVoucher(ch, v) EXCEPT
                !.pending_deliveries = @ \ {p},
                !.committed_deliveries = @ \cup {c}]
    /\ receipts' = receipts \cup {[ReceiptFor(c) EXCEPT !.amount = p.amount]}

CommitDelivery(p, v) ==
  LET c == [delivery_id |-> p.delivery_id,
            amount |-> v.cumulative - ch.cumulative,
            cumulative |-> v.cumulative,
            voucher_signature |-> v.signature] IN
    /\ ch' = [WithVoucher(ch, v) EXCEPT
                !.pending_deliveries = @ \ {p},
                !.committed_deliveries = @ \cup {c}]
    /\ receipts' = receipts \cup {ReceiptFor(c)}

CommitApplies(t) ==
  /\ Accepting
  /\ CommittedWith(t.delivery_id) = {}
  /\ \E p \in PendingWith(t.delivery_id) : Committable(p, t.voucher, t.now)

CommitReplays(t) ==
  /\ Accepting
  /\ \E c \in CommittedWith(t.delivery_id) : SettledBy(c, t.voucher)

ProcessCommitApply(w) ==
  /\ task[w].op = "commit"
  /\ LET t == task[w] IN
       \/ /\ CommitApplies(t)
          /\ \E p \in PendingWith(t.delivery_id) : CommitDelivery(p, t.voucher)
       \/ /\ CommitReplays(t)
          /\ \E c \in CommittedWith(t.delivery_id) :
               receipts' = receipts \cup {ReceiptFor(c)}
          /\ UNCHANGED ch
       \/ /\ ~CommitApplies(t) /\ ~CommitReplays(t)
          /\ UNCHANGED <<ch, receipts>>
  /\ Respond(w)
  /\ UNCHANGED <<opens, now, acks, finals>>

-----------------------------------------------------------------------------
(* process_close: one atomic update, then a separate read of the           *)
(* parameters to settle on chain.                                          *)

\* The final voucher must exceed the watermark and fit the deposit, or be the
\* stored one again (whose signature is not verified a second time).  Its channel
\* id is not compared with the one to be closed.
FinalVoucherOk(v) ==
  \/ IsReplay(v)
  \/ /\ v.cumulative > ch.cumulative
     /\ v.cumulative <= ch.deposit
     /\ VerifySignature(v, ch.authorized_signer)

AfterFinalVoucher(v) ==
  IF v = None \/ IsReplay(v) THEN ch ELSE WithVoucher(ch, v)

ProcessClose(w, v) ==
  /\ task[w] = Idle
  /\ Present
  /\ Accepting
  /\ v # None => FinalVoucherOk(v)
  /\ ch' = [AfterFinalVoucher(v) EXCEPT !.close_requested = TRUE]
  /\ task' = [task EXCEPT ![w] = [op |-> "close"]]
  /\ UNCHANGED <<opens, now, acks, receipts, finals>>

ProcessCloseReply(w) ==
  /\ task[w].op = "close"
  /\ finals' = finals \cup
       {[settled |-> ch.cumulative,
         voucher_signature |-> ch.highest_voucher_signature,
         voucher_expires_at |-> ch.highest_voucher_expires_at]}
  /\ Respond(w)
  /\ UNCHANGED <<opens, ch, now, acks, receipts>>

\* mark_finalized: called by the host when the settlement transaction confirms.
MarkFinalized ==
  /\ Present
  /\ ch' = [ch EXCEPT !.finalized = TRUE]
  /\ UNCHANGED <<opens, task, now, acks, receipts, finals>>

\* Time passes (up to MaxTime).
Tick ==
  /\ now < MaxTime
  /\ now' = now + 1
  /\ UNCHANGED <<opens, ch, task, acks, receipts, finals>>

-----------------------------------------------------------------------------

Init ==
  /\ opens = 0
  /\ ch = FreshState(None, 0)
  /\ task = [w \in Workers |-> Idle]
  /\ now = 0
  /\ acks = {}
  /\ receipts = {}
  /\ finals = {}

Host ==
  \/ \E mode \in {"push", "pull"}, signer \in Signers, deposit \in Deposits,
        status \in OpenTxStatus : ProcessOpen(mode, signer, deposit, status)
  \/ \E deposit \in Deposits : ProcessTopup(deposit)
  \/ \E amount \in DeliveryAmounts, requested \in DeliveryIds \cup {None},
        expires_at \in DeliveryExpiries :
          BeginDelivery(amount, requested, expires_at)
  \/ MarkFinalized

Client ==
  \E v \in Vouchers :
    \/ VerifyVoucherReplay(v)
    \/ \E id \in {d.delivery_id : d \in ch.committed_deliveries} :
         ProcessCommitReplay(v, id)
    \/ \E w \in Workers :
         \/ VerifyVoucherCheck(w, v)
         \/ \E id \in {d.delivery_id : d \in ch.pending_deliveries} :
              ProcessCommitCheck(w, v, id)

Worker ==
  \E w \in Workers :
    \/ VerifyVoucherApply(w)
    \/ ProcessCommitApply(w)
    \/ \E v \in Vouchers \cup {None} : ProcessClose(w, v)
    \/ ProcessCloseReply(w)

Next == Host \/ Client \/ Worker \/ Tick

Spec == Init /\ [][Next]_vars

-----------------------------------------------------------------------------
(* Properties. *)

\* The stored settlement data is redeemable on chain: there is a voucher as soon
\* as anything is owed, its signature covers exactly this channel and the stored
\* cumulative and expiry, and, as long as the channel id was opened once, it was
\* made by the channel's authorized signer (verify_voucher, process_commit and
\* process_close each write the three fields after checks made in an earlier or
\* the same step).  One exception, and only after a close: the final voucher of
\* process_close may be bound to another channel, since nothing compares the two
\* ids; it replaces a voucher that was redeemable and is not.
SettlementRedeemable ==
  LET sig == ch.highest_voucher_signature IN
    /\ sig = None <=> ch.cumulative = 0
    /\ sig # None =>
         /\ sig.cumulative = ch.cumulative
         /\ sig.expires_at = ch.highest_voucher_expires_at
         /\ sig.channel_id = ChannelId \/ ch.close_requested
         /\ opens = 1 => sig.signer = ch.authorized_signer

\* What was acknowledged to a client is never forgotten: every cumulative that
\* verify_voucher or process_commit answered Ok since the last open is at or
\* below the watermark, and what process_close hands out for settlement covers
\* all of them even though vouchers and commits in flight race with the close.
AcknowledgedIsSettled ==
  LET owed == acks \cup {r.cumulative : r \in receipts} IN
    /\ \A a \in owed : a <= ch.cumulative
    /\ opens = 1 => \A f \in finals :
         /\ \A a \in owed : a <= f.settled
         /\ f.settled = ch.cumulative
         /\ f.voucher_signature = ch.highest_voucher_signature

\* A delivery is paid for once and no base unit pays for two: a delivery is not
\* both pending and committed, ids and sequences identify deliveries, and the
\* ranges of the watermark that committed deliveries paid with do not overlap.
DeliveriesPaidOnce ==
  /\ \A p, q \in ch.pending_deliveries :
       p.delivery_id = q.delivery_id \/ p.sequence = q.sequence => p = q
  /\ \A p \in ch.pending_deliveries : CommittedWith(p.delivery_id) = {}
  /\ \A c \in ch.committed_deliveries :
       0 < c.amount /\ c.amount <= c.cumulative /\ c.cumulative <= ch.cumulative
  /\ \A c, d \in ch.committed_deliveries :
       c # d => /\ c.delivery_id # d.delivery_id
                /\ \/ c.cumulative <= d.cumulative - d.amount
                   \/ d.cumulative <= c.cumulative - c.amount

\* Every CommitReceipt a client received, for a first commit or for a retry that
\* raced with it, states the amount and cumulative of the recorded commit, so
\* retries of one delivery always agree.
ReceiptsMatchRecord ==
  receipts \subseteq {ReceiptFor(c) : c \in ch.committed_deliveries}

\* As long as the channel was opened once and no delivery was reserved on it,
\* concurrent vouchers and the final voucher keep the watermark within the
\* deposit, although the update's closure does not compare with the deposit.
VouchersStayInDeposit ==
  opens = 1 /\ ch.next_delivery_sequence = 0 => ch.cumulative <= ch.deposit

\* Reservations never exceed the deposit, and a watermark that outruns the
\* deposit (process_commit does not compare with it) is bounded: what is owed
\* and what is reserved stay within twice the deposit.
ExposureBounded ==
  opens = 1 => /\ PendingTotal <= ch.deposit
               /\ ch.cumulative + PendingTotal <= 2 * ch.deposit

\* Between two opens the watermark and the deposit never go down, and the record
\* of committed deliveries only grows.
WatermarkMonotone ==
  [][opens' = opens =>
       /\ ch'.cumulative >= ch.cumulative
       /\ ch'.deposit >= ch.deposit
       /\ ch.committed_deliveries \subseteq ch'.committed_deliveries]_vars

\* Once close was requested or the channel was finalized, no request still in
\* flight changes what will be settled.
ClosedIsFrozen ==
  [][Present /\ ~Accepting /\ opens' = opens =>
       /\ ~Accepting'
       /\ ch'.cumulative = ch.cumulative
       /\ ch'.highest_voucher_signature = ch.highest_voucher_signature
       /\ ch'.highest_voucher_expires_at = ch.highest_voucher_expires_at
       /\ ch'.pending_deliveries = ch.pending_deliveries
       /\ ch'.committed_deliveries = ch.committed_deliveries]_vars

\* Stated by the documentation of verify_voucher and of ChannelState.deposit, and
\* refuted: a voucher moves the watermark under a reservation that was sized
\* against the old watermark, and process_commit never compares with the deposit.
DepositCap == Present => ch.cumulative <= ch.deposit

\* Stated by the documentation of verify_voucher (vouchers that "Have an invalid
\* signature" are rejected, checked against a signer that "never changes after
\* open"), and refuted: process_open overwrites the channel under the same id, so
\* a voucher checked against the old key is stored under the new one.
StoredVoucherBySigner ==
  ch.highest_voucher_signature # None =>
    ch.highest_voucher_signature.signer = ch.authorized_signer

=============================================================================
