----------------------------- MODULE SessionProofs -----------------------------
(***************************************************************************)
(* Proofs about the sessions, for every value of the constants, in three   *)
(* parts: the server's handlers (SessionServer), the sums the server       *)
(* forms over its reservations, and client, transport and server together  *)
(* (SessionClient), which is shown to implement the server alone.          *)
(***************************************************************************)
EXTENDS SessionClient, FiniteSetTheorems, WellFoundedInduction, TLAPS

-----------------------------------------------------------------------------
(***************************************************************************)
(* Part 1: the session server.                                             *)
(***************************************************************************)

(* Type correctness. *)

\* Storing a presented voucher in a channel state (the last assignment of
\* verify_voucher, process_commit and process_close) gives a channel state.
LEMMA WithVoucherType ==
  ASSUME NEW s \in ChannelState, NEW v \in Vouchers
  PROVE  WithVoucher(s, v) \in ChannelState
<1>1. v \in SignedVoucher
  BY ConstantsAssumption
<1>2. /\ v.cumulative \in Nat
      /\ v.signature \in Signature
      /\ v.expires_at \in Nat
  BY <1>1 DEF SignedVoucher
<1> QED
  BY <1>2 DEF WithVoucher, ChannelState

\* A worker that answers becomes idle, and a function of tasks stays one.
LEMMA TaskUpdateType ==
  ASSUME NEW w \in Workers, NEW t \in Task, task \in [Workers -> Task]
  PROVE  [task EXCEPT ![w] = t] \in [Workers -> Task]
OBVIOUS

LEMMA IdleType == Idle \in Task
BY DEF Idle, Task

\* The initial state is well typed.
LEMMA TypeInit == Init => TypeOK
<1> SUFFICES ASSUME Init PROVE TypeOK
  OBVIOUS
<1>1. FreshState(None, 0) \in ChannelState
  BY DEF FreshState, ChannelState
<1> QED
  BY <1>1, IdleType, ConstantsAssumption DEF Init, TypeOK

\* The fields of a presented voucher.
LEMMA VoucherType ==
  ASSUME NEW v \in Vouchers
  PROVE  /\ v.cumulative \in Nat
         /\ v.expires_at \in Nat
         /\ v.signature \in Signature
         /\ v.signature # None
BY ConstantsAssumption DEF SignedVoucher

\* What a task in flight carries.
LEMMA TaskFields ==
  ASSUME NEW t \in Task
  PROVE  /\ t.op \in {"idle", "close", "voucher", "commit"}
         /\ t.op = "voucher" => t.voucher \in Vouchers
         /\ t.op = "commit" =>
              t.voucher \in Vouchers /\ t.delivery_id \in Nat /\ t.now \in Nat
BY DEF Task

\* Every step keeps the state well typed.
LEMMA TypeNext == TypeOK /\ [Next]_vars => TypeOK'
<1> SUFFICES ASSUME TypeOK, [Next]_vars PROVE TypeOK'
  OBVIOUS
<1> USE ConstantsAssumption
<1>1. CASE UNCHANGED vars
  BY <1>1 DEF vars, TypeOK
<1>2. ASSUME NEW mode, NEW signer \in Signers, NEW deposit \in Deposits, NEW status,
             ProcessOpen(mode, signer, deposit, status)
      PROVE  TypeOK'
  <2>1. FreshState(signer, deposit) \in ChannelState
    BY DEF FreshState, ChannelState
  <2> QED
    BY <1>2, <2>1 DEF ProcessOpen, TypeOK
<1>3. ASSUME NEW deposit \in Deposits, ProcessTopup(deposit)
      PROVE  TypeOK'
  <2>1. [ch EXCEPT !.deposit = deposit] \in ChannelState
    BY DEF TypeOK, ChannelState
  <2> QED
    BY <1>3, <2>1 DEF ProcessTopup, TypeOK
<1>4. ASSUME NEW amount \in DeliveryAmounts, NEW requested \in DeliveryIds \cup {None},
             NEW expires_at \in DeliveryExpiries,
             BeginDelivery(amount, requested, expires_at)
      PROVE  TypeOK'
  <2> DEFINE id == DeliveryIdFor(requested)
             sequence == ch.next_delivery_sequence + 1
             p == [delivery_id |-> id, amount |-> amount,
                   sequence |-> sequence, expires_at |-> expires_at]
  <2>1. sequence \in Nat /\ id \in Nat
    BY DEF TypeOK, ChannelState, DeliveryIdFor
  <2>2. p \in PendingDelivery
    BY <2>1 DEF PendingDelivery
  <2>3. ch.pending_deliveries \cup {p} \in SUBSET PendingDelivery
    BY <2>2 DEF TypeOK, ChannelState
  <2>4. ch' = [ch EXCEPT !.next_delivery_sequence = sequence,
                         !.pending_deliveries = @ \cup {p}]
    BY <1>4 DEF BeginDelivery
  <2> HIDE DEF p, sequence, id
  <2>5. ch' \in ChannelState
    BY <2>1, <2>3, <2>4 DEF TypeOK, ChannelState
  <2> QED
    BY <1>4, <2>5 DEF BeginDelivery, TypeOK
<1>5. ASSUME MarkFinalized PROVE TypeOK'
  <2>1. [ch EXCEPT !.finalized = TRUE] \in ChannelState
    BY DEF TypeOK, ChannelState
  <2> QED
    BY <1>5, <2>1 DEF MarkFinalized, TypeOK
<1>6. ASSUME NEW v \in Vouchers, VerifyVoucherReplay(v) PROVE TypeOK'
  BY <1>6, VoucherType DEF VerifyVoucherReplay, TypeOK
<1>7. ASSUME NEW v \in Vouchers, NEW id, ProcessCommitReplay(v, id)
      PROVE  TypeOK'
  <2>1. PICK c \in ch.committed_deliveries : receipts' = receipts \cup {ReceiptFor(c)}
    BY <1>7 DEF ProcessCommitReplay, CommittedWith
  <2>2. ReceiptFor(c) \in Receipt
    BY <2>1 DEF TypeOK, ChannelState, CommittedDelivery, ReceiptFor, Receipt
  <2> QED
    BY <1>7, <2>1, <2>2 DEF ProcessCommitReplay, TypeOK
<1>8. ASSUME NEW v \in Vouchers, NEW w \in Workers, VerifyVoucherCheck(w, v)
      PROVE  TypeOK'
  <2>1. [op |-> "voucher", voucher |-> v] \in Task
    BY DEF Task
  <2> QED
    BY <1>8, <2>1, TaskUpdateType DEF VerifyVoucherCheck, TypeOK
<1>9. ASSUME NEW v \in Vouchers, NEW w \in Workers,
             NEW id \in {d.delivery_id : d \in ch.pending_deliveries},
             ProcessCommitCheck(w, v, id)
      PROVE  TypeOK'
  <2>1. id \in Nat
    BY DEF TypeOK, ChannelState, PendingDelivery
  <2>2. [op |-> "commit", voucher |-> v, delivery_id |-> id, now |-> now] \in Task
    BY <2>1 DEF Task, TypeOK
  <2> QED
    BY <1>9, <2>2, TaskUpdateType DEF ProcessCommitCheck, TypeOK
<1>10. ASSUME NEW w \in Workers, VerifyVoucherApply(w) PROVE TypeOK'
  <2> DEFINE v == task[w].voucher
  <2>1. v \in Vouchers
    BY <1>10, TaskFields DEF VerifyVoucherApply, TypeOK
  <2>2. WithVoucher(ch, v) \in ChannelState
    BY <2>1, WithVoucherType DEF TypeOK
  <2>3. v.cumulative \in Nat
    BY <2>1, VoucherType
  <2>4. task' \in [Workers -> Task]
    BY <1>10, IdleType, TaskUpdateType DEF VerifyVoucherApply, Respond, TypeOK
  <2> QED
    BY <1>10, <2>2, <2>3, <2>4 DEF VerifyVoucherApply, TypeOK
<1>11. ASSUME NEW w \in Workers, ProcessCommitApply(w) PROVE TypeOK'
  <2> DEFINE t == task[w]
  <2>1. t.voucher \in Vouchers
    BY <1>11, TaskFields DEF ProcessCommitApply, TypeOK
  <2>2. task' \in [Workers -> Task]
    BY <1>11, IdleType, TaskUpdateType DEF ProcessCommitApply, Respond, TypeOK
  <2>3. CASE /\ CommitApplies(t)
             /\ \E p \in PendingWith(t.delivery_id) : CommitDelivery(p, t.voucher)
    <3>1. PICK p \in PendingWith(t.delivery_id) : CommitDelivery(p, t.voucher)
      BY <2>3
    <3> DEFINE v == t.voucher
               c == [delivery_id |-> p.delivery_id,
                     amount |-> v.cumulative - ch.cumulative,
                     cumulative |-> v.cumulative,
                     voucher_signature |-> v.signature]
    <3>2. p \in PendingDelivery
      BY DEF PendingWith, TypeOK, ChannelState
    <3>3. v.cumulative > ch.cumulative
      BY <2>3 DEF CommitApplies, Committable
    <3>4. v.cumulative - ch.cumulative \in Nat
      BY <2>1, <3>3, VoucherType DEF TypeOK, ChannelState
    <3>5. c \in CommittedDelivery
      BY <2>1, <3>2, <3>4, VoucherType DEF CommittedDelivery, PendingDelivery
    <3>6. ReceiptFor(c) \in Receipt
      BY <3>5 DEF ReceiptFor, Receipt, CommittedDelivery
    <3> DEFINE s == WithVoucher(ch, v)
    <3>7. s \in ChannelState
      BY <2>1, WithVoucherType DEF TypeOK
    <3>8. /\ ch' = [s EXCEPT !.pending_deliveries = @ \ {p},
                             !.committed_deliveries = @ \cup {c}]
          /\ receipts' = receipts \cup {ReceiptFor(c)}
      BY <3>1 DEF CommitDelivery
    <3> HIDE DEF s, c
    <3>9. ch' \in ChannelState
      BY <3>5, <3>7, <3>8 DEF ChannelState
    <3> QED
      BY <1>11, <2>2, <3>6, <3>8, <3>9 DEF ProcessCommitApply, TypeOK
  <2>4. CASE /\ CommitReplays(t)
             /\ \E c \in CommittedWith(t.delivery_id) :
                  receipts' = receipts \cup {ReceiptFor(c)}
             /\ UNCHANGED ch
    <3>1. PICK c \in CommittedWith(t.delivery_id) :
                 receipts' = receipts \cup {ReceiptFor(c)}
      BY <2>4
    <3>2. ReceiptFor(c) \in Receipt
      BY DEF CommittedWith, TypeOK, ChannelState, CommittedDelivery, ReceiptFor, Receipt
    <3> QED
      BY <1>11, <2>2, <2>4, <3>1, <3>2 DEF ProcessCommitApply, TypeOK
  <2>5. CASE UNCHANGED <<ch, receipts>>
    BY <1>11, <2>2, <2>5 DEF ProcessCommitApply, TypeOK
  <2> QED
    BY <1>11, <2>3, <2>4, <2>5 DEF ProcessCommitApply
<1>12. ASSUME NEW w \in Workers, NEW v \in Vouchers \cup {None}, ProcessClose(w, v)
       PROVE  TypeOK'
  <2>1. AfterFinalVoucher(v) \in ChannelState
    BY WithVoucherType DEF AfterFinalVoucher, TypeOK
  <2>2. [AfterFinalVoucher(v) EXCEPT !.close_requested = TRUE] \in ChannelState
    BY <2>1 DEF ChannelState
  <2>3. [op |-> "close"] \in Task
    BY DEF Task
  <2> QED
    BY <1>12, <2>2, <2>3, TaskUpdateType DEF ProcessClose, TypeOK
<1>13. ASSUME NEW w \in Workers, ProcessCloseReply(w) PROVE TypeOK'
  <2>1. [settled |-> ch.cumulative,
         voucher_signature |-> ch.highest_voucher_signature,
         voucher_expires_at |-> ch.highest_voucher_expires_at] \in FinalizeParams
    BY DEF FinalizeParams, TypeOK, ChannelState
  <2>2. task' \in [Workers -> Task]
    BY <1>13, IdleType, TaskUpdateType DEF ProcessCloseReply, Respond, TypeOK
  <2> QED
    BY <1>13, <2>1, <2>2 DEF ProcessCloseReply, TypeOK
<1>14. ASSUME Tick PROVE TypeOK'
  BY <1>14 DEF Tick, TypeOK
<1> QED
  BY <1>1, <1>2, <1>3, <1>4, <1>5, <1>6, <1>7, <1>8, <1>9, <1>10, <1>11, <1>12,
     <1>13, <1>14 DEF Next, Host, Client, Worker

\* The state of the server is always well typed: in particular amounts never go
\* below zero although process_commit subtracts the watermark from a voucher.
THEOREM TypeCorrect == Spec => []TypeOK
BY TypeInit, TypeNext, PTL DEF Spec

-----------------------------------------------------------------------------
(* The inductive invariant: what a request in flight may rely on.          *)

\* A voucher that passed verify_signature against the signer of its time, as
\* seen when the channel is s and was opened n times.
VoucherInFlight(v, n, s) ==
  /\ v.cumulative > 0
  /\ v.signature.channel_id = ChannelId
  /\ v.signature.cumulative = v.cumulative
  /\ v.signature.expires_at = v.expires_at
  /\ n = 1 => v.signature.signer = s.authorized_signer

\* Between its two steps a request keeps what its first step established.
TaskGood(t, n, s) ==
  /\ t.op # "idle" => n > 0
  /\ t.op = "voucher" =>
       /\ VoucherInFlight(t.voucher, n, s)
       /\ n = 1 => t.voucher.cumulative <= s.deposit
  /\ t.op = "commit" =>
       /\ VoucherInFlight(t.voucher, n, s)
       /\ n = 1 => s.next_delivery_sequence > 0
  /\ t.op = "close" => (n = 1 => s.close_requested)

TaskInv == \A w \in Workers : TaskGood(task[w], opens, ch)

\* Reservations are numbered by the counter that has been handed out.
SequenceInv ==
  /\ \A p \in ch.pending_deliveries : p.sequence <= ch.next_delivery_sequence
  /\ ch.next_delivery_sequence = 0 =>
       ch.pending_deliveries = {} /\ ch.committed_deliveries = {}

\* Only a closed channel has handed out settlement parameters.
FinalsInv ==
  /\ finals # {} => opens > 0
  /\ opens = 1 /\ finals # {} => ch.close_requested

IInv ==
  /\ TypeOK
  /\ TaskInv
  /\ SequenceInv
  /\ FinalsInv
  /\ SettlementRedeemable
  /\ AcknowledgedIsSettled
  /\ DeliveriesPaidOnce
  /\ ReceiptsMatchRecord
  /\ VouchersStayInDeposit

\* Storing a voucher sets three fields and leaves the others alone.
LEMMA WithVoucherFields ==
  ASSUME NEW s \in ChannelState, NEW v \in Vouchers
  PROVE  LET r == WithVoucher(s, v) IN
           /\ r.cumulative = v.cumulative
           /\ r.highest_voucher_signature = v.signature
           /\ r.highest_voucher_expires_at = v.expires_at
           /\ r.authorized_signer = s.authorized_signer
           /\ r.deposit = s.deposit
           /\ r.finalized = s.finalized
           /\ r.close_requested = s.close_requested
           /\ r.next_delivery_sequence = s.next_delivery_sequence
           /\ r.pending_deliveries = s.pending_deliveries
           /\ r.committed_deliveries = s.committed_deliveries
BY DEF WithVoucher, ChannelState

\* The invariant holds initially: nothing is stored and nothing is in flight.
LEMMA IndInit == Init => IInv
<1> SUFFICES ASSUME Init PROVE IInv
  OBVIOUS
<1>1. TypeOK
  BY TypeInit
<1>2. /\ ch.cumulative = 0
      /\ ch.highest_voucher_signature = None
      /\ ch.pending_deliveries = {}
      /\ ch.committed_deliveries = {}
      /\ ch.deposit = 0
  BY DEF Init, FreshState
<1>3. \A w \in Workers : task[w].op = "idle"
  BY DEF Init, Idle
<1>4. TaskInv
  BY <1>3 DEF TaskInv, TaskGood
<1>5. SequenceInv /\ FinalsInv /\ ReceiptsMatchRecord /\ VouchersStayInDeposit
  BY <1>2 DEF Init, SequenceInv, FinalsInv, ReceiptsMatchRecord, VouchersStayInDeposit
<1>6. SettlementRedeemable
  BY <1>2 DEF SettlementRedeemable
<1>7. AcknowledgedIsSettled
  BY DEF AcknowledgedIsSettled, Init
<1>8. DeliveriesPaidOnce
  BY <1>2 DEF DeliveriesPaidOnce
<1> QED
  BY <1>1, <1>4, <1>5, <1>6, <1>7, <1>8 DEF IInv

\* process_open starts a new life of the channel: what is in flight belongs to
\* an earlier one, and the count of opens says so.
LEMMA OpenPreserves ==
  ASSUME IInv, TypeOK', NEW mode, NEW signer \in Signers, NEW deposit \in Deposits,
         NEW status, ProcessOpen(mode, signer, deposit, status)
  PROVE  IInv'
<1>1. /\ ch'.cumulative = 0
      /\ ch'.highest_voucher_signature = None
      /\ ch'.pending_deliveries = {}
      /\ ch'.committed_deliveries = {}
      /\ ch'.deposit \in Nat
      /\ opens' = opens + 1
      /\ opens \in Nat
      /\ acks' = {} /\ receipts' = {} /\ finals' = {}
      /\ task' = task
  BY ConstantsAssumption DEF ProcessOpen, FreshState, IInv, TypeOK
<1>2. TaskInv'
  <2> SUFFICES ASSUME NEW w \in Workers PROVE TaskGood(task[w], opens', ch')
    BY <1>1 DEF TaskInv
  <2>1. TaskGood(task[w], opens, ch)
    BY DEF IInv, TaskInv
  <2>2. task[w].op # "idle" => opens' # 1
    BY <1>1, <2>1 DEF TaskGood
  <2> QED
    BY <1>1, <2>1, <2>2 DEF TaskGood, VoucherInFlight
<1>3. SequenceInv' /\ FinalsInv' /\ ReceiptsMatchRecord' /\ VouchersStayInDeposit'
  BY <1>1 DEF SequenceInv, FinalsInv, ReceiptsMatchRecord, VouchersStayInDeposit
<1>4. SettlementRedeemable'
  BY <1>1 DEF SettlementRedeemable
<1>5. AcknowledgedIsSettled'
  BY <1>1 DEF AcknowledgedIsSettled
<1>6. DeliveriesPaidOnce'
  BY <1>1 DEF DeliveriesPaidOnce
<1> QED
  BY <1>2, <1>3, <1>4, <1>5, <1>6 DEF IInv

\* process_topup only raises the deposit.
LEMMA TopupPreserves ==
  ASSUME IInv, TypeOK', NEW deposit \in Deposits, ProcessTopup(deposit)
  PROVE  IInv'
<1>1. /\ ch'.deposit > ch.deposit
      /\ ch'.cumulative = ch.cumulative
      /\ ch'.authorized_signer = ch.authorized_signer
      /\ ch'.highest_voucher_signature = ch.highest_voucher_signature
      /\ ch'.highest_voucher_expires_at = ch.highest_voucher_expires_at
      /\ ch'.close_requested = ch.close_requested
      /\ ch'.next_delivery_sequence = ch.next_delivery_sequence
      /\ ch'.pending_deliveries = ch.pending_deliveries
      /\ ch'.committed_deliveries = ch.committed_deliveries
      /\ UNCHANGED <<opens, task, now, acks, receipts, finals>>
  BY DEF ProcessTopup, IInv, TypeOK, ChannelState
<1>2. ch.deposit \in Nat /\ ch'.deposit \in Nat /\ ch.cumulative \in Nat
  BY DEF IInv, TypeOK, ChannelState
<1>3. TaskInv'
  <2> SUFFICES ASSUME NEW w \in Workers PROVE TaskGood(task[w], opens, ch')
    BY <1>1 DEF TaskInv
  <2>1. TaskGood(task[w], opens, ch)
    BY DEF IInv, TaskInv
  <2>2. task[w].op = "voucher" => task[w].voucher.cumulative \in Nat
    BY TaskFields, VoucherType DEF IInv, TypeOK
  <2> QED
    BY <1>1, <1>2, <2>1, <2>2 DEF TaskGood, VoucherInFlight
<1>4. SequenceInv' /\ FinalsInv' /\ ReceiptsMatchRecord'
  BY <1>1 DEF IInv, SequenceInv, FinalsInv, ReceiptsMatchRecord
<1>5. VouchersStayInDeposit'
  BY <1>1, <1>2 DEF IInv, VouchersStayInDeposit
<1>6. SettlementRedeemable'
  BY <1>1 DEF IInv, SettlementRedeemable
<1>7. AcknowledgedIsSettled'
  BY <1>1 DEF IInv, AcknowledgedIsSettled
<1>8. DeliveriesPaidOnce'
  BY <1>1 DEF IInv, DeliveriesPaidOnce, CommittedWith
<1> QED
  BY <1>3, <1>4, <1>5, <1>6, <1>7, <1>8 DEF IInv

\* begin_delivery adds one reservation under a fresh id and a fresh sequence.
LEMMA BeginPreserves ==
  ASSUME IInv, TypeOK', NEW amount \in DeliveryAmounts,
         NEW requested \in DeliveryIds \cup {None}, NEW expires_at \in DeliveryExpiries,
         BeginDelivery(amount, requested, expires_at)
  PROVE  IInv'
<1> DEFINE id == DeliveryIdFor(requested)
           sequence == ch.next_delivery_sequence + 1
           new == [delivery_id |-> id, amount |-> amount,
                   sequence |-> sequence, expires_at |-> expires_at]
<1>1. /\ ch' = [ch EXCEPT !.next_delivery_sequence = sequence,
                          !.pending_deliveries = @ \cup {new}]
      /\ PendingWith(id) = {} /\ CommittedWith(id) = {}
      /\ UNCHANGED <<opens, task, now, acks, receipts, finals>>
  BY DEF BeginDelivery
<1>2. new.delivery_id = id /\ new.sequence = sequence
  OBVIOUS
<1> HIDE DEF id, new
<1>3. /\ ch'.deposit = ch.deposit
      /\ ch'.cumulative = ch.cumulative
      /\ ch'.authorized_signer = ch.authorized_signer
      /\ ch'.highest_voucher_signature = ch.highest_voucher_signature
      /\ ch'.highest_voucher_expires_at = ch.highest_voucher_expires_at
      /\ ch'.close_requested = ch.close_requested
      /\ ch'.next_delivery_sequence = ch.next_delivery_sequence + 1
      /\ ch'.pending_deliveries = ch.pending_deliveries \cup {new}
      /\ ch'.committed_deliveries = ch.committed_deliveries
  BY <1>1 DEF IInv, TypeOK, ChannelState
<1>4. ch.next_delivery_sequence \in Nat
  BY DEF IInv, TypeOK, ChannelState
<1>5. \A p \in ch.pending_deliveries : p.sequence \in Nat
  BY DEF IInv, TypeOK, ChannelState, PendingDelivery
<1>6. TaskInv'
  BY <1>1, <1>3, <1>4 DEF IInv, TaskInv, TaskGood, VoucherInFlight
<1>7. SequenceInv'
  BY <1>2, <1>3, <1>4, <1>5 DEF IInv, SequenceInv
<1>8. FinalsInv' /\ ReceiptsMatchRecord' /\ VouchersStayInDeposit'
  BY <1>1, <1>3, <1>4 DEF IInv, FinalsInv, ReceiptsMatchRecord, VouchersStayInDeposit
<1>9. SettlementRedeemable'
  BY <1>1, <1>3 DEF IInv, SettlementRedeemable
<1>10. AcknowledgedIsSettled'
  BY <1>1, <1>3 DEF IInv, AcknowledgedIsSettled
<1>11. DeliveriesPaidOnce'
  <2>1. \A p \in ch.pending_deliveries : p.delivery_id # id /\ p.sequence # sequence
    BY <1>1, <1>4, <1>5 DEF PendingWith, IInv, SequenceInv
  <2>2. \A p, q \in ch'.pending_deliveries :
          p.delivery_id = q.delivery_id \/ p.sequence = q.sequence => p = q
    BY <1>2, <1>3, <2>1 DEF IInv, DeliveriesPaidOnce
  <2>3. \A p \in ch'.pending_deliveries : CommittedWith(p.delivery_id)' = {}
    BY <1>1, <1>2, <1>3 DEF IInv, DeliveriesPaidOnce, CommittedWith
  <2> QED
    BY <1>3, <2>2, <2>3 DEF IInv, DeliveriesPaidOnce
<1> QED
  BY <1>6, <1>7, <1>8, <1>9, <1>10, <1>11 DEF IInv

\* mark_finalized touches none of the amounts.
LEMMA FinalizedPreserves ==
  ASSUME IInv, TypeOK', MarkFinalized
  PROVE  IInv'
<1>1. /\ ch'.deposit = ch.deposit
      /\ ch'.cumulative = ch.cumulative
      /\ ch'.authorized_signer = ch.authorized_signer
      /\ ch'.highest_voucher_signature = ch.highest_voucher_signature
      /\ ch'.highest_voucher_expires_at = ch.highest_voucher_expires_at
      /\ ch'.close_requested = ch.close_requested
      /\ ch'.next_delivery_sequence = ch.next_delivery_sequence
      /\ ch'.pending_deliveries = ch.pending_deliveries
      /\ ch'.committed_deliveries = ch.committed_deliveries
      /\ UNCHANGED <<opens, task, now, acks, receipts, finals>>
  BY DEF MarkFinalized, IInv, TypeOK, ChannelState
<1>2. TaskInv'
  BY <1>1 DEF IInv, TaskInv, TaskGood, VoucherInFlight
<1>3. SequenceInv' /\ FinalsInv' /\ ReceiptsMatchRecord' /\ VouchersStayInDeposit'
  BY <1>1 DEF IInv, SequenceInv, FinalsInv, ReceiptsMatchRecord, VouchersStayInDeposit
<1>4. SettlementRedeemable'
  BY <1>1 DEF IInv, SettlementRedeemable
<1>5. AcknowledgedIsSettled'
  BY <1>1 DEF IInv, AcknowledgedIsSettled
<1>6. DeliveriesPaidOnce'
  BY <1>1 DEF IInv, DeliveriesPaidOnce, CommittedWith
<1> QED
  BY <1>2, <1>3, <1>4, <1>5, <1>6 DEF IInv

\* A step that gives one worker a good task, in a state in which the others'
\* tasks are still good, keeps every task good.
LEMMA TaskStep ==
  ASSUME TypeOK, NEW w \in Workers, NEW t, task' = [task EXCEPT ![w] = t],
         TaskGood(t, opens', ch'),
         \A u \in Workers : TaskGood(task[u], opens', ch')
  PROVE  TaskInv'
<1> SUFFICES ASSUME NEW u \in Workers PROVE TaskGood(task'[u], opens', ch')
  BY DEF TaskInv
<1>1. task'[u] = IF u = w THEN t ELSE task[u]
  BY DEF TypeOK
<1> QED
  BY <1>1

\* The first step of verify_voucher puts a checked voucher in flight.
LEMMA VoucherCheckPreserves ==
  ASSUME IInv, TypeOK', NEW v \in Vouchers, NEW w \in Workers, VerifyVoucherCheck(w, v)
  PROVE  IInv'
<1>1. /\ UNCHANGED <<opens, ch, now, acks, receipts, finals>>
      /\ task' = [task EXCEPT ![w] = [op |-> "voucher", voucher |-> v]]
      /\ opens > 0
      /\ v.cumulative > ch.cumulative /\ v.cumulative <= ch.deposit
      /\ v.channel_id = ChannelId
      /\ VerifySignature(v, ch.authorized_signer)
  BY DEF VerifyVoucherCheck, Finds, Present
<1>2. VoucherInFlight(v, opens, ch)
  BY <1>1, VoucherType DEF VoucherInFlight, VerifySignature, IInv, TypeOK, ChannelState
<1>3. TaskInv'
  <2>1. TaskGood([op |-> "voucher", voucher |-> v], opens, ch)
    BY <1>1, <1>2 DEF TaskGood
  <2> QED
    BY <1>1, <2>1, TaskStep DEF IInv, TaskInv
<1> QED
  BY <1>1, <1>3 DEF IInv, SequenceInv, FinalsInv, SettlementRedeemable,
     AcknowledgedIsSettled, DeliveriesPaidOnce, CommittedWith, ReceiptsMatchRecord,
     VouchersStayInDeposit

\* The first step of process_commit puts a checked voucher in flight, for a
\* delivery that was reserved.
LEMMA CommitCheckPreserves ==
  ASSUME IInv, TypeOK', NEW v \in Vouchers, NEW w \in Workers, NEW id,
         ProcessCommitCheck(w, v, id)
  PROVE  IInv'
<1> DEFINE t == [op |-> "commit", voucher |-> v, delivery_id |-> id, now |-> now]
<1>1. /\ UNCHANGED <<opens, ch, now, acks, receipts, finals>>
      /\ task' = [task EXCEPT ![w] = t]
      /\ opens > 0
      /\ v.cumulative > ch.cumulative
      /\ PendingWith(id) # {}
      /\ v.channel_id = ChannelId
      /\ VerifySignature(v, ch.authorized_signer)
  BY DEF ProcessCommitCheck, Finds, Present
<1>2. VoucherInFlight(v, opens, ch)
  BY <1>1, VoucherType DEF VoucherInFlight, VerifySignature, IInv, TypeOK, ChannelState
<1>3. ch.next_delivery_sequence > 0
  BY <1>1 DEF PendingWith, IInv, SequenceInv, TypeOK, ChannelState
<1>4. TaskInv'
  <2>1. TaskGood(t, opens, ch)
    BY <1>1, <1>2, <1>3 DEF TaskGood
  <2> QED
    BY <1>1, <2>1, TaskStep DEF IInv, TaskInv
<1> QED
  BY <1>1, <1>4 DEF IInv, SequenceInv, FinalsInv, SettlementRedeemable,
     AcknowledgedIsSettled, DeliveriesPaidOnce, CommittedWith, ReceiptsMatchRecord,
     VouchersStayInDeposit

\* The fields of the channel that the invariant speaks of, after a voucher was
\* stored by a step that changes nothing else in the channel.
LEMMA VoucherStored ==
  ASSUME IInv, NEW v \in Vouchers, ch' = WithVoucher(ch, v)
  PROVE  /\ ch'.cumulative = v.cumulative
         /\ ch'.highest_voucher_signature = v.signature
         /\ ch'.highest_voucher_expires_at = v.expires_at
         /\ ch'.authorized_signer = ch.authorized_signer
         /\ ch'.deposit = ch.deposit
         /\ ch'.finalized = ch.finalized
         /\ ch'.close_requested = ch.close_requested
         /\ ch'.next_delivery_sequence = ch.next_delivery_sequence
         /\ ch'.pending_deliveries = ch.pending_deliveries
         /\ ch'.committed_deliveries = ch.committed_deliveries
BY WithVoucherFields DEF IInv, TypeOK

\* Numbers are numbers.
LEMMA Numbers ==
  ASSUME TypeOK
  PROVE  /\ ch.cumulative \in Nat
         /\ ch.deposit \in Nat
         /\ ch.next_delivery_sequence \in Nat
         /\ opens \in Nat
         /\ \A a \in acks : a \in Nat
         /\ \A r \in receipts : r.cumulative \in Nat
         /\ \A f \in finals : f.settled \in Nat
         /\ \A p \in ch.pending_deliveries :
              p.sequence \in Nat /\ p.amount \in Nat /\ p.delivery_id \in Nat
         /\ \A c \in ch.committed_deliveries :
              c.amount \in Nat /\ c.cumulative \in Nat /\ c.delivery_id \in Nat
BY ConstantsAssumption
   DEF TypeOK, ChannelState, PendingDelivery, CommittedDelivery, Receipt, FinalizeParams

\* The last step of verify_voucher: the voucher that was checked is stored only
\* if it still raises the watermark of a channel that still accepts.
LEMMA VoucherApplyPreserves ==
  ASSUME IInv, TypeOK', NEW w \in Workers, VerifyVoucherApply(w)
  PROVE  IInv'
<1> DEFINE v == task[w].voucher
<1>1. /\ UNCHANGED <<opens, now, receipts, finals>>
      /\ task' = [task EXCEPT ![w] = Idle]
      /\ task[w].op = "voucher"
      /\ \/ /\ VoucherStillGood(v)
            /\ ch' = IF IsReplay(v) THEN ch ELSE WithVoucher(ch, v)
            /\ acks' = acks \cup {v.cumulative}
         \/ UNCHANGED <<ch, acks>>
  BY DEF VerifyVoucherApply, Respond
<1>2. v \in Vouchers
  BY <1>1, TaskFields DEF IInv, TypeOK
<1>3. v.cumulative \in Nat /\ v.signature # None
  BY <1>2, VoucherType
<1>4. /\ opens > 0
      /\ VoucherInFlight(v, opens, ch)
      /\ opens = 1 => v.cumulative <= ch.deposit
  BY <1>1 DEF IInv, TaskInv, TaskGood
<1>5. \A s : TaskGood(Idle, opens, s)
  BY DEF TaskGood, Idle
<1>6. CASE VoucherStillGood(v) /\ ~IsReplay(v) /\ ch' = WithVoucher(ch, v)
           /\ acks' = acks \cup {v.cumulative}
  <2>1. /\ v.cumulative > ch.cumulative
        /\ ~ch.close_requested
    BY <1>6 DEF VoucherStillGood, Accepting
  <2>2. TaskInv'
    BY <1>1, <1>2, <1>5, <1>6, VoucherStored, TaskStep
       DEF IInv, TaskInv, TaskGood, VoucherInFlight
  <2>3. SequenceInv' /\ FinalsInv' /\ ReceiptsMatchRecord' /\ VouchersStayInDeposit'
    BY <1>1, <1>2, <1>4, <1>6, VoucherStored
       DEF IInv, SequenceInv, FinalsInv, ReceiptsMatchRecord, VouchersStayInDeposit
  <2>4. SettlementRedeemable'
    BY <1>1, <1>2, <1>3, <1>4, <1>6, VoucherStored
       DEF SettlementRedeemable, VoucherInFlight
  <2>5. AcknowledgedIsSettled'
    <3>1. /\ \A a \in acks : a <= ch.cumulative
          /\ \A r \in receipts : r.cumulative <= ch.cumulative
      BY DEF IInv, AcknowledgedIsSettled
    <3>2. opens = 1 => finals = {}
      BY <2>1 DEF IInv, FinalsInv
    <3>3. ch'.cumulative = v.cumulative
      BY <1>2, <1>6, VoucherStored
    <3>4. /\ \A a \in acks' : a <= ch'.cumulative
          /\ \A r \in receipts' : r.cumulative <= ch'.cumulative
      <4> HIDE DEF v
      <4>1. ch.cumulative \in Nat /\ ch.cumulative < v.cumulative
        BY <2>1, Numbers DEF IInv
      <4>2. \A a \in acks : a \in Nat
        BY Numbers DEF IInv
      <4>3. \A r \in receipts : r.cumulative \in Nat
        BY Numbers DEF IInv
      <4> QED
        BY <1>1, <1>3, <1>6, <3>1, <3>3, <4>1, <4>2, <4>3
    <3> QED
      BY <1>1, <3>2, <3>4 DEF AcknowledgedIsSettled
  <2>6. DeliveriesPaidOnce'
    <3>1. \A c \in ch.committed_deliveries : c.cumulative <= v.cumulative
      BY <1>3, <2>1, Numbers DEF IInv, DeliveriesPaidOnce
    <3> QED
      BY <1>2, <1>6, <3>1, VoucherStored DEF IInv, DeliveriesPaidOnce, CommittedWith
  <2> QED
    BY <2>2, <2>3, <2>4, <2>5, <2>6 DEF IInv
<1>7. CASE ch' = ch /\ acks' \subseteq acks \cup {ch.cumulative}
  <2>1. TaskInv'
    BY <1>1, <1>5, <1>7, TaskStep DEF IInv, TaskInv
  <2>2. AcknowledgedIsSettled'
    BY <1>1, <1>7, Numbers DEF IInv, AcknowledgedIsSettled
  <2> QED
    BY <1>1, <1>7, <2>1, <2>2 DEF IInv, SequenceInv, FinalsInv, SettlementRedeemable,
       DeliveriesPaidOnce, CommittedWith, ReceiptsMatchRecord, VouchersStayInDeposit
<1> QED
  BY <1>1, <1>6, <1>7 DEF IsReplay

\* A request that changes no channel state and acknowledges what is recorded.
LEMMA ReplayPreserves ==
  ASSUME IInv, TypeOK', UNCHANGED <<opens, ch, task, finals>>,
         acks' \subseteq acks \cup {ch.cumulative},
         receipts' \subseteq receipts \cup {ReceiptFor(c) : c \in ch.committed_deliveries}
  PROVE  IInv'
<1>1. ReceiptsMatchRecord'
  BY DEF IInv, ReceiptsMatchRecord
<1>2. \A r \in receipts' : r.cumulative <= ch.cumulative
  <2>1. \A c \in ch.committed_deliveries : ReceiptFor(c).cumulative <= ch.cumulative
    BY DEF IInv, DeliveriesPaidOnce, ReceiptFor
  <2> QED
    BY <1>1, <2>1 DEF ReceiptsMatchRecord
<1>3. \A a \in acks' : a <= ch.cumulative
  BY Numbers DEF IInv, AcknowledgedIsSettled
<1>4. AcknowledgedIsSettled'
  BY <1>2, <1>3 DEF IInv, AcknowledgedIsSettled
<1> QED
  BY <1>1, <1>4 DEF IInv, TaskInv, TaskGood, VoucherInFlight, SequenceInv, FinalsInv,
     SettlementRedeemable, DeliveriesPaidOnce, CommittedWith, VouchersStayInDeposit

\* A first commit turns one reservation into one committed delivery that paid
\* with the range of the watermark above everything committed before.
LEMMA CommitDeliveryPreserves ==
  ASSUME IInv, TypeOK', NEW w \in Workers, task[w].op = "commit",
         CommitApplies(task[w]),
         NEW p \in PendingWith(task[w].delivery_id),
         CommitDelivery(p, task[w].voucher),
         task' = [task EXCEPT ![w] = Idle],
         UNCHANGED <<opens, now, acks, finals>>
  PROVE  IInv'
<1> DEFINE t == task[w]
           v == t.voucher
           c == [delivery_id |-> p.delivery_id,
                 amount |-> v.cumulative - ch.cumulative,
                 cumulative |-> v.cumulative,
                 voucher_signature |-> v.signature]
           s == WithVoucher(ch, v)
<1>1. v \in Vouchers
  BY TaskFields DEF IInv, TypeOK
<1>2. v.cumulative \in Nat /\ v.signature # None
  BY <1>1, VoucherType
<1>3. /\ opens > 0
      /\ VoucherInFlight(v, opens, ch)
      /\ opens = 1 => ch.next_delivery_sequence > 0
  BY DEF IInv, TaskInv, TaskGood
<1>4. /\ v.cumulative > ch.cumulative
      /\ ~ch.close_requested
      /\ CommittedWith(t.delivery_id) = {}
  BY DEF CommitApplies, Committable, Accepting
<1>5. /\ p \in ch.pending_deliveries
      /\ p.delivery_id = t.delivery_id
  BY DEF PendingWith
<1>6. /\ c.delivery_id = p.delivery_id
      /\ c.amount = v.cumulative - ch.cumulative
      /\ c.cumulative = v.cumulative
      /\ ReceiptFor(c).cumulative = v.cumulative
  BY DEF ReceiptFor
<1>7. /\ ch' = [s EXCEPT !.pending_deliveries = @ \ {p},
                         !.committed_deliveries = @ \cup {c}]
      /\ receipts' = receipts \cup {ReceiptFor(c)}
  BY DEF CommitDelivery
<1>8. s \in ChannelState
  BY <1>1, WithVoucherType DEF IInv, TypeOK
<1>9. /\ s.cumulative = v.cumulative
      /\ s.highest_voucher_signature = v.signature
      /\ s.highest_voucher_expires_at = v.expires_at
      /\ s.authorized_signer = ch.authorized_signer
      /\ s.deposit = ch.deposit
      /\ s.close_requested = ch.close_requested
      /\ s.next_delivery_sequence = ch.next_delivery_sequence
      /\ s.pending_deliveries = ch.pending_deliveries
      /\ s.committed_deliveries = ch.committed_deliveries
  BY <1>1, WithVoucherFields DEF IInv, TypeOK
<1> HIDE DEF s, c, v, t
<1>10. /\ ch'.cumulative = v.cumulative
       /\ ch'.highest_voucher_signature = v.signature
       /\ ch'.highest_voucher_expires_at = v.expires_at
       /\ ch'.authorized_signer = ch.authorized_signer
       /\ ch'.deposit = ch.deposit
       /\ ch'.close_requested = ch.close_requested
       /\ ch'.next_delivery_sequence = ch.next_delivery_sequence
       /\ ch'.pending_deliveries = ch.pending_deliveries \ {p}
       /\ ch'.committed_deliveries = ch.committed_deliveries \cup {c}
  BY <1>7, <1>8, <1>9 DEF ChannelState
<1>11. TaskInv'
  <2>1. TaskGood(Idle, opens', ch')
    BY DEF TaskGood, Idle
  <2>2. \A u \in Workers : TaskGood(task[u], opens', ch')
    BY <1>10 DEF IInv, TaskInv, TaskGood, VoucherInFlight
  <2> QED
    BY <2>1, <2>2, TaskStep DEF IInv
<1>12. ch.next_delivery_sequence # 0
  BY <1>5 DEF IInv, SequenceInv
<1>13. SequenceInv' /\ FinalsInv' /\ VouchersStayInDeposit'
  BY <1>10, <1>12 DEF IInv, SequenceInv, FinalsInv, VouchersStayInDeposit
<1>14. ReceiptsMatchRecord'
  BY <1>7, <1>10 DEF IInv, ReceiptsMatchRecord
<1>15. SettlementRedeemable'
  BY <1>2, <1>3, <1>10 DEF SettlementRedeemable, VoucherInFlight
<1>16. AcknowledgedIsSettled'
  <2>1. opens = 1 => finals = {}
    BY <1>4 DEF IInv, FinalsInv
  <2>2. /\ \A a \in acks : a <= ch.cumulative /\ a \in Nat
        /\ \A r \in receipts : r.cumulative <= ch.cumulative /\ r.cumulative \in Nat
        /\ ch.cumulative \in Nat
    BY Numbers DEF IInv, AcknowledgedIsSettled
  <2>3. /\ \A a \in acks' : a <= ch'.cumulative
        /\ \A r \in receipts' : r.cumulative <= ch'.cumulative
    BY <1>2, <1>4, <1>6, <1>7, <1>10, <2>2
  <2> QED
    BY <2>1, <2>3 DEF AcknowledgedIsSettled
<1>17. DeliveriesPaidOnce'
  <2>1. \A d \in ch.committed_deliveries :
          /\ 0 < d.amount /\ d.amount <= d.cumulative /\ d.cumulative <= ch.cumulative
          /\ d.amount \in Nat /\ d.cumulative \in Nat
          /\ d.delivery_id # p.delivery_id
    BY <1>4, <1>5, Numbers DEF IInv, DeliveriesPaidOnce, CommittedWith
  <2>2. ch.cumulative \in Nat
    BY Numbers DEF IInv
  <2>3. 0 < c.amount /\ c.amount <= c.cumulative
    BY <1>2, <1>4, <1>6, <2>2
  <2>4. \A d \in ch'.committed_deliveries :
          0 < d.amount /\ d.amount <= d.cumulative /\ d.cumulative <= ch'.cumulative
    BY <1>2, <1>4, <1>6, <1>10, <2>1, <2>2, <2>3
  <2>5. \A d \in ch.committed_deliveries :
          /\ d.delivery_id # c.delivery_id
          /\ d.cumulative <= c.cumulative - c.amount
    BY <1>2, <1>6, <2>1, <2>2
  <2>6. \A d, e \in ch'.committed_deliveries :
          d # e => /\ d.delivery_id # e.delivery_id
                   /\ \/ d.cumulative <= e.cumulative - e.amount
                      \/ e.cumulative <= d.cumulative - d.amount
    BY <1>10, <2>5 DEF IInv, DeliveriesPaidOnce
  <2>7. \A q \in ch'.pending_deliveries : CommittedWith(q.delivery_id)' = {}
    BY <1>5, <1>6, <1>10 DEF IInv, DeliveriesPaidOnce, CommittedWith
  <2>8. \A q, r \in ch'.pending_deliveries :
          q.delivery_id = r.delivery_id \/ q.sequence = r.sequence => q = r
    BY <1>10 DEF IInv, DeliveriesPaidOnce
  <2> QED
    BY <2>4, <2>6, <2>7, <2>8 DEF DeliveriesPaidOnce
<1> QED
  BY <1>11, <1>13, <1>14, <1>15, <1>16, <1>17 DEF IInv

\* A request that ends without changing the channel frees its worker.
LEMMA AnswerPreserves ==
  ASSUME IInv, TypeOK', NEW w \in Workers, task' = [task EXCEPT ![w] = Idle],
         UNCHANGED <<opens, ch, acks, finals>>,
         receipts' \subseteq receipts \cup {ReceiptFor(c) : c \in ch.committed_deliveries}
  PROVE  IInv'
<1>1. ReceiptsMatchRecord'
  BY DEF IInv, ReceiptsMatchRecord
<1>2. \A r \in receipts' : r.cumulative <= ch.cumulative
  <2>1. \A c \in ch.committed_deliveries : ReceiptFor(c).cumulative <= ch.cumulative
    BY DEF IInv, DeliveriesPaidOnce, ReceiptFor
  <2> QED
    BY <1>1, <2>1 DEF ReceiptsMatchRecord
<1>3. AcknowledgedIsSettled'
  BY <1>2 DEF IInv, AcknowledgedIsSettled
<1>4. TaskGood(Idle, opens', ch')
  BY DEF TaskGood, Idle
<1>5. TaskInv'
  BY <1>4, TaskStep DEF IInv, TaskInv
<1> QED
  BY <1>1, <1>3, <1>5 DEF IInv, SequenceInv, FinalsInv,
     SettlementRedeemable, DeliveriesPaidOnce, CommittedWith, VouchersStayInDeposit

\* process_close with a new final voucher, the stored one again, or none.
LEMMA ClosePreserves ==
  ASSUME IInv, TypeOK', NEW w \in Workers, NEW v \in Vouchers \cup {None},
         ProcessClose(w, v)
  PROVE  IInv'
<1> DEFINE s == AfterFinalVoucher(v)
<1>1. /\ UNCHANGED <<opens, now, acks, receipts, finals>>
      /\ opens > 0
      /\ ~ch.close_requested
      /\ ch' = [s EXCEPT !.close_requested = TRUE]
      /\ task' = [task EXCEPT ![w] = [op |-> "close"]]
  BY DEF ProcessClose, Present, Accepting
<1>2. s \in ChannelState
  BY WithVoucherType DEF AfterFinalVoucher, IInv, TypeOK
<1>3. /\ s.authorized_signer = ch.authorized_signer
      /\ s.deposit = ch.deposit
      /\ s.next_delivery_sequence = ch.next_delivery_sequence
      /\ s.pending_deliveries = ch.pending_deliveries
      /\ s.committed_deliveries = ch.committed_deliveries
  BY WithVoucherFields DEF AfterFinalVoucher, IInv, TypeOK
<1>4. /\ s.cumulative >= ch.cumulative
      /\ \/ /\ s.cumulative = ch.cumulative
            /\ s.highest_voucher_signature = ch.highest_voucher_signature
            /\ s.highest_voucher_expires_at = ch.highest_voucher_expires_at
         \/ /\ s.cumulative > 0
            /\ s.cumulative <= ch.deposit
            /\ s.highest_voucher_signature # None
            /\ s.highest_voucher_signature.cumulative = s.cumulative
            /\ s.highest_voucher_signature.expires_at = s.highest_voucher_expires_at
            /\ s.highest_voucher_signature.signer = ch.authorized_signer
  <2>1. ch.cumulative \in Nat
    BY Numbers DEF IInv
  <2>2. CASE v = None \/ IsReplay(v)
    BY <2>1, <2>2 DEF AfterFinalVoucher
  <2>3. CASE ~(v = None \/ IsReplay(v))
    <3>1. /\ v \in Vouchers
          /\ v.cumulative > ch.cumulative
          /\ v.cumulative <= ch.deposit
          /\ VerifySignature(v, ch.authorized_signer)
      BY <2>3 DEF ProcessClose, FinalVoucherOk
    <3>2. /\ v.cumulative \in Nat
          /\ v.signature # None
          /\ v.signature.cumulative = v.cumulative
          /\ v.signature.expires_at = v.expires_at
          /\ v.signature.signer = ch.authorized_signer
      BY <3>1, VoucherType DEF VerifySignature
    <3>3. s = WithVoucher(ch, v)
      BY <2>3 DEF AfterFinalVoucher
    <3>4. /\ s.cumulative = v.cumulative
          /\ s.highest_voucher_signature = v.signature
          /\ s.highest_voucher_expires_at = v.expires_at
      BY <3>1, <3>3, WithVoucherFields DEF IInv, TypeOK
    <3> HIDE DEF s
    <3> QED
      BY <2>1, <3>1, <3>2, <3>4
  <2> QED
    BY <2>2, <2>3
<1> HIDE DEF s
<1>5. /\ ch'.cumulative = s.cumulative
      /\ ch'.highest_voucher_signature = s.highest_voucher_signature
      /\ ch'.highest_voucher_expires_at = s.highest_voucher_expires_at
      /\ ch'.authorized_signer = ch.authorized_signer
      /\ ch'.deposit = ch.deposit
      /\ ch'.close_requested = TRUE
      /\ ch'.next_delivery_sequence = ch.next_delivery_sequence
      /\ ch'.pending_deliveries = ch.pending_deliveries
      /\ ch'.committed_deliveries = ch.committed_deliveries
  BY <1>1, <1>2, <1>3 DEF ChannelState
<1>6. ch.cumulative \in Nat /\ s.cumulative \in Nat
  BY <1>2, Numbers DEF IInv, ChannelState
<1>7. TaskInv'
  <2>1. TaskGood([op |-> "close"], opens', ch')
    BY <1>1, <1>5 DEF TaskGood
  <2>2. \A u \in Workers : TaskGood(task[u], opens', ch')
    BY <1>1, <1>5 DEF IInv, TaskInv, TaskGood, VoucherInFlight
  <2> QED
    BY <1>1, <2>1, <2>2, TaskStep DEF IInv
<1>8. SequenceInv' /\ FinalsInv' /\ ReceiptsMatchRecord'
  BY <1>1, <1>5 DEF IInv, SequenceInv, FinalsInv, ReceiptsMatchRecord
<1>9. VouchersStayInDeposit'
  BY <1>1, <1>4, <1>5 DEF IInv, VouchersStayInDeposit
<1>10. SettlementRedeemable'
  BY <1>1, <1>4, <1>5 DEF IInv, SettlementRedeemable
<1>11. AcknowledgedIsSettled'
  <2>1. opens = 1 => finals = {}
    BY <1>1 DEF IInv, FinalsInv
  <2>2. /\ \A a \in acks : a <= ch.cumulative /\ a \in Nat
        /\ \A r \in receipts : r.cumulative <= ch.cumulative /\ r.cumulative \in Nat
    BY Numbers DEF IInv, AcknowledgedIsSettled
  <2>3. /\ \A a \in acks' : a <= ch'.cumulative
        /\ \A r \in receipts' : r.cumulative <= ch'.cumulative
    BY <1>1, <1>4, <1>5, <1>6, <2>2
  <2> QED
    BY <1>1, <2>1, <2>3 DEF AcknowledgedIsSettled
<1>12. DeliveriesPaidOnce'
  <2>1. \A c \in ch.committed_deliveries : c.cumulative <= s.cumulative
    BY <1>4, <1>6, Numbers DEF IInv, DeliveriesPaidOnce
  <2> QED
    BY <1>5, <2>1 DEF IInv, DeliveriesPaidOnce, CommittedWith
<1> QED
  BY <1>7, <1>8, <1>9, <1>10, <1>11, <1>12 DEF IInv

\* The reply of process_close reads the channel again: it is still the closed
\* one if the id was not opened again.
LEMMA CloseReplyPreserves ==
  ASSUME IInv, TypeOK', NEW w \in Workers, ProcessCloseReply(w)
  PROVE  IInv'
<1> DEFINE f == [settled |-> ch.cumulative,
                 voucher_signature |-> ch.highest_voucher_signature,
                 voucher_expires_at |-> ch.highest_voucher_expires_at]
<1>1. /\ task[w].op = "close"
      /\ finals' = finals \cup {f}
      /\ task' = [task EXCEPT ![w] = Idle]
      /\ UNCHANGED <<opens, ch, now, acks, receipts>>
  BY DEF ProcessCloseReply, Respond
<1>2. opens > 0 /\ (opens = 1 => ch.close_requested)
  BY <1>1 DEF IInv, TaskInv, TaskGood
<1>3. TaskInv'
  <2>1. TaskGood(Idle, opens', ch')
    BY DEF TaskGood, Idle
  <2> QED
    BY <1>1, <2>1, TaskStep DEF IInv, TaskInv
<1>4. FinalsInv'
  BY <1>1, <1>2 DEF FinalsInv
<1>5. AcknowledgedIsSettled'
  BY <1>1 DEF IInv, AcknowledgedIsSettled
<1> QED
  BY <1>1, <1>3, <1>4, <1>5 DEF IInv, SequenceInv, SettlementRedeemable,
     DeliveriesPaidOnce, CommittedWith, ReceiptsMatchRecord, VouchersStayInDeposit

\* Every step of the server keeps the inductive invariant.
LEMMA IndNext == IInv /\ [Next]_vars => IInv'
<1> SUFFICES ASSUME IInv, [Next]_vars PROVE IInv'
  OBVIOUS
<1>1. TypeOK'
  BY TypeNext DEF IInv
<1>2. CASE UNCHANGED vars \/ Tick
  BY <1>1, <1>2, ReplayPreserves DEF vars, Tick
<1>3. CASE Host
  BY <1>1, <1>3, OpenPreserves, TopupPreserves, BeginPreserves, FinalizedPreserves
     DEF Host
<1>4. CASE Client
  <2>1. ASSUME NEW v \in Vouchers, VerifyVoucherReplay(v) PROVE IInv'
    BY <1>1, <2>1, ReplayPreserves DEF VerifyVoucherReplay, IsReplay
  <2>2. ASSUME NEW v \in Vouchers, NEW id, ProcessCommitReplay(v, id) PROVE IInv'
    BY <1>1, <2>2, ReplayPreserves DEF ProcessCommitReplay, CommittedWith
  <2> QED
    BY <1>1, <1>4, <2>1, <2>2, VoucherCheckPreserves, CommitCheckPreserves DEF Client
<1>5. CASE Worker
  <2>1. ASSUME NEW w \in Workers, ProcessCommitApply(w) PROVE IInv'
    <3>1. /\ task[w].op = "commit"
          /\ task' = [task EXCEPT ![w] = Idle]
          /\ UNCHANGED <<opens, now, acks, finals>>
      BY <2>1 DEF ProcessCommitApply, Respond
    <3>2. CASE /\ CommitApplies(task[w])
               /\ \E p \in PendingWith(task[w].delivery_id) :
                    CommitDelivery(p, task[w].voucher)
      BY <1>1, <3>1, <3>2, CommitDeliveryPreserves
    <3>3. CASE /\ \E c \in CommittedWith(task[w].delivery_id) :
                    receipts' = receipts \cup {ReceiptFor(c)}
               /\ UNCHANGED ch
      BY <1>1, <3>1, <3>3, AnswerPreserves DEF CommittedWith
    <3>4. CASE UNCHANGED <<ch, receipts>>
      BY <1>1, <3>1, <3>4, AnswerPreserves
    <3> QED
      BY <2>1, <3>2, <3>3, <3>4 DEF ProcessCommitApply
  <2> QED
    BY <1>1, <1>5, <2>1, VoucherApplyPreserves, ClosePreserves, CloseReplyPreserves
       DEF Worker
<1> QED
  BY <1>2, <1>3, <1>4, <1>5 DEF Next

\* The inductive invariant holds in every reachable state.
THEOREM Invariance == Spec => []IInv
BY IndInit, IndNext, PTL DEF Spec

-----------------------------------------------------------------------------
(* The results. *)

\* What process_close and finalize_params hand to the settlement transaction is
\* always a voucher its signer really made for exactly that amount, and for this
\* channel: unless a close stored it, which compares no channel ids.
THEOREM SettlementTheorem == Spec => []SettlementRedeemable
<1>1. IInv => SettlementRedeemable
  BY DEF IInv
<1> QED
  BY <1>1, Invariance, PTL

\* Nothing acknowledged by verify_voucher or process_commit is lost, and closing
\* settles all of it.
THEOREM AcknowledgedTheorem == Spec => []AcknowledgedIsSettled
<1>1. IInv => AcknowledgedIsSettled
  BY DEF IInv
<1> QED
  BY <1>1, Invariance, PTL

\* Each delivery is paid for at most once, with its own range of the watermark.
THEOREM DeliveriesTheorem == Spec => []DeliveriesPaidOnce
<1>1. IInv => DeliveriesPaidOnce
  BY DEF IInv
<1> QED
  BY <1>1, Invariance, PTL

\* Every receipt agrees with the record of committed deliveries.
THEOREM ReceiptsTheorem == Spec => []ReceiptsMatchRecord
<1>1. IInv => ReceiptsMatchRecord
  BY DEF IInv
<1> QED
  BY <1>1, Invariance, PTL

\* Without deliveries, concurrent vouchers never push the watermark of a channel
\* opened once beyond its deposit.
THEOREM DepositTheorem == Spec => []VouchersStayInDeposit
<1>1. IInv => VouchersStayInDeposit
  BY DEF IInv
<1> QED
  BY <1>1, Invariance, PTL

\* What one step may do to the amounts of a channel that is not opened again, and
\* what it may do once the channel stopped accepting.
Monotone ==
  opens' = opens =>
    /\ ch'.cumulative >= ch.cumulative
    /\ ch'.deposit >= ch.deposit
    /\ ch.committed_deliveries \subseteq ch'.committed_deliveries

Frozen ==
  Present /\ ~Accepting /\ opens' = opens =>
    /\ ~Accepting'
    /\ ch'.cumulative = ch.cumulative
    /\ ch'.highest_voucher_signature = ch.highest_voucher_signature
    /\ ch'.highest_voucher_expires_at = ch.highest_voucher_expires_at
    /\ ch'.pending_deliveries = ch.pending_deliveries
    /\ ch'.committed_deliveries = ch.committed_deliveries

\* Each action that changes the channel either opens it anew, raises what it
\* changes, or is guarded by Accepting.
LEMMA StepEffect == TypeOK /\ [Next]_vars => Monotone /\ Frozen
<1> SUFFICES ASSUME TypeOK, [Next]_vars PROVE Monotone /\ Frozen
  OBVIOUS
<1>1. ch.cumulative \in Nat /\ ch.deposit \in Nat /\ opens \in Nat
  BY Numbers
<1>2. CASE ch' = ch
  BY <1>1, <1>2 DEF Monotone, Frozen, Accepting
<1>3. ASSUME NEW mode, NEW signer, NEW deposit, NEW status,
             ProcessOpen(mode, signer, deposit, status)
      PROVE  Monotone /\ Frozen
  BY <1>1, <1>3 DEF ProcessOpen, Monotone, Frozen
<1>4. ASSUME NEW deposit \in Deposits, ProcessTopup(deposit)
      PROVE  Monotone /\ Frozen
  <2>1. /\ ch'.deposit > ch.deposit /\ ch'.deposit \in Nat
        /\ ch'.cumulative = ch.cumulative
        /\ ch'.finalized = ch.finalized
        /\ ch'.close_requested = ch.close_requested
        /\ ch'.highest_voucher_signature = ch.highest_voucher_signature
        /\ ch'.highest_voucher_expires_at = ch.highest_voucher_expires_at
        /\ ch'.pending_deliveries = ch.pending_deliveries
        /\ ch'.committed_deliveries = ch.committed_deliveries
    BY <1>4, ConstantsAssumption DEF ProcessTopup, TypeOK, ChannelState
  <2> QED
    BY <1>1, <2>1 DEF Monotone, Frozen, Accepting
<1>5. ASSUME NEW amount, NEW requested, NEW expires_at,
             BeginDelivery(amount, requested, expires_at)
      PROVE  Monotone /\ Frozen
  <2>1. /\ ch'.cumulative = ch.cumulative
        /\ ch'.deposit = ch.deposit
        /\ ch'.committed_deliveries = ch.committed_deliveries
        /\ Accepting
    BY <1>5 DEF BeginDelivery, TypeOK, ChannelState
  <2> QED
    BY <1>1, <2>1 DEF Monotone, Frozen
<1>6. ASSUME MarkFinalized PROVE Monotone /\ Frozen
  <2>1. /\ ch'.deposit = ch.deposit
        /\ ch'.cumulative = ch.cumulative
        /\ ch'.finalized = TRUE
        /\ ch'.highest_voucher_signature = ch.highest_voucher_signature
        /\ ch'.highest_voucher_expires_at = ch.highest_voucher_expires_at
        /\ ch'.pending_deliveries = ch.pending_deliveries
        /\ ch'.committed_deliveries = ch.committed_deliveries
    BY <1>6 DEF MarkFinalized, TypeOK, ChannelState
  <2> QED
    BY <1>1, <2>1 DEF Monotone, Frozen, Accepting
<1>7. ASSUME NEW w \in Workers, VerifyVoucherApply(w), ch' # ch
      PROVE  Monotone /\ Frozen
  <2> DEFINE v == task[w].voucher
  <2>1. v \in Vouchers
    BY <1>7, TaskFields DEF VerifyVoucherApply, TypeOK
  <2>2. /\ ch' = WithVoucher(ch, v)
        /\ v.cumulative > ch.cumulative
        /\ Accepting
    BY <1>7 DEF VerifyVoucherApply, VoucherStillGood
  <2>3. /\ ch'.cumulative = v.cumulative
        /\ ch'.deposit = ch.deposit
        /\ ch'.committed_deliveries = ch.committed_deliveries
    BY <2>1, <2>2, WithVoucherFields DEF TypeOK
  <2> QED
    BY <1>1, <2>1, <2>2, <2>3, VoucherType DEF Monotone, Frozen
<1>8. ASSUME NEW w \in Workers, ProcessCommitApply(w), ch' # ch
      PROVE  Monotone /\ Frozen
  <2> DEFINE v == task[w].voucher
  <2>1. v \in Vouchers
    BY <1>8, TaskFields DEF ProcessCommitApply, TypeOK
  <2>2. PICK p : CommitDelivery(p, v)
    BY <1>8 DEF ProcessCommitApply
  <2>3. v.cumulative > ch.cumulative /\ Accepting
    BY <1>8 DEF ProcessCommitApply, CommitApplies, Committable
  <2> DEFINE s == WithVoucher(ch, v)
  <2>4. /\ s \in ChannelState
        /\ s.cumulative = v.cumulative
        /\ s.deposit = ch.deposit
        /\ s.committed_deliveries = ch.committed_deliveries
    BY <2>1, WithVoucherType, WithVoucherFields DEF TypeOK
  <2>5. PICK c : ch' = [s EXCEPT !.pending_deliveries = @ \ {p},
                                 !.committed_deliveries = @ \cup {c}]
    BY <2>2 DEF CommitDelivery
  <2> HIDE DEF s
  <2>6. /\ ch'.cumulative = v.cumulative
        /\ ch'.deposit = ch.deposit
        /\ ch.committed_deliveries \subseteq ch'.committed_deliveries
    BY <2>4, <2>5 DEF ChannelState
  <2> QED
    BY <1>1, <2>1, <2>3, <2>6, VoucherType DEF Monotone, Frozen
<1>9. ASSUME NEW w \in Workers, NEW v \in Vouchers \cup {None}, ProcessClose(w, v)
      PROVE  Monotone /\ Frozen
  <2> DEFINE s == AfterFinalVoucher(v)
  <2>1. /\ s \in ChannelState
        /\ s.deposit = ch.deposit
        /\ s.committed_deliveries = ch.committed_deliveries
    BY WithVoucherType, WithVoucherFields DEF AfterFinalVoucher, TypeOK
  <2>2. s.cumulative >= ch.cumulative
    <3>1. CASE s = ch
      BY <1>1, <3>1
    <3>2. CASE v \in Vouchers /\ v # None /\ ~IsReplay(v) /\ s = WithVoucher(ch, v)
      <4>1. v.cumulative > ch.cumulative
        BY <1>9, <3>2 DEF ProcessClose, FinalVoucherOk
      <4>2. s.cumulative = v.cumulative /\ v.cumulative \in Nat
        BY <3>2, WithVoucherFields, VoucherType DEF TypeOK
      <4> QED
        BY <1>1, <4>1, <4>2
    <3> QED
      BY <3>1, <3>2 DEF AfterFinalVoucher
  <2>3. ch' = [s EXCEPT !.close_requested = TRUE] /\ Accepting
    BY <1>9 DEF ProcessClose
  <2> HIDE DEF s
  <2>4. /\ ch'.cumulative = s.cumulative
        /\ ch'.deposit = s.deposit
        /\ ch'.committed_deliveries = s.committed_deliveries
    BY <2>1, <2>3 DEF ChannelState
  <2> QED
    BY <1>1, <2>1, <2>2, <2>3, <2>4 DEF Monotone, Frozen
<1>10. CASE Host
  BY <1>3, <1>4, <1>5, <1>6, <1>10 DEF Host
<1>11. CASE Client
  BY <1>2, <1>11 DEF Client, VerifyVoucherReplay, ProcessCommitReplay,
     VerifyVoucherCheck, ProcessCommitCheck
<1>12. CASE Worker
  BY <1>2, <1>7, <1>8, <1>9, <1>12 DEF Worker, ProcessCloseReply
<1>13. CASE UNCHANGED vars \/ Tick
  BY <1>2, <1>13 DEF vars, Tick
<1> QED
  BY <1>10, <1>11, <1>12, <1>13 DEF Next

\* Between two opens, what the server has accepted never goes back.
THEOREM MonotoneTheorem == Spec => WatermarkMonotone
<1>1. TypeOK /\ [Next]_vars =>
        [opens' = opens =>
           /\ ch'.cumulative >= ch.cumulative
           /\ ch'.deposit >= ch.deposit
           /\ ch.committed_deliveries \subseteq ch'.committed_deliveries]_vars
  BY StepEffect DEF Monotone
<1> QED
  BY <1>1, TypeCorrect, PTL DEF Spec, WatermarkMonotone

\* No request in flight at the close changes what is settled.
THEOREM FrozenTheorem == Spec => ClosedIsFrozen
<1>1. TypeOK /\ [Next]_vars =>
        [Present /\ ~Accepting /\ opens' = opens =>
           /\ ~Accepting'
           /\ ch'.cumulative = ch.cumulative
           /\ ch'.highest_voucher_signature = ch.highest_voucher_signature
           /\ ch'.highest_voucher_expires_at = ch.highest_voucher_expires_at
           /\ ch'.pending_deliveries = ch.pending_deliveries
           /\ ch'.committed_deliveries = ch.committed_deliveries]_vars
  BY StepEffect DEF Frozen
<1> QED
  BY <1>1, TypeCorrect, PTL DEF Spec, ClosedIsFrozen

-----------------------------------------------------------------------------
(***************************************************************************)
(* Part 2: totals over a finite set of deliveries, and the exposure.       *)
(***************************************************************************)

(* Induction, with a set in the place of the predicate. *)

\* A set that holds 0 and the successor of each of its numbers holds them all.
LEMMA NatSets ==
  ASSUME NEW T, 0 \in T, \A n \in Nat : n \in T => n + 1 \in T
  PROVE  \A n \in Nat : n \in T
<1> SUFFICES ASSUME Nat \ T # {} PROVE FALSE
  OBVIOUS
<1>1. PICK x \in Nat \ T : \A y \in Nat \ T : ~(<<y, x>> \in OpToRel(<, Nat))
  BY WFMin, NatLessThanWellFounded
<1>2. x # 0 /\ x - 1 \in Nat /\ x - 1 < x
  OBVIOUS
<1>3. x - 1 \in T
  <2> SUFFICES ASSUME x - 1 \notin T PROVE FALSE
    OBVIOUS
  <2>1. <<x - 1, x>> \in OpToRel(<, Nat)
    BY <1>2 DEF OpToRel
  <2> QED BY <1>1, <1>2, <2>1
<1>4. x - 1 + 1 \in T
  BY <1>2, <1>3
<1> QED BY <1>4

-----------------------------------------------------------------------------
(* The total of a set of deliveries does not depend on the order of addition. *)

\* The element the fold takes next.
First(s) == CHOOSE x \in s : TRUE

LEMMA FirstIn == \A s : s # {} => First(s) \in s
BY DEF First

\* f computes totals on the subsets of S with at most n elements.
TotalsUpTo(f, S, n) ==
  \A s \in SUBSET S :
    Cardinality(s) <= n =>
      f[s] = IF s = {} THEN 0 ELSE First(s).amount + f[s \ {First(s)}]

\* f computes totals on all subsets of S.
Totals(f, S) ==
  f = [s \in SUBSET S |-> IF s = {} THEN 0 ELSE First(s).amount + f[s \ {First(s)}]]

\* Taking the first element out leaves a smaller set.
LEMMA WithoutFirst ==
  ASSUME NEW S, IsFiniteSet(S), NEW s \in SUBSET S, s # {}
  PROVE  /\ IsFiniteSet(s) /\ Cardinality(s) \in Nat \ {0}
         /\ s \ {First(s)} \in SUBSET S
         /\ Cardinality(s \ {First(s)}) = Cardinality(s) - 1
<1>1. IsFiniteSet(s) /\ Cardinality(s) \in Nat
  BY FS_Subset, FS_CardinalityType
<1>2. Cardinality(s) # 0
  BY <1>1, FS_EmptySet
<1>3. Cardinality(s \ {First(s)}) = Cardinality(s) - 1
  BY <1>1, FirstIn, FS_RemoveElement
<1> QED BY <1>1, <1>2, <1>3

\* A function that computes totals exists on every finite set.
LEMMA TotalsExist ==
  ASSUME NEW S, IsFiniteSet(S)
  PROVE  \E f : Totals(f, S)
<1> DEFINE T == {n \in Nat : \E f : TotalsUpTo(f, S, n)}
<1>1. 0 \in T
  <2> DEFINE f == [s \in SUBSET S |-> 0]
  <2>1. ASSUME NEW s \in SUBSET S, Cardinality(s) <= 0
        PROVE  s = {}
    <3>1. s # {} => Cardinality(s) \in Nat \ {0}
      BY WithoutFirst
    <3> QED BY <2>1, <3>1
  <2>2. TotalsUpTo(f, S, 0)
    BY <2>1 DEF TotalsUpTo
  <2> QED BY <2>2
<1>2. ASSUME NEW n \in Nat, n \in T
      PROVE  n + 1 \in T
  <2>1. PICK f : TotalsUpTo(f, S, n)
    BY <1>2
  <2> DEFINE g == [s \in SUBSET S |-> IF Cardinality(s) <= n THEN f[s]
                                      ELSE First(s).amount + f[s \ {First(s)}]]
  <2>2. ASSUME NEW s \in SUBSET S, Cardinality(s) <= n + 1
        PROVE  g[s] = IF s = {} THEN 0 ELSE First(s).amount + g[s \ {First(s)}]
    <3>1. CASE s = {}
      BY <2>1, <3>1, FS_EmptySet DEF TotalsUpTo
    <3>2. CASE s # {}
      <4>1. /\ s \ {First(s)} \in SUBSET S /\ Cardinality(s) \in Nat
            /\ Cardinality(s \ {First(s)}) = Cardinality(s) - 1
        BY <3>2, WithoutFirst
      <4>2. Cardinality(s \ {First(s)}) <= n
        BY <2>2, <4>1
      <4>3. g[s \ {First(s)}] = f[s \ {First(s)}]
        BY <4>1, <4>2
      <4>4. g[s] = First(s).amount + f[s \ {First(s)}]
        <5>1. CASE Cardinality(s) <= n
          BY <2>1, <3>2, <5>1 DEF TotalsUpTo
        <5>2. CASE ~(Cardinality(s) <= n)
          BY <5>2
        <5> QED BY <5>1, <5>2
      <4> QED BY <3>2, <4>3, <4>4
    <3> QED BY <3>1, <3>2
  <2> HIDE DEF g
  <2>3. TotalsUpTo(g, S, n + 1)
    BY <2>2 DEF TotalsUpTo
  <2> QED BY <2>3
<1> HIDE DEF T
<1>3. Cardinality(S) \in T
  BY <1>1, <1>2, NatSets, FS_CardinalityType
<1>4. PICK f : TotalsUpTo(f, S, Cardinality(S))
  BY <1>3 DEF T
<1> DEFINE h == [s \in SUBSET S |-> f[s]]
<1>5. ASSUME NEW s \in SUBSET S
      PROVE  h[s] = IF s = {} THEN 0 ELSE First(s).amount + h[s \ {First(s)}]
  BY <1>4, FS_Subset DEF TotalsUpTo
<1>6. h = [s \in SUBSET S |-> IF s = {} THEN 0 ELSE First(s).amount + h[s \ {First(s)}]]
  <2>1. h = [s \in SUBSET S |-> h[s]]
    OBVIOUS
  <2> HIDE DEF h
  <2> QED BY <1>5, <2>1
<1> QED BY <1>6 DEF Totals

\* Two functions that compute totals agree on what both are defined for.
LEMMA TotalsAgree ==
  ASSUME NEW S, IsFiniteSet(S), NEW R \in SUBSET S, NEW f, NEW g, Totals(f, S), Totals(g, R)
  PROVE  \A s \in SUBSET R : f[s] = g[s]
<1> DEFINE T == {n \in Nat : \A s \in SUBSET R : Cardinality(s) = n => f[s] = g[s]}
<1>1. ASSUME NEW s \in SUBSET R
      PROVE  /\ s \in SUBSET S /\ IsFiniteSet(s) /\ Cardinality(s) \in Nat
             /\ f[s] = IF s = {} THEN 0 ELSE First(s).amount + f[s \ {First(s)}]
             /\ g[s] = IF s = {} THEN 0 ELSE First(s).amount + g[s \ {First(s)}]
  <2>1. s \in SUBSET S
    OBVIOUS
  <2>2. IsFiniteSet(s) /\ Cardinality(s) \in Nat
    BY <2>1, FS_Subset, FS_CardinalityType
  <2>3. f[s] = IF s = {} THEN 0 ELSE First(s).amount + f[s \ {First(s)}]
    BY <2>1 DEF Totals
  <2>4. g[s] = IF s = {} THEN 0 ELSE First(s).amount + g[s \ {First(s)}]
    BY DEF Totals
  <2> QED BY <2>1, <2>2, <2>3, <2>4
<1>2. 0 \in T
  <2> SUFFICES ASSUME NEW s \in SUBSET R, Cardinality(s) = 0
               PROVE  f[s] = g[s]
    OBVIOUS
  <2>1. s = {}
    BY <1>1, FS_EmptySet
  <2> QED BY <1>1, <2>1
<1>3. ASSUME NEW n \in Nat, n \in T
      PROVE  n + 1 \in T
  <2> SUFFICES ASSUME NEW s \in SUBSET R, Cardinality(s) = n + 1
               PROVE  f[s] = g[s]
    OBVIOUS
  <2>1. s # {}
    BY FS_EmptySet
  <2>2. Cardinality(s \ {First(s)}) = n /\ s \ {First(s)} \in SUBSET R
    BY <1>1, <2>1, WithoutFirst
  <2>3. f[s \ {First(s)}] = g[s \ {First(s)}]
    BY <1>3, <2>2
  <2> QED BY <1>1, <2>1, <2>3
<1> HIDE DEF T
<1>4. \A n \in Nat : n \in T
  BY <1>2, <1>3, NatSets
<1> QED BY <1>1, <1>4 DEF T

\* TotalAmount is computed by such a function.
LEMMA TotalIsComputed ==
  ASSUME NEW S, IsFiniteSet(S)
  PROVE  \E f : Totals(f, S) /\ TotalAmount(S) = f[S]
BY TotalsExist DEF Totals, First, TotalAmount, MapThenSumSet, MapThenFoldSet

LEMMA TotalEmpty == TotalAmount({}) = 0
<1>1. PICK f : Totals(f, {}) /\ TotalAmount({}) = f[{}]
  BY FS_EmptySet, TotalIsComputed
<1> QED BY <1>1 DEF Totals

LEMMA TotalFirst ==
  ASSUME NEW S, IsFiniteSet(S), S # {}
  PROVE  TotalAmount(S) = First(S).amount + TotalAmount(S \ {First(S)})
<1> DEFINE R == S \ {First(S)}
<1>1. PICK f : Totals(f, S) /\ TotalAmount(S) = f[S]
  BY TotalIsComputed
<1>2. R \in SUBSET S /\ IsFiniteSet(R)
  BY FS_Subset
<1> HIDE DEF R
<1>3. PICK g : Totals(g, R) /\ TotalAmount(R) = g[R]
  BY <1>2, TotalIsComputed
<1>4. f[R] = g[R]
  BY <1>1, <1>2, <1>3, TotalsAgree
<1>5. f[S] = First(S).amount + f[R]
  BY <1>1 DEF Totals, R
<1> QED BY <1>1, <1>3, <1>4, <1>5 DEF R

\* Deliveries whose amounts are numbers.
Amounted(S) == IsFiniteSet(S) /\ \A d \in S : d.amount \in Nat

\* A total is a number, and any delivery can be taken out of it.
LEMMA TotalWithout ==
  ASSUME NEW S, Amounted(S)
  PROVE  /\ TotalAmount(S) \in Nat
         /\ \A x \in S : TotalAmount(S) = x.amount + TotalAmount(S \ {x})
<1> DEFINE Good(s) == /\ TotalAmount(s) \in Nat
                      /\ \A x \in s : TotalAmount(s) = x.amount + TotalAmount(s \ {x})
           T == {n \in Nat : \A s \in SUBSET S : Cardinality(s) <= n => Good(s)}
<1>1. ASSUME NEW s \in SUBSET S
      PROVE  IsFiniteSet(s) /\ Cardinality(s) \in Nat /\ \A d \in s : d.amount \in Nat
  BY FS_Subset, FS_CardinalityType DEF Amounted
<1>2. 0 \in T
  <2> SUFFICES ASSUME NEW s \in SUBSET S, Cardinality(s) <= 0
               PROVE  Good(s)
    OBVIOUS
  <2>1. s = {}
    BY <1>1, FS_EmptySet
  <2> QED BY <2>1, TotalEmpty
<1>3. ASSUME NEW n \in Nat, n \in T
      PROVE  n + 1 \in T
  <2> SUFFICES ASSUME NEW s \in SUBSET S, Cardinality(s) <= n + 1, s # {}
               PROVE  Good(s)
    BY TotalEmpty
  <2> DEFINE y == First(s)
  <2>1. y \in s
    BY FirstIn
  <2>2. TotalAmount(s) = y.amount + TotalAmount(s \ {y})
    BY <1>1, <2>1, TotalFirst
  <2> HIDE DEF y
  <2>3. ASSUME NEW x \in s
        PROVE  /\ s \ {x} \in SUBSET S /\ IsFiniteSet(s \ {x})
               /\ Cardinality(s \ {x}) <= n
    BY <1>1, FS_RemoveElement
  <2>4. ASSUME NEW x \in s
        PROVE  Good(s \ {x})
    BY <1>3, <2>3
  <2>5. TotalAmount(s) \in Nat
    BY <1>1, <2>1, <2>2, <2>4
  <2>6. ASSUME NEW x \in s, x # y
        PROVE  TotalAmount(s) = x.amount + TotalAmount(s \ {x})
    <3>1. TotalAmount(s \ {y}) = x.amount + TotalAmount((s \ {y}) \ {x})
      BY <2>1, <2>4, <2>6
    <3>2. TotalAmount(s \ {x}) = y.amount + TotalAmount((s \ {x}) \ {y})
      BY <2>1, <2>4, <2>6
    <3>3. (s \ {y}) \ {x} = (s \ {x}) \ {y}
      OBVIOUS
    <3>4. TotalAmount((s \ {x}) \ {y}) \in Nat
      <4>1. (s \ {x}) \ {y} \in SUBSET S /\ Cardinality((s \ {x}) \ {y}) <= Cardinality(s \ {x})
        BY <2>3, FS_Subset
      <4>2. Cardinality((s \ {x}) \ {y}) <= n
        BY <1>1, <2>3, <4>1
      <4> QED BY <1>3, <4>1, <4>2
    <3>5. /\ x.amount \in Nat /\ y.amount \in Nat
          /\ TotalAmount(s \ {x}) \in Nat /\ TotalAmount(s \ {y}) \in Nat
      BY <1>1, <2>1, <2>4
    <3>6. /\ TotalAmount(s) = y.amount + (x.amount + TotalAmount((s \ {x}) \ {y}))
          /\ x.amount + TotalAmount(s \ {x})
               = x.amount + (y.amount + TotalAmount((s \ {x}) \ {y}))
      BY <2>2, <3>1, <3>2, <3>3
    <3>7. \A a, b, c \in Nat : a + (b + c) = b + (a + c)
      OBVIOUS
    <3> QED
      BY <3>4, <3>5, <3>6, <3>7
  <2> QED BY <2>2, <2>5, <2>6
<1> HIDE DEF T, Good
<1>4. Cardinality(S) \in T
  BY <1>1, <1>2, <1>3, NatSets
<1>5. Good(S)
  BY <1>4 DEF T
<1> QED BY <1>5 DEF Good

\* A delivery added to a total.
LEMMA TotalWith ==
  ASSUME NEW S, Amounted(S), NEW x, x \notin S, x.amount \in Nat
  PROVE  /\ Amounted(S \cup {x})
         /\ TotalAmount(S \cup {x}) = TotalAmount(S) + x.amount
<1>1. Amounted(S \cup {x})
  BY FS_AddElement DEF Amounted
<1>2. TotalAmount(S \cup {x}) = x.amount + TotalAmount((S \cup {x}) \ {x})
  BY <1>1, TotalWithout
<1>3. (S \cup {x}) \ {x} = S
  OBVIOUS
<1>4. TotalAmount(S) \in Nat
  BY TotalWithout
<1>5. TotalAmount(S \cup {x}) = x.amount + TotalAmount(S)
  BY <1>2, <1>3, Zenon
<1> QED BY <1>1, <1>4, <1>5

\* A part is no more than the whole.
LEMMA TotalPart ==
  ASSUME NEW S, Amounted(S), NEW R \in SUBSET S
  PROVE  Amounted(R) /\ TotalAmount(R) <= TotalAmount(S)
<1> DEFINE Good(s) == \A r \in SUBSET s : TotalAmount(r) <= TotalAmount(s)
           T == {n \in Nat : \A s \in SUBSET S : Cardinality(s) <= n => Good(s)}
<1>1. ASSUME NEW s \in SUBSET S
      PROVE  Amounted(s) /\ Cardinality(s) \in Nat /\ TotalAmount(s) \in Nat
  <2>1. Amounted(s)
    BY FS_Subset DEF Amounted
  <2>2. Cardinality(s) \in Nat
    BY <2>1, FS_CardinalityType DEF Amounted
  <2> QED BY <2>1, <2>2, TotalWithout
<1>2. 0 \in T
  <2> SUFFICES ASSUME NEW s \in SUBSET S, Cardinality(s) <= 0
               PROVE  Good(s)
    OBVIOUS
  <2>1. s = {}
    BY <1>1, FS_EmptySet DEF Amounted
  <2> QED BY <1>1, <2>1
<1>3. ASSUME NEW n \in Nat, n \in T
      PROVE  n + 1 \in T
  <2> SUFFICES ASSUME NEW s \in SUBSET S, Cardinality(s) <= n + 1, NEW r \in SUBSET s
               PROVE  TotalAmount(r) <= TotalAmount(s)
    OBVIOUS
  <2>1. CASE r = s
    BY <1>1, <2>1
  <2>2. CASE r # s
    <3>1. PICK x \in s : x \notin r
      BY <2>2
    <3>2. Cardinality(s \ {x}) <= n /\ s \ {x} \in SUBSET S /\ r \in SUBSET (s \ {x})
      BY <1>1, <3>1, FS_RemoveElement DEF Amounted
    <3>3. TotalAmount(r) <= TotalAmount(s \ {x})
      BY <1>3, <3>2
    <3>4. TotalAmount(s) = x.amount + TotalAmount(s \ {x}) /\ x.amount \in Nat
      BY <1>1, TotalWithout DEF Amounted
    <3>5. TotalAmount(r) \in Nat /\ TotalAmount(s \ {x}) \in Nat
      BY <1>1, <3>2
    <3> QED BY <3>3, <3>4, <3>5
  <2> QED BY <2>1, <2>2
<1> HIDE DEF T, Good
<1>4. Cardinality(S) \in T
  BY <1>1, <1>2, <1>3, NatSets
<1>5. Good(S)
  BY <1>1, <1>4 DEF T
<1> QED BY <1>1, <1>5 DEF Good

-----------------------------------------------------------------------------
(* Exposure. *)

\* No sum that begin_delivery forms reaches 2^64.
NoWrap == \A amount \in DeliveryAmounts : 2 * MaxCap + amount < U64

ExposureInv ==
  /\ IsFiniteSet(ch.pending_deliveries)
  /\ ch.deposit <= MaxCap
  /\ ExposureBounded

\* What a step may do to watermark, deposit and reservations: start over, raise the
\* deposit, raise the watermark within the deposit, reserve what fits, or turn one
\* reservation into as much of the watermark or less.
Fresh == /\ ch'.cumulative = 0 /\ ch'.pending_deliveries = {}
         /\ ch'.deposit <= MaxCap

Kept == /\ ch'.cumulative = ch.cumulative
        /\ ch'.pending_deliveries = ch.pending_deliveries
        /\ ch'.deposit >= ch.deposit
        /\ ch'.deposit = ch.deposit \/ ch'.deposit <= MaxCap

Raised == /\ opens = 1 => ch'.cumulative <= ch.deposit
          /\ ch'.pending_deliveries = ch.pending_deliveries
          /\ ch'.deposit = ch.deposit

Reserved == \E d \in PendingDelivery :
              /\ d \notin ch.pending_deliveries
              /\ d.amount \in DeliveryAmounts /\ FitsDeposit(d.amount)
              /\ ch'.pending_deliveries = ch.pending_deliveries \cup {d}
              /\ ch'.cumulative = ch.cumulative /\ ch'.deposit = ch.deposit

Committed == \E p \in ch.pending_deliveries :
               /\ ch'.cumulative <= ch.cumulative + p.amount
               /\ ch'.pending_deliveries = ch.pending_deliveries \ {p}
               /\ ch'.deposit = ch.deposit

\* The actions that leave the channel alone, and the ones of the host.
LEMMA HostAmounts ==
  ASSUME IInv, Host
  PROVE  \/ opens' = opens + 1 /\ Fresh
         \/ opens' = opens /\ (Kept \/ Reserved)
<1>1. ASSUME NEW mode, NEW signer, NEW deposit \in Deposits, NEW status,
             ProcessOpen(mode, signer, deposit, status)
      PROVE  opens' = opens + 1 /\ Fresh
  BY <1>1 DEF ProcessOpen, FreshState, Fresh
<1>2. ASSUME NEW deposit \in Deposits, ProcessTopup(deposit)
      PROVE  opens' = opens /\ Kept
  BY <1>2, ConstantsAssumption DEF ProcessTopup, Kept, IInv, TypeOK, ChannelState
<1>3. ASSUME MarkFinalized
      PROVE  opens' = opens /\ Kept
  BY <1>3 DEF MarkFinalized, Kept, IInv, TypeOK, ChannelState
<1>4. ASSUME NEW amount \in DeliveryAmounts, NEW requested \in DeliveryIds \cup {None},
             NEW expires_at \in DeliveryExpiries, BeginDelivery(amount, requested, expires_at)
      PROVE  opens' = opens /\ Reserved
  <2> DEFINE d == [delivery_id |-> DeliveryIdFor(requested), amount |-> amount,
                   sequence |-> ch.next_delivery_sequence + 1, expires_at |-> expires_at]
  <2>1. d \in PendingDelivery
    BY ConstantsAssumption DEF PendingDelivery, DeliveryIdFor, IInv, TypeOK, ChannelState
  <2>2. /\ opens' = opens /\ FitsDeposit(d.amount)
        /\ PendingWith(d.delivery_id) = {}
        /\ ch' = [ch EXCEPT !.next_delivery_sequence = ch.next_delivery_sequence + 1,
                            !.pending_deliveries = @ \cup {d}]
    BY <1>4 DEF BeginDelivery
  <2>3. d \notin ch.pending_deliveries
    BY <2>2 DEF PendingWith
  <2> HIDE DEF d
  <2>4. /\ ch'.pending_deliveries = ch.pending_deliveries \cup {d}
        /\ ch'.cumulative = ch.cumulative /\ ch'.deposit = ch.deposit
    BY <2>2 DEF IInv, TypeOK, ChannelState
  <2>5. d.amount \in DeliveryAmounts
    BY DEF d
  <2> QED BY <2>1, <2>2, <2>3, <2>4, <2>5 DEF Reserved
<1> QED BY <1>1, <1>2, <1>3, <1>4 DEF Host

LEMMA SameChannel ==
  ASSUME IInv, ch' = ch
  PROVE  Kept
BY DEF Kept, IInv, TypeOK, ChannelState

LEMMA WorkerAmounts ==
  ASSUME IInv, Worker
  PROVE  opens' = opens /\ (Kept \/ Raised \/ Committed)
<1>1. ASSUME NEW w \in Workers, VerifyVoucherApply(w)
      PROVE  opens' = opens /\ (Kept \/ Raised)
  <2> DEFINE v == task[w].voucher
  <2>1. /\ task[w] \in Task /\ task[w].op = "voucher"
        /\ TaskGood(task[w], opens, ch)
        /\ opens' = opens
        /\ ch' = ch \/ ch' = WithVoucher(ch, v)
    BY <1>1 DEF VerifyVoucherApply, IInv, TypeOK, TaskInv
  <2>2. v \in Vouchers /\ (opens = 1 => v.cumulative <= ch.deposit)
    BY <2>1, TaskFields DEF TaskGood
  <2>3. CASE ch' = WithVoucher(ch, v)
    BY <2>1, <2>2, <2>3, VoucherStored DEF Raised
  <2> QED BY <2>1, <2>3, SameChannel
<1>2. ASSUME NEW w \in Workers, ProcessCommitApply(w)
      PROVE  opens' = opens /\ (Kept \/ Committed)
  <2> DEFINE v == task[w].voucher
  <2>1. /\ task[w] \in Task /\ task[w].op = "commit" /\ opens' = opens
    BY <1>2 DEF ProcessCommitApply, IInv, TypeOK
  <2>2. v \in Vouchers /\ v.cumulative \in Nat /\ ch.cumulative \in Nat
    BY <2>1, TaskFields, VoucherType DEF IInv, TypeOK, ChannelState
  <2>3. ASSUME NEW p \in PendingWith(task[w].delivery_id), CommitDelivery(p, v),
               CommitApplies(task[w])
        PROVE  Committed
    <3>1. p \in ch.pending_deliveries /\ p.delivery_id = task[w].delivery_id
      BY DEF PendingWith
    <3>2. PICK q \in PendingWith(task[w].delivery_id) : Committable(q, v, task[w].now)
      BY <2>3 DEF CommitApplies
    <3>3. q = p
      BY <3>1, <3>2 DEF PendingWith, IInv, DeliveriesPaidOnce
    <3>4. v.cumulative - ch.cumulative <= p.amount /\ p.amount \in Nat
      BY <3>1, <3>2, <3>3 DEF Committable, IInv, TypeOK, ChannelState, PendingDelivery
    <3>5. WithVoucher(ch, v) \in ChannelState /\ ch \in ChannelState
      BY <2>2, WithVoucherType DEF IInv, TypeOK
    <3>6. /\ ch'.cumulative = v.cumulative
          /\ ch'.pending_deliveries = ch.pending_deliveries \ {p}
          /\ ch'.deposit = ch.deposit
      BY <2>2, <2>3, <3>5, WithVoucherFields DEF CommitDelivery, ChannelState
    <3>7. ch'.cumulative <= ch.cumulative + p.amount
      BY <2>2, <3>4, <3>6
    <3> QED BY <3>1, <3>6, <3>7 DEF Committed
  <2> QED BY <1>2, <2>1, <2>3, SameChannel DEF ProcessCommitApply
<1>3. ASSUME NEW w \in Workers, NEW v \in Vouchers \cup {None}, ProcessClose(w, v)
      PROVE  opens' = opens /\ (Kept \/ Raised)
  <2>1. /\ opens' = opens /\ ch \in ChannelState
        /\ ch' = [AfterFinalVoucher(v) EXCEPT !.close_requested = TRUE]
    BY <1>3 DEF ProcessClose, IInv, TypeOK
  <2>2. CASE v = None \/ IsReplay(v)
    <3>1. ch' = [ch EXCEPT !.close_requested = TRUE]
      BY <2>1, <2>2 DEF AfterFinalVoucher
    <3> QED BY <2>1, <3>1 DEF Kept, ChannelState
  <2>3. CASE ~(v = None \/ IsReplay(v))
    <3>1. v \in Vouchers /\ v.cumulative <= ch.deposit
      BY <1>3, <2>3 DEF ProcessClose, FinalVoucherOk
    <3>2. ch' = [WithVoucher(ch, v) EXCEPT !.close_requested = TRUE]
      BY <2>1, <2>3 DEF AfterFinalVoucher
    <3>3. WithVoucher(ch, v) \in ChannelState
      BY <2>1, <3>1, WithVoucherType
    <3> QED BY <2>1, <3>1, <3>2, <3>3, WithVoucherFields DEF Raised, ChannelState
  <2> QED BY <2>2, <2>3
<1>4. ASSUME NEW w \in Workers, ProcessCloseReply(w)
      PROVE  opens' = opens /\ Kept
  BY <1>4, SameChannel DEF ProcessCloseReply
<1> QED BY <1>1, <1>2, <1>3, <1>4 DEF Worker

LEMMA NextAmounts ==
  ASSUME IInv, [Next]_vars
  PROVE  \/ opens' = opens + 1 /\ Fresh
         \/ opens' = opens /\ (Kept \/ Raised \/ Reserved \/ Committed)
<1>1. CASE Tick \/ Client \/ UNCHANGED vars
  <2>1. opens' = opens /\ ch' = ch
    BY <1>1 DEF Tick, Client, vars, VerifyVoucherReplay, ProcessCommitReplay,
                VerifyVoucherCheck, ProcessCommitCheck
  <2> QED BY <2>1, SameChannel
<1> QED BY <1>1, HostAmounts, WorkerAmounts DEF Next

\* Sums below 2^64 are what they seem.
LEMMA FitsMeansFits ==
  ASSUME IInv, NoWrap, NEW amount \in DeliveryAmounts, FitsDeposit(amount),
         PendingTotal \in Nat, ch.cumulative + PendingTotal <= 2 * MaxCap
  PROVE  ch.cumulative + PendingTotal + amount <= ch.deposit
<1>1. /\ ch.cumulative \in Nat /\ amount \in Nat /\ MaxCap \in Nat /\ U64 \in Nat
      /\ 2 * MaxCap + amount < U64
  BY ConstantsAssumption DEF NoWrap, IInv, TypeOK, ChannelState
<1>2. \A x \in Nat : x < U64 => x % U64 = x
  BY <1>1
<1>3. /\ PendingTotal < U64 /\ ch.cumulative + PendingTotal < U64
      /\ ch.cumulative + PendingTotal + amount < U64
  BY <1>1
<1>4. /\ PendingTotal % U64 = PendingTotal
      /\ AddU64(ch.cumulative, PendingTotal) = ch.cumulative + PendingTotal
      /\ AddU64(ch.cumulative + PendingTotal, amount) = ch.cumulative + PendingTotal + amount
  BY <1>1, <1>2, <1>3 DEF AddU64
<1> QED BY <1>4 DEF FitsDeposit

LEMMA ExposureStep == NoWrap /\ IInv /\ ExposureInv /\ [Next]_vars => ExposureInv'
<1> SUFFICES ASSUME NoWrap, IInv, ExposureInv, [Next]_vars PROVE ExposureInv'
  OBVIOUS
<1>1. TypeOK' /\ TypeOK
  BY TypeNext DEF IInv
<1>2. /\ ch.cumulative \in Nat /\ ch.deposit \in Nat
      /\ ch'.cumulative \in Nat /\ ch'.deposit \in Nat
      /\ opens \in Nat /\ MaxCap \in Nat
      /\ \A d \in PendingDelivery : d.amount \in Nat
      /\ ch.pending_deliveries \in SUBSET PendingDelivery
  BY <1>1, ConstantsAssumption DEF TypeOK, ChannelState, PendingDelivery
<1>3. Amounted(ch.pending_deliveries) /\ PendingTotal \in Nat
  <2>1. Amounted(ch.pending_deliveries)
    BY <1>2 DEF ExposureInv, Amounted
  <2> QED BY <2>1, TotalWithout DEF PendingTotal
<1>4. CASE opens' = opens + 1 /\ Fresh
  <2>1. PendingTotal' = 0
    BY <1>4, TotalEmpty DEF Fresh, PendingTotal
  <2> QED BY <1>2, <1>4, <2>1, FS_EmptySet DEF Fresh, ExposureInv, ExposureBounded
<1>5. CASE opens' = opens /\ Kept
  <2>1. PendingTotal' = PendingTotal
    BY <1>5 DEF Kept, PendingTotal
  <2>2. IsFiniteSet(ch'.pending_deliveries) /\ ch'.deposit <= MaxCap
    BY <1>5 DEF Kept, ExposureInv
  <2>3. ExposureBounded'
    BY <1>2, <1>3, <1>5, <2>1 DEF Kept, ExposureInv, ExposureBounded
  <2> QED BY <2>2, <2>3 DEF ExposureInv
<1>6. CASE opens' = opens /\ Raised
  <2>1. PendingTotal' = PendingTotal
    BY <1>6 DEF Raised, PendingTotal
  <2>2. IsFiniteSet(ch'.pending_deliveries) /\ ch'.deposit <= MaxCap
    BY <1>6 DEF Raised, ExposureInv
  <2>3. ExposureBounded'
    BY <1>2, <1>3, <1>6, <2>1 DEF Raised, ExposureInv, ExposureBounded
  <2> QED BY <2>2, <2>3 DEF ExposureInv
<1>7. CASE opens' = opens /\ Reserved
  <2>1. PICK d \in PendingDelivery :
          /\ d \notin ch.pending_deliveries
          /\ d.amount \in DeliveryAmounts /\ FitsDeposit(d.amount)
          /\ ch'.pending_deliveries = ch.pending_deliveries \cup {d}
          /\ ch'.cumulative = ch.cumulative /\ ch'.deposit = ch.deposit
    BY <1>7 DEF Reserved
  <2>2. /\ Amounted(ch'.pending_deliveries)
        /\ PendingTotal' = PendingTotal + d.amount
    BY <1>2, <1>3, <2>1, TotalWith DEF PendingTotal
  <2>3. opens = 1 => ch.cumulative + PendingTotal <= 2 * MaxCap
    BY <1>2, <1>3 DEF ExposureInv, ExposureBounded
  <2>4. opens = 1 => ch.cumulative + PendingTotal + d.amount <= ch.deposit
    BY <1>3, <2>1, <2>3, FitsMeansFits
  <2>5. ExposureBounded'
    BY <1>2, <1>3, <1>7, <2>1, <2>2, <2>4 DEF ExposureBounded
  <2> QED BY <2>1, <2>2, <2>5 DEF ExposureInv, Amounted
<1>8. CASE opens' = opens /\ Committed
  <2>1. PICK p \in ch.pending_deliveries :
          /\ ch'.cumulative <= ch.cumulative + p.amount
          /\ ch'.pending_deliveries = ch.pending_deliveries \ {p}
          /\ ch'.deposit = ch.deposit
    BY <1>8 DEF Committed
  <2>2. PendingTotal = p.amount + PendingTotal'
    BY <1>3, <2>1, TotalWithout DEF PendingTotal
  <2>3. /\ IsFiniteSet(ch'.pending_deliveries) /\ p.amount \in Nat
        /\ PendingTotal' \in Nat
    <3>1. Amounted(ch'.pending_deliveries)
      BY <1>3, <2>1, TotalPart
    <3> QED BY <1>2, <2>1, <3>1, TotalWithout DEF PendingTotal, Amounted
  <2>4. ExposureBounded'
    BY <1>2, <1>3, <1>8, <2>1, <2>2, <2>3 DEF ExposureInv, ExposureBounded
  <2> QED BY <2>1, <2>3, <2>4 DEF ExposureInv
<1> QED BY <1>4, <1>5, <1>6, <1>7, <1>8, NextAmounts

\* As long as no sum of watermark, reservations and a new amount can reach 2^64,
\* the reservations of a channel opened once stay within its deposit, and what is
\* owed and reserved within twice the deposit (begin_delivery checks the sum,
\* process_commit and verify_voucher do not see the reservations).
THEOREM ExposureTheorem == NoWrap => (Spec => []ExposureBounded)
<1> SUFFICES ASSUME NoWrap PROVE Spec => []ExposureBounded
  OBVIOUS
<1>1. Init => ExposureInv
  BY TotalEmpty, FS_EmptySet, ConstantsAssumption
     DEF Init, FreshState, ExposureInv, ExposureBounded, PendingTotal
<1>2. IInv /\ ExposureInv /\ [Next]_vars => ExposureInv'
  BY ExposureStep
<1>3. ExposureInv => ExposureBounded
  BY DEF ExposureInv
<1> QED
  BY <1>1, <1>2, <1>3, Invariance, PTL DEF Spec

-----------------------------------------------------------------------------
(***************************************************************************)
(* Part 3: client, transport and server together.                          *)
(***************************************************************************)

(* The inductive invariant. *)

Requests ==
  (UNION {OpenPayloads(deposit) : deposit \in Deposits})
    \cup [action : {"voucher"}, voucher : Vouchers]
    \cup [action : {"close"}, voucher : Vouchers \cup {None}]
    \cup [action : {"topup"}, new_deposit : Deposits]
    \cup [action : {"commit"}, delivery_id : Nat, voucher : Vouchers]

Calls == [delivery_id : Nat, voucher : Vouchers, answered : BOOLEAN]

Directives ==
  [delivery_id : Nat, session_id : {ChannelId}, amount : DeliveryAmounts, expires_at : Nat]

\* A directive of another session is never accepted.
ClientTypes ==
  /\ session \in [cumulative : 0..(U64 - 1), expires_at : Expiries]
  /\ inbox \subseteq Directives /\ IsFiniteSet(inbox)
  /\ call # None => call \in Calls /\ call.voucher.cumulative < U64
  /\ wire \subseteq Requests
  /\ strayed \in BOOLEAN
  /\ increments \in Nat
  /\ \A p \in ch.pending_deliveries : p.amount \in DeliveryAmounts

\* Before the first open nothing is stored.
NotYetOpened == opens = 0 => ch = FreshState(None, 0)

Commit(id, voucher) == [action |-> "commit", delivery_id |-> id, voucher |-> voucher]

\* Deliveries whose commit was sent and has not returned a receipt.
Unresolved == doubt \cup (IF call = None THEN {} ELSE {call.delivery_id})

\* The consumer's books: an id names one directive, and a commit on the wire is for
\* a directive that is acknowledged, in doubt or being committed.
Books ==
  /\ \A d, e \in inbox : d.delivery_id = e.delivery_id => d = e
  /\ \A m \in wire : m.action = "commit" =>
       /\ \E d \in inbox : d.delivery_id = m.delivery_id
       /\ m.delivery_id \in acked \cup Unresolved
  /\ \A id \in acked : \E m \in wire : m.action = "commit" /\ m.delivery_id = id
  /\ call # None => call.delivery_id \notin acked /\ Commit(call.delivery_id, call.voucher) \in wire

\* As long as the application resolves one delivery before it goes on, a commit that
\* has not returned a receipt is the one a retry would send now.
OneAtATime ==
  ~strayed =>
    /\ \A a, b \in Unresolved : a = b
    /\ \A m \in wire, d \in inbox :
         m.action = "commit" /\ m.delivery_id \notin acked /\ d.delivery_id = m.delivery_id
           => m.voucher = PrepareIncrement(d.amount)

\* The server only works on commits that were sent, and answers with what it stored,
\* which a repeated open overwrites.
FromTheWire ==
  /\ \A w \in Workers : task[w].op = "commit" =>
       Commit(task[w].delivery_id, task[w].voucher) \in wire
  /\ \A c \in ch.committed_deliveries : \E m \in wire :
       m.action = "commit" /\ m.delivery_id = c.delivery_id /\ SettledBy(c, m.voucher)
  /\ opens <= 1 /\ call # None /\ call.answered =>
       \E c \in ch.committed_deliveries :
         c.delivery_id = call.delivery_id /\ SettledBy(c, call.voucher)

\* The deliveries the client holds a receipt for, or waits for one.
PaidFor == {d \in inbox : d.delivery_id \in acked}
PaidForOrCalled ==
  {d \in inbox : d.delivery_id \in acked \/ (call # None /\ d.delivery_id = call.delivery_id)}

\* The watermark of the session, and the voucher of the commit in flight, add up.
Authorized ==
  /\ session.cumulative <= TotalAmount(PaidFor) + increments
  /\ call # None => call.voucher.cumulative <= TotalAmount(PaidForOrCalled) + increments

ClientInv ==
  /\ ClientTypes
  /\ NotYetOpened
  /\ Books
  /\ OneAtATime
  /\ FromTheWire
  /\ NotAheadOfServer
  /\ Authorized
  /\ NeverOverauthorized

\* Without direct vouchers only commits move the server's watermark.
OnlyCommits ==
  increments = 0 =>
    /\ \A m \in wire : m.action # "voucher" /\ (m.action = "close" => m.voucher = None)
    /\ \A w \in Workers : task[w].op # "voucher"
    /\ ch.cumulative = TotalAmount(ch.committed_deliveries)

\* Reservations are counted by the sequence, and nothing else is.
Counted ==
  /\ IsFiniteSet(ch.pending_deliveries) /\ IsFiniteSet(ch.committed_deliveries)
  /\ Cardinality(ch.pending_deliveries) + Cardinality(ch.committed_deliveries)
       = ch.next_delivery_sequence

\* The server is at the client's watermark or one commit ahead of it.
OneAhead ==
  opens <= 1 /\ ~strayed /\ increments = 0 =>
    \/ ch.cumulative = session.cumulative
    \/ \E c \in ch.committed_deliveries :
         c.delivery_id \notin acked /\ c.cumulative = ch.cumulative

PaidInFull ==
  opens <= 1 /\ ~strayed /\ increments = 0 =>
    \A c \in ch.committed_deliveries, d \in inbox :
      d.delivery_id = c.delivery_id => c.amount = d.amount

\* A receipt is only returned for a recorded commit.
AckedIsCommitted == opens <= 1 => \A id \in acked : CommittedWith(id) # {}

ServedInv ==
  /\ OnlyCommits
  /\ Counted
  /\ AckedIsCommitted
  /\ OneAhead
  /\ PaidInFull

-----------------------------------------------------------------------------
(* Every step of the whole is a step of the server or a stutter.            *)

\* What a request on the wire carries.
LEMMA RequestFields ==
  ASSUME NEW m \in Requests
  PROVE  /\ m.action \in {"open", "voucher", "close", "topup", "commit"}
         /\ m.action = "open" =>
              /\ m.mode \in {"push", "pull"} /\ m.authorized_signer = ClientKey
              /\ DepositAmount(m) \in Deposits
         /\ m.action = "voucher" => m.voucher \in Vouchers
         /\ m.action = "close" => m.voucher \in Vouchers \cup {None}
         /\ m.action = "topup" => m.new_deposit \in Deposits
         /\ m.action = "commit" =>
              /\ m.delivery_id \in Nat /\ m.voucher \in Vouchers
              /\ m = Commit(m.delivery_id, m.voucher)
<1>1. ASSUME NEW deposit \in Deposits, m \in OpenPayloads(deposit)
      PROVE  /\ m.action = "open" /\ m.mode \in {"push", "pull"}
             /\ m.authorized_signer = ClientKey /\ DepositAmount(m) \in Deposits
  <2>1. deposit # None
    BY ConstantsAssumption
  <2>2. CASE \E mode \in {"push", "pull"} : m = OpenPayload(mode, ChannelId, deposit, None, None)
    BY <2>1, <2>2 DEF OpenPayload, DepositAmount
  <2>3. CASE m = OpenPayload("pull", None, None, ChannelId, deposit)
    BY <2>3 DEF OpenPayload, DepositAmount
  <2> QED BY <1>1, <2>2, <2>3 DEF OpenPayloads
<1>2. ASSUME m \in [action : {"commit"}, delivery_id : Nat, voucher : Vouchers]
      PROVE  m = Commit(m.delivery_id, m.voucher)
  BY <1>2 DEF Commit
<1>3. CASE \E deposit \in Deposits : m \in OpenPayloads(deposit)
  BY <1>1, <1>3
<1>4. CASE m \in [action : {"commit"}, delivery_id : Nat, voucher : Vouchers]
  BY <1>2, <1>4
<1>5. CASE \/ m \in [action : {"voucher"}, voucher : Vouchers]
           \/ m \in [action : {"close"}, voucher : Vouchers \cup {None}]
           \/ m \in [action : {"topup"}, new_deposit : Deposits]
  BY <1>5
<1> QED BY <1>3, <1>4, <1>5 DEF Requests

\* An open is among the requests a client may send.
LEMMA OpenIsRequest ==
  ASSUME NEW deposit \in Deposits, NEW m \in OpenPayloads(deposit)
  PROVE  m \in Requests /\ m.action = "open"
BY DEF Requests, OpenPayloads, OpenPayload

\* The handlers, the deliveries and the clock of the composition are the server's.
LEMMA ServerStepIsNext == ClientTypes /\ ServerStep => Next
<1> SUFFICES ASSUME ClientTypes, ServerStep PROVE Next
  OBVIOUS
<1>1. wire \subseteq Requests /\ ClientKey \in Signers
  BY ClientAssumption DEF ClientTypes
<1>2. ASSUME NEW m \in wire, NEW status \in OpenTxStatus, HandleOpen(m, status)
      PROVE  Host
  BY <1>1, <1>2, RequestFields DEF HandleOpen, Host
<1>3. ASSUME NEW m \in wire, HandleCommit(m)
      PROVE  Client
  <2>1. m.voucher \in Vouchers
    BY <1>1, <1>3, RequestFields DEF HandleCommit
  <2>2. CASE ProcessCommitReplay(m.voucher, m.delivery_id)
    <3>1. m.delivery_id \in {d.delivery_id : d \in ch.committed_deliveries}
      BY <2>2 DEF ProcessCommitReplay, CommittedWith
    <3> QED BY <2>1, <2>2, <3>1 DEF Client
  <2>3. CASE \E w \in Workers : ProcessCommitCheck(w, m.voucher, m.delivery_id)
    <3>1. m.delivery_id \in {d.delivery_id : d \in ch.pending_deliveries}
      BY <2>3 DEF ProcessCommitCheck, PendingWith
    <3> QED BY <2>1, <2>3, <3>1 DEF Client
  <2> QED BY <1>3, <2>2, <2>3 DEF HandleCommit
<1>4. ASSUME NEW m \in wire, HandleVoucher(m)
      PROVE  Client
  BY <1>1, <1>4, RequestFields DEF HandleVoucher, Client
<1>5. ASSUME NEW m \in wire, HandleClose(m)
      PROVE  Worker
  BY <1>1, <1>5, RequestFields DEF HandleClose, Worker
<1>6. ASSUME NEW m \in wire, HandleTopup(m)
      PROVE  Host
  BY <1>1, <1>6, RequestFields DEF HandleTopup, Host
<1>7. ASSUME NEW w \in Workers,
             ContinueCommit(w) \/ VerifyVoucherApply(w) \/ ProcessCloseReply(w)
      PROVE  Worker
  BY <1>7 DEF ContinueCommit, Worker
<1>8. ASSUME NEW amount \in DeliveryAmounts, NEW expires_at \in DeliveryExpiries,
             BeginDelivery(amount, None, expires_at)
      PROVE  Host
  BY <1>8 DEF Host
<1> QED BY <1>2, <1>3, <1>4, <1>5, <1>6, <1>7, <1>8 DEF ServerStep, Next

\* The client and the transport never touch the server's state.
LEMMA ClientStepStutters == ClientStep => UNCHANGED vars
BY DEF ClientStep, OpenAction, VoucherAction, CloseAction, TopupAction, SetExpiresAt,
       Accept, CommitDirective, CommitReply, CommitFails

LEMMA StepRefines == ClientTypes /\ [SessionNext]_sessionVars => [Next]_vars
BY ServerStepIsNext, ClientStepStutters DEF SessionNext, sessionVars

-----------------------------------------------------------------------------
(* What a step of the server does to the state that the client shares with it. *)

KeptDeliveries ==
  /\ ch'.pending_deliveries = ch.pending_deliveries
  /\ ch'.committed_deliveries = ch.committed_deliveries
  /\ ch'.next_delivery_sequence = ch.next_delivery_sequence

\* No worker takes a request that has a second step, except to close.
TasksEnd == \A w \in Workers : task'[w] = task[w] \/ task'[w].op \in {"idle", "close"}

\* process_open.
Opening ==
  /\ opens' = opens + 1
  /\ UNCHANGED <<task, call, wire>>
  /\ ch'.cumulative = 0 /\ ch'.next_delivery_sequence = 0
  /\ ch'.pending_deliveries = {} /\ ch'.committed_deliveries = {}

\* Nothing the client could notice.
Quiet ==
  /\ KeptDeliveries /\ ch'.cumulative = ch.cumulative
  /\ TasksEnd
  /\ UNCHANGED call

\* A step of verify_voucher or process_close, for a voucher that was signed directly.
ForDirectVoucher ==
  /\ KeptDeliveries /\ ch'.cumulative >= ch.cumulative
  /\ \A w \in Workers : task'[w] = task[w] \/ task'[w].op # "commit"
  /\ UNCHANGED call
  /\ \/ \E w \in Workers : task[w].op = "voucher"
     \/ \E m \in wire : m.action = "voucher" \/ (m.action = "close" /\ m.voucher # None)

\* The first step of process_commit.
Taking ==
  /\ UNCHANGED <<ch, call>>
  /\ \E m \in wire :
       /\ m.action = "commit"
       /\ \A w \in Workers :
            \/ task'[w] = task[w]
            \/ /\ task'[w].op = "commit"
               /\ m = Commit(task'[w].delivery_id, task'[w].voucher)

\* begin_delivery.
Reserving ==
  /\ UNCHANGED <<task, call>>
  /\ ch'.cumulative = ch.cumulative
  /\ ch'.committed_deliveries = ch.committed_deliveries
  /\ ch'.next_delivery_sequence = ch.next_delivery_sequence + 1
  /\ \E p : /\ p \notin ch.pending_deliveries /\ p.amount \in DeliveryAmounts
            /\ ch'.pending_deliveries = ch.pending_deliveries \cup {p}

\* A commit answered from the record.
Replaying ==
  /\ UNCHANGED ch
  /\ TasksEnd
  /\ \E c \in ch.committed_deliveries, v \in Vouchers :
       SettledBy(c, v) /\ Answer(c.delivery_id, v)

\* The second step of process_commit, when it commits p as c.
CommittedAs(p, c, v) ==
  /\ p \in ch.pending_deliveries
  /\ p.delivery_id = c.delivery_id /\ CommittedWith(c.delivery_id) = {}
  /\ v \in Vouchers
  /\ v.cumulative > ch.cumulative /\ v.cumulative - ch.cumulative <= p.amount
  /\ SettledBy(c, v) /\ c.amount = v.cumulative - ch.cumulative
  /\ ch'.cumulative = v.cumulative
  /\ ch'.next_delivery_sequence = ch.next_delivery_sequence
  /\ ch'.pending_deliveries = ch.pending_deliveries \ {p}
  /\ ch'.committed_deliveries = ch.committed_deliveries \cup {c}

Committing ==
  /\ TasksEnd
  /\ \E w \in Workers : \E p, c :
       /\ task[w].op = "commit" /\ c.delivery_id = task[w].delivery_id
       /\ CommittedAs(p, c, task[w].voucher)
       /\ Answer(c.delivery_id, task[w].voucher)

ServerEffect ==
  /\ UNCHANGED <<session, inbox, acked, doubt, strayed, increments>>
  /\ \/ Opening
     \/ /\ UNCHANGED <<wire, opens>>
        /\ opens = 0 => UNCHANGED ch
        /\ \/ Quiet \/ ForDirectVoucher \/ Taking \/ Reserving \/ Replaying \/ Committing

\* A worker that answers or is given a task is the only one whose task changes.
LEMMA OneTask ==
  ASSUME TypeOK, NEW w \in Workers, NEW t, task' = [task EXCEPT ![w] = t]
  PROVE  \A u \in Workers : task'[u] = IF u = w THEN t ELSE task[u]
BY DEF TypeOK

LEMMA RespondEnds ==
  ASSUME TypeOK, NEW w \in Workers, Respond(w)
  PROVE  TasksEnd
BY OneTask DEF Respond, TasksEnd, Idle

\* A step that leaves the channel alone keeps its fields.
LEMMA SameDeliveries ==
  ASSUME IInv, ch' = ch
  PROVE  KeptDeliveries /\ ch'.cumulative = ch.cumulative /\ ch'.cumulative >= ch.cumulative
BY DEF KeptDeliveries, IInv, TypeOK, ChannelState

\* process_commit's second step.
LEMMA ContinueEffect ==
  ASSUME IInv, NEW w \in Workers, ContinueCommit(w)
  PROVE  ServerEffect
<1> DEFINE t == task[w]
           v == task[w].voucher
<1>1. /\ t.op = "commit" /\ t \in Task /\ ProcessCommitApply(w)
      /\ Respond(w) /\ opens' = opens /\ UNCHANGED otherClientVars
      /\ TypeOK
  BY DEF ContinueCommit, ProcessCommitApply, IInv, TypeOK
<1>2. v \in Vouchers /\ v.cumulative \in Nat /\ ch.cumulative \in Nat
  BY <1>1, TaskFields, VoucherType DEF TypeOK, ChannelState
<1>3. TasksEnd /\ opens # 0
  <2>1. TaskGood(t, opens, ch) /\ opens \in Nat
    BY <1>1 DEF IInv, TaskInv, TypeOK
  <2>2. TasksEnd
    BY <1>1, RespondEnds
  <2> QED BY <1>1, <2>1, <2>2 DEF TaskGood
<1>4. CASE CommitApplies(t) /\ \E p \in PendingWith(t.delivery_id) : CommitDelivery(p, v)
  <2>1. PICK p \in PendingWith(t.delivery_id) : CommitDelivery(p, v)
    BY <1>4
  <2>2. p \in ch.pending_deliveries /\ p.delivery_id = t.delivery_id
    BY DEF PendingWith
  <2>3. PICK q \in PendingWith(t.delivery_id) : Committable(q, v, t.now)
    BY <1>4 DEF CommitApplies
  <2>4. q = p
    BY <2>2, <2>3 DEF PendingWith, IInv, DeliveriesPaidOnce
  <2>5. v.cumulative > ch.cumulative /\ v.cumulative - ch.cumulative <= p.amount
    BY <2>3, <2>4 DEF Committable
  <2> DEFINE c == [delivery_id |-> p.delivery_id, amount |-> v.cumulative - ch.cumulative,
                   cumulative |-> v.cumulative, voucher_signature |-> v.signature]
  <2>6. /\ c.delivery_id = t.delivery_id /\ c.amount = v.cumulative - ch.cumulative
        /\ SettledBy(c, v)
    BY <2>2 DEF SettledBy
  <2>7. ch' = [WithVoucher(ch, v) EXCEPT !.pending_deliveries = @ \ {p},
                                         !.committed_deliveries = @ \cup {c}]
    BY <2>1 DEF CommitDelivery
  <2> HIDE DEF c
  <2>8. WithVoucher(ch, v) \in ChannelState /\ ch \in ChannelState
    BY <1>1, <1>2, WithVoucherType DEF TypeOK
  <2>9. /\ ch'.cumulative = v.cumulative
        /\ ch'.next_delivery_sequence = ch.next_delivery_sequence
        /\ ch'.pending_deliveries = ch.pending_deliveries \ {p}
        /\ ch'.committed_deliveries = ch.committed_deliveries \cup {c}
    BY <1>2, <2>7, <2>8, WithVoucherFields DEF ChannelState
  <2>10. CommittedWith(c.delivery_id) = {}
    BY <1>4, <2>6 DEF CommitApplies
  <2>11. CommittedAs(p, c, v)
    BY <1>2, <2>2, <2>5, <2>6, <2>9, <2>10 DEF CommittedAs
  <2>12. Answer(c.delivery_id, v)
    BY <1>4, <2>6 DEF ContinueCommit
  <2> HIDE DEF v, t
  <2> QED BY <1>1, <1>3, <2>6, <2>11, <2>12
          DEF Committing, ServerEffect, otherClientVars, t, v
<1>5. CASE CommitReplays(t) /\ UNCHANGED ch
  <2>1. PICK c \in ch.committed_deliveries : c.delivery_id = t.delivery_id /\ SettledBy(c, v)
    BY <1>5 DEF CommitReplays, CommittedWith
  <2>2. Answer(c.delivery_id, v)
    BY <1>5, <2>1 DEF ContinueCommit
  <2> HIDE DEF v, t
  <2> QED BY <1>1, <1>2, <1>3, <1>5, <2>1, <2>2 DEF Replaying, ServerEffect, otherClientVars
<1>6. CASE ~CommitApplies(t) /\ ~CommitReplays(t) /\ UNCHANGED ch
  <2>1. UNCHANGED call
    BY <1>6 DEF ContinueCommit
  <2> HIDE DEF v, t
  <2> QED BY <1>1, <1>3, <1>6, <2>1, SameDeliveries DEF Quiet, ServerEffect, otherClientVars
<1> QED BY <1>1, <1>4, <1>5, <1>6 DEF ProcessCommitApply


\* Storing a voucher, alone or with the close flag, leaves the deliveries alone.
LEMMA StoringKeeps ==
  ASSUME IInv, NEW v \in Vouchers, v.cumulative > ch.cumulative,
         \/ ch' = WithVoucher(ch, v)
         \/ ch' = [WithVoucher(ch, v) EXCEPT !.close_requested = TRUE]
  PROVE  KeptDeliveries /\ ch'.cumulative >= ch.cumulative
<1>1. WithVoucher(ch, v) \in ChannelState /\ ch \in ChannelState
  BY WithVoucherType DEF IInv, TypeOK
<1>2. v.cumulative \in Nat /\ ch.cumulative \in Nat
  BY <1>1, VoucherType DEF ChannelState
<1>3. KeptDeliveries /\ ch'.cumulative = v.cumulative
  BY <1>1, WithVoucherFields DEF ChannelState, KeptDeliveries
<1> QED BY <1>2, <1>3

\* verify_voucher and process_close.
LEMMA VoucherEffect ==
  ASSUME IInv, ClientTypes, UNCHANGED clientVars, NEW m \in wire, HandleVoucher(m) \/ HandleClose(m)
  PROVE  ServerEffect
<1>1. TypeOK /\ m \in Requests
  BY DEF IInv, ClientTypes
<1>2. CASE m.action = "voucher" /\ VerifyVoucherReplay(m.voucher)
  BY <1>2, SameDeliveries
     DEF VerifyVoucherReplay, ServerEffect, Quiet, TasksEnd, clientVars, otherClientVars
<1>3. ASSUME m.action = "voucher", NEW w \in Workers, VerifyVoucherCheck(w, m.voucher)
      PROVE  ServerEffect
  <2>1. UNCHANGED <<opens, ch>> /\ task' = [task EXCEPT ![w] = [op |-> "voucher", voucher |-> m.voucher]]
    BY <1>3 DEF VerifyVoucherCheck
  <2>2. \A u \in Workers : task'[u] = task[u] \/ task'[u].op # "commit"
    BY <1>1, <2>1, OneTask
  <2>3. KeptDeliveries /\ ch'.cumulative >= ch.cumulative
    BY <2>1, SameDeliveries
  <2> QED BY <1>3, <2>1, <2>2, <2>3 DEF ServerEffect, ForDirectVoucher, clientVars, otherClientVars
<1>4. ASSUME m.action = "close", NEW w \in Workers, ProcessClose(w, m.voucher)
      PROVE  ServerEffect
  <2> DEFINE v == m.voucher
  <2>1. /\ opens' = opens /\ opens > 0 /\ opens \in Nat
        /\ task' = [task EXCEPT ![w] = [op |-> "close"]]
        /\ ch' = [AfterFinalVoucher(v) EXCEPT !.close_requested = TRUE]
        /\ v # None => FinalVoucherOk(v)
    BY <1>1, <1>4 DEF ProcessClose, Present, TypeOK
  <2>2. TasksEnd /\ \A u \in Workers : task'[u] = task[u] \/ task'[u].op # "commit"
    BY <1>1, <2>1, OneTask DEF TasksEnd
  <2>3. CASE v = None \/ IsReplay(v)
    <3>1. ch' = [ch EXCEPT !.close_requested = TRUE]
      BY <2>1, <2>3 DEF AfterFinalVoucher
    <3>2. KeptDeliveries /\ ch'.cumulative = ch.cumulative
      BY <1>1, <3>1 DEF KeptDeliveries, TypeOK, ChannelState
    <3> QED BY <2>1, <2>2, <3>2 DEF ServerEffect, Quiet, clientVars, otherClientVars
  <2>4. CASE ~(v = None \/ IsReplay(v))
    <3>1. v \in Vouchers
      BY <1>1, <1>4, <2>4, RequestFields
    <3>2. ch' = [WithVoucher(ch, v) EXCEPT !.close_requested = TRUE]
      BY <2>1, <2>4 DEF AfterFinalVoucher
    <3>3. v.cumulative > ch.cumulative
      BY <2>1, <2>4 DEF FinalVoucherOk
    <3>4. KeptDeliveries /\ ch'.cumulative >= ch.cumulative
      BY <3>1, <3>2, <3>3, StoringKeeps
    <3>5. ForDirectVoucher
      BY <1>4, <2>2, <2>4, <3>4 DEF ForDirectVoucher, clientVars
    <3> QED BY <2>1, <3>5 DEF ServerEffect, clientVars, otherClientVars
  <2> QED BY <2>3, <2>4
<1> QED BY <1>2, <1>3, <1>4 DEF HandleVoucher, HandleClose

\* Second steps, deliveries, top-ups and the clock.
OtherStep ==
  \/ \E m \in wire : HandleTopup(m)
  \/ \E w \in Workers : VerifyVoucherApply(w) \/ ProcessCloseReply(w)
  \/ \E amount \in DeliveryAmounts, expires_at \in DeliveryExpiries :
       BeginDelivery(amount, None, expires_at)
  \/ Tick

LEMMA OtherEffect ==
  ASSUME IInv, ClientTypes, UNCHANGED clientVars, OtherStep
  PROVE  ServerEffect
<1>1. TypeOK
  BY DEF IInv
<1>2. ASSUME NEW m \in wire, HandleTopup(m)
      PROVE  ServerEffect
  <2>1. /\ ch' = [ch EXCEPT !.deposit = m.new_deposit] /\ UNCHANGED <<opens, task>>
        /\ opens > 0 /\ opens \in Nat
    BY <1>1, <1>2 DEF HandleTopup, ProcessTopup, Present, TypeOK
  <2>2. KeptDeliveries /\ ch'.cumulative = ch.cumulative
    BY <1>1, <2>1 DEF KeptDeliveries, TypeOK, ChannelState
  <2> QED BY <2>1, <2>2 DEF ServerEffect, Quiet, TasksEnd, clientVars, otherClientVars
<1>3. ASSUME NEW w \in Workers, VerifyVoucherApply(w)
      PROVE  ServerEffect
  <2> DEFINE v == task[w].voucher
  <2>1. /\ task[w] \in Task /\ task[w].op = "voucher" /\ Respond(w) /\ opens' = opens
        /\ TaskGood(task[w], opens, ch) /\ opens \in Nat
        /\ ch' = ch \/ (VoucherStillGood(v) /\ ~IsReplay(v) /\ ch' = WithVoucher(ch, v))
    BY <1>1, <1>3 DEF VerifyVoucherApply, IInv, TypeOK, TaskInv
  <2>2. v \in Vouchers /\ opens # 0 /\ TasksEnd
    BY <1>1, <2>1, TaskFields, RespondEnds DEF TaskGood
  <2>3. KeptDeliveries /\ ch'.cumulative >= ch.cumulative
    <3>1. CASE ch' = ch
      BY <3>1, SameDeliveries
    <3>2. CASE VoucherStillGood(v) /\ ~IsReplay(v) /\ ch' = WithVoucher(ch, v)
      <4>1. v.cumulative > ch.cumulative
        BY <3>2 DEF VoucherStillGood
      <4> QED BY <2>2, <3>2, <4>1, StoringKeeps
    <3> QED BY <2>1, <3>1, <3>2
  <2>4. \A u \in Workers : task'[u] = task[u] \/ task'[u].op # "commit"
    BY <2>2 DEF TasksEnd
  <2>5. ForDirectVoucher
    BY <2>1, <2>3, <2>4 DEF ForDirectVoucher, clientVars
  <2> QED BY <2>1, <2>2, <2>5 DEF ServerEffect, clientVars, otherClientVars
<1>4. ASSUME NEW w \in Workers, ProcessCloseReply(w)
      PROVE  ServerEffect
  <2>1. Respond(w) /\ UNCHANGED <<opens, ch>>
    BY <1>4 DEF ProcessCloseReply
  <2>2. TasksEnd
    BY <1>1, <2>1, RespondEnds
  <2> QED BY <2>1, <2>2, SameDeliveries DEF ServerEffect, Quiet, clientVars, otherClientVars
<1>5. ASSUME NEW amount \in DeliveryAmounts, NEW expires_at \in DeliveryExpiries,
             BeginDelivery(amount, None, expires_at)
      PROVE  ServerEffect
  <2> DEFINE p == [delivery_id |-> DeliveryIdFor(None), amount |-> amount,
                   sequence |-> ch.next_delivery_sequence + 1, expires_at |-> expires_at]
  <2>0. UNCHANGED <<opens, task>> /\ opens > 0 /\ opens \in Nat
    BY <1>1, <1>5 DEF BeginDelivery, Present, TypeOK
  <2>1. /\ PendingWith(p.delivery_id) = {}
        /\ ch' = [ch EXCEPT !.next_delivery_sequence = ch.next_delivery_sequence + 1,
                            !.pending_deliveries = @ \cup {p}]
    BY <1>5 DEF BeginDelivery
  <2>2. p \notin ch.pending_deliveries /\ p.amount \in DeliveryAmounts
    BY <2>1 DEF PendingWith
  <2> HIDE DEF p
  <2>3. /\ ch'.pending_deliveries = ch.pending_deliveries \cup {p}
        /\ ch'.committed_deliveries = ch.committed_deliveries
        /\ ch'.cumulative = ch.cumulative
        /\ ch'.next_delivery_sequence = ch.next_delivery_sequence + 1
    BY <1>1, <2>1 DEF TypeOK, ChannelState
  <2>4. Reserving
    BY <2>0, <2>2, <2>3 DEF Reserving, clientVars
  <2> QED BY <2>0, <2>4 DEF ServerEffect, clientVars, otherClientVars
<1>6. ASSUME Tick
      PROVE  ServerEffect
  BY <1>6, SameDeliveries DEF Tick, ServerEffect, Quiet, TasksEnd, clientVars, otherClientVars
<1> QED BY <1>2, <1>3, <1>4, <1>5, <1>6 DEF OtherStep

\* Every step of the server is of one of these kinds.
LEMMA ServerEffects ==
  ASSUME IInv, ClientTypes, ServerStep
  PROVE  ServerEffect
<1>1. TypeOK /\ wire \subseteq Requests
  BY DEF IInv, ClientTypes
<1>2. ASSUME NEW m \in wire, NEW status \in OpenTxStatus, HandleOpen(m, status)
      PROVE  ServerEffect
  <2>1. /\ opens' = opens + 1 /\ UNCHANGED task
        /\ ch' = FreshState(m.authorized_signer, DepositAmount(m))
        /\ UNCHANGED clientVars
    BY <1>2 DEF HandleOpen, ProcessOpen
  <2>2. /\ ch'.cumulative = 0 /\ ch'.next_delivery_sequence = 0
        /\ ch'.pending_deliveries = {} /\ ch'.committed_deliveries = {}
    BY <2>1 DEF FreshState
  <2>3. Opening
    BY <2>1, <2>2 DEF Opening, clientVars, otherClientVars
  <2> QED BY <2>1, <2>3 DEF ServerEffect, clientVars, otherClientVars
<1>3. ASSUME NEW m \in wire, HandleCommit(m)
      PROVE  ServerEffect
  <2>1. /\ m.action = "commit" /\ m.voucher \in Vouchers
        /\ m = Commit(m.delivery_id, m.voucher) /\ UNCHANGED otherClientVars
    BY <1>1, <1>3, RequestFields DEF HandleCommit
  <2>2. CASE ProcessCommitReplay(m.voucher, m.delivery_id) /\ Answer(m.delivery_id, m.voucher)
    <3>1. PICK c \in ch.committed_deliveries : c.delivery_id = m.delivery_id /\ SettledBy(c, m.voucher)
      BY <2>2 DEF ProcessCommitReplay, CommittedWith
    <3>2. UNCHANGED <<ch, opens, task>>
      BY <2>2 DEF ProcessCommitReplay
    <3>3. Replaying
      BY <2>1, <2>2, <3>1, <3>2 DEF Replaying, TasksEnd
    <3> QED BY <2>1, <3>2, <3>3 DEF ServerEffect, otherClientVars
  <2>3. ASSUME NEW w \in Workers, ProcessCommitCheck(w, m.voucher, m.delivery_id), UNCHANGED call
        PROVE  ServerEffect
    <3> DEFINE t == [op |-> "commit", voucher |-> m.voucher, delivery_id |-> m.delivery_id,
                     now |-> now]
    <3>1. UNCHANGED <<ch, opens>> /\ task' = [task EXCEPT ![w] = t]
      BY <2>3 DEF ProcessCommitCheck
    <3>2. t.op = "commit" /\ m = Commit(t.delivery_id, t.voucher)
      BY <2>1
    <3> HIDE DEF t
    <3>3. Taking
      BY <1>1, <2>1, <2>3, <3>1, <3>2, OneTask DEF Taking
    <3> QED BY <2>1, <3>1, <3>3 DEF ServerEffect, otherClientVars
  <2> QED BY <1>3, <2>2, <2>3 DEF HandleCommit
<1> QED BY <1>2, <1>3, ContinueEffect, VoucherEffect, OtherEffect DEF ServerStep, OtherStep


\* All of them leave the client's books and the wire alone, and the commit in
\* flight, but for its answer.
SameCall ==
  /\ call' = None <=> call = None
  /\ call # None =>
       /\ call' \in Calls
       /\ call'.delivery_id = call.delivery_id /\ call'.voucher = call.voucher

ServerKeeps ==
  /\ UNCHANGED <<session, inbox, acked, doubt, strayed, increments>>
  /\ SameCall
  /\ wire' = wire

\* A record of a call is not None.
LEMMA CallsAreNotNone == \A c \in Calls : c # None
<1>1. Calls \subseteq [delivery_id : Nat, voucher : SignedVoucher, answered : BOOLEAN]
  BY ConstantsAssumption DEF Calls
<1> QED BY <1>1, ClientAssumption

\* A receipt reaches the call that waits for it, and no other.
LEMMA AnswerKeeps ==
  ASSUME ClientTypes, NEW id, NEW v, Answer(id, v)
  PROVE  /\ SameCall
         /\ call' # None /\ call'.answered =>
              call.answered \/ (call.delivery_id = id /\ call.voucher = v)
<1>1. CASE call # None /\ call.delivery_id = id /\ call.voucher = v
  <2>1. call \in Calls
    BY <1>1 DEF ClientTypes
  <2>2. call' = [call EXCEPT !.answered = TRUE]
    BY <1>1 DEF Answer
  <2>3. /\ call' \in Calls
        /\ call'.delivery_id = call.delivery_id /\ call'.voucher = call.voucher
    BY <2>1, <2>2 DEF Calls
  <2> QED BY <1>1, <2>3, CallsAreNotNone DEF SameCall
<1>2. CASE ~(call # None /\ call.delivery_id = id /\ call.voucher = v)
  <2>1. call' = call
    BY <1>2 DEF Answer
  <2> QED BY <2>1 DEF SameCall, ClientTypes
<1> QED BY <1>1, <1>2

LEMMA EffectKeeps ==
  ASSUME ClientTypes, ServerEffect
  PROVE  ServerKeeps
<1>1. ASSUME call' = call PROVE SameCall
  BY <1>1 DEF SameCall, ClientTypes
<1>2. CASE Opening
  BY <1>1, <1>2 DEF Opening, ServerEffect, ServerKeeps
<1>3. CASE UNCHANGED wire /\ (Quiet \/ ForDirectVoucher \/ Taking \/ Reserving)
  BY <1>1, <1>3 DEF Quiet, ForDirectVoucher, Taking, Reserving, ServerEffect, ServerKeeps
<1>4. CASE UNCHANGED wire /\ (Replaying \/ Committing)
  <2>1. SameCall
    BY <1>4, AnswerKeeps DEF Replaying, Committing
  <2> QED BY <1>4, <2>1 DEF ServerEffect, ServerKeeps
<1> QED BY <1>2, <1>3, <1>4 DEF ServerEffect

-----------------------------------------------------------------------------
(* What a step of the client does.                                          *)

\* A request without a voucher is sent.
Telling ==
  /\ UNCHANGED <<session, inbox, call, acked, doubt, strayed, increments>>
  /\ \E m \in Requests :
       /\ \/ m.action = "open" /\ ~Opened
          \/ m.action = "topup"
          \/ m.action = "close" /\ m.voucher = None
       /\ wire' = wire \cup {m}

\* A voucher is signed directly and sent.
Signing ==
  /\ call = None
  /\ UNCHANGED <<inbox, call, acked, doubt>>
  /\ \E amount \in Nat, m \in Requests :
       /\ m.action \in {"voucher", "close"} /\ m.voucher = PrepareIncrement(amount)
       /\ SignIncrement(amount, m.voucher)
       /\ wire' = wire \cup {m}

ClientEffect ==
  /\ UNCHANGED vars
  /\ \/ Telling
     \/ Signing
     \/ \E e \in Expiries : SetExpiresAt(e)
     \/ \E p \in ch.pending_deliveries : Accept(p, ChannelId)
     \/ \E directive \in inbox : CommitDirective(directive)
     \/ CommitReply
     \/ CommitFails

\* Every step of the client is of one of these kinds.
LEMMA ClientEffects ==
  ASSUME ClientStep
  PROVE  ClientEffect
<1>1. ASSUME NEW payload \in Openings, OpenAction(payload)
      PROVE  Telling
  <2>1. payload \in Requests /\ payload.action = "open"
    BY OpeningsAssumption, OpenIsRequest
  <2> QED BY <1>1, <2>1 DEF OpenAction, Send, Telling
<1>2. ASSUME NEW amount \in Increments, VoucherAction(amount)
      PROVE  Signing
  <2> DEFINE m == [action |-> "voucher", voucher |-> PrepareIncrement(amount)]
  <2>1. /\ call = None /\ SignIncrement(amount, m.voucher) /\ wire' = wire \cup {m}
        /\ UNCHANGED <<inbox, call, acked, doubt>>
    BY <1>2 DEF VoucherAction, Send
  <2>2. m \in [action : {"voucher"}, voucher : Vouchers]
    BY <2>1 DEF SignIncrement, Exceeds
  <2>3. m \in Requests /\ m.action = "voucher" /\ m.voucher = PrepareIncrement(amount)
    BY <2>2 DEF Requests
  <2>4. amount \in Nat
    BY ClientAssumption
  <2> HIDE DEF m
  <2> QED BY <2>1, <2>3, <2>4 DEF Signing
<1>3. ASSUME NEW amount \in Increments \cup {0}, CloseAction(amount)
      PROVE  Telling \/ Signing
  <2> DEFINE n == [action |-> "close", voucher |-> None]
             m == [action |-> "close", voucher |-> PrepareIncrement(amount)]
  <2>1. CASE /\ wire' = wire \cup {n} /\ UNCHANGED <<session, strayed, increments>>
    <3>1. n \in Requests /\ n.action = "close" /\ n.voucher = None
      BY DEF Requests
    <3> HIDE DEF n
    <3> QED BY <1>3, <2>1, <3>1 DEF CloseAction, Telling
  <2>2. CASE SignIncrement(amount, m.voucher) /\ wire' = wire \cup {m}
    <3>1. m \in [action : {"close"}, voucher : Vouchers \cup {None}]
      BY <2>2 DEF SignIncrement, Exceeds
    <3>2. m \in Requests /\ m.action = "close" /\ m.voucher = PrepareIncrement(amount)
      BY <3>1 DEF Requests
    <3>3. amount \in Nat
      BY ClientAssumption
    <3> HIDE DEF m
    <3> QED BY <1>3, <2>2, <3>2, <3>3 DEF CloseAction, Signing
  <2> QED BY <1>3, <2>1, <2>2 DEF CloseAction, Send
<1>4. ASSUME NEW deposit \in Deposits, TopupAction(deposit)
      PROVE  Telling
  <2> DEFINE m == [action |-> "topup", new_deposit |-> deposit]
  <2>1. m \in Requests /\ m.action = "topup"
    BY DEF Requests
  <2>2. /\ wire' = wire \cup {m}
        /\ UNCHANGED <<session, inbox, call, acked, doubt, strayed, increments>>
    BY <1>4 DEF TopupAction, Send
  <2> HIDE DEF m
  <2> QED BY <2>1, <2>2 DEF Telling
<1>5. ASSUME NEW p \in ch.pending_deliveries, NEW id \in {ChannelId, OtherChannel}, Accept(p, id)
      PROVE  id = ChannelId
  BY <1>5 DEF Accept, ValidateDirective, Directive
<1> QED BY <1>1, <1>2, <1>3, <1>4, <1>5, ClientStepStutters DEF ClientStep, ClientEffect

\* The voucher a client signs next: its cumulative is a u64, and adds no more than the
\* amount, and exactly the amount when it exceeds the watermark.
LEMMA IncrementAdds ==
  ASSUME ClientTypes, NEW amount \in Nat
  PROVE  LET v == PrepareIncrement(amount) IN
           /\ v.cumulative \in Nat /\ v.cumulative < U64
           /\ v.cumulative <= session.cumulative + amount
           /\ v.cumulative > session.cumulative =>
                amount # 0 /\ (amount < U64 => v.cumulative = session.cumulative + amount)
<1> DEFINE a == session.cumulative
<1>1. a \in Nat /\ a < U64 /\ U64 \in Nat \ {0}
  BY ConstantsAssumption DEF ClientTypes
<1>2. PrepareIncrement(amount).cumulative = (a + amount) % U64
  BY DEF PrepareIncrement, PrepareVoucher, AddU64
<1> HIDE DEF a
<1>3. a + amount \in Nat
  BY <1>1
<1>4. \A x \in Nat : x % U64 \in Nat /\ x % U64 < U64 /\ (x < U64 => x % U64 = x)
  BY <1>1
<1>5. \A x \in Nat : x >= U64 => x % U64 <= x
  BY <1>1, <1>4
<1>6. \A x \in Nat : x >= U64 /\ x < U64 + U64 => x % U64 = x - U64
  BY <1>1
<1> QED BY <1>1, <1>2, <1>3, <1>4, <1>5, <1>6 DEF a


-----------------------------------------------------------------------------
(* The parts of the invariant, one after the other.                         *)

\* The client's variables keep their types.
LEMMA TypesStep ==
  ASSUME IInv, ClientTypes, ServerEffect \/ ClientEffect
  PROVE  ClientTypes'
<1>1. CASE ServerEffect
  <2>1. ServerKeeps
    BY <1>1, EffectKeeps
  <2>2. \A p \in ch'.pending_deliveries : p.amount \in DeliveryAmounts
    BY <1>1 DEF ServerEffect, Opening, Quiet, ForDirectVoucher, Taking, Reserving, Replaying,
                Committing, CommittedAs, KeptDeliveries, ClientTypes
  <2>3. call' # None => call' \in Calls /\ call'.voucher.cumulative < U64
    BY <2>1 DEF ServerKeeps, SameCall, ClientTypes
  <2> QED BY <2>1, <2>2, <2>3 DEF ServerKeeps, ClientTypes
<1>2. CASE ClientEffect
  <2>1. UNCHANGED ch
    BY <1>2 DEF ClientEffect, vars
  <2>2. CASE Telling
    BY <2>1, <2>2 DEF Telling, ClientTypes
  <2>3. CASE Signing
    <3>1. PICK amount \in Nat, m \in Requests :
            /\ m.voucher = PrepareIncrement(amount)
            /\ SignIncrement(amount, m.voucher)
            /\ wire' = wire \cup {m}
      BY <2>3 DEF Signing
    <3>2. m.voucher.cumulative \in 0..(U64 - 1)
      BY <3>1, IncrementAdds, ConstantsAssumption
    <3>3. session' = [session EXCEPT !.cumulative = m.voucher.cumulative]
      BY <3>1 DEF SignIncrement, RecordVoucher
    <3>4. session' \in [cumulative : 0..(U64 - 1), expires_at : Expiries]
      BY <3>2, <3>3 DEF ClientTypes
    <3>5. strayed' \in BOOLEAN /\ increments' \in Nat
      BY <3>1 DEF SignIncrement, ClientTypes
    <3> QED BY <2>1, <2>3, <3>1, <3>4, <3>5 DEF Signing, ClientTypes
  <2>4. ASSUME NEW e \in Expiries, SetExpiresAt(e)
        PROVE  ClientTypes'
    <3>1. session' \in [cumulative : 0..(U64 - 1), expires_at : Expiries]
      BY <2>4 DEF SetExpiresAt, ClientTypes
    <3>2. strayed' \in BOOLEAN
      BY <2>4 DEF SetExpiresAt, ClientTypes
    <3> QED BY <2>1, <2>4, <3>1, <3>2 DEF SetExpiresAt, ClientTypes
  <2>5. ASSUME NEW p \in ch.pending_deliveries, Accept(p, ChannelId)
        PROVE  ClientTypes'
    <3>1. p \in PendingDelivery /\ p.amount \in DeliveryAmounts
      BY DEF IInv, TypeOK, ChannelState, ClientTypes
    <3>2. Directive(p, ChannelId) \in Directives
      BY <3>1 DEF PendingDelivery, Directive, Directives
    <3>3. IsFiniteSet(inbox \cup {Directive(p, ChannelId)})
      BY FS_AddElement DEF ClientTypes
    <3> QED BY <2>1, <2>5, <3>2, <3>3 DEF Accept, ClientTypes
  <2>6. ASSUME NEW directive \in inbox, CommitDirective(directive)
        PROVE  ClientTypes'
    <3> DEFINE v == PrepareIncrement(directive.amount)
               m == Commit(directive.delivery_id, v)
    <3>1. /\ v \in Vouchers /\ UNCHANGED <<session, inbox, increments>>
          /\ call' = [delivery_id |-> directive.delivery_id, voucher |-> v, answered |-> FALSE]
          /\ wire' = wire \cup {m}
          /\ strayed' = (strayed \/ doubt \ {directive.delivery_id} # {})
      BY <2>6 DEF CommitDirective, Exceeds, PrepareKeeps, Send, Commit
    <3>2. directive.delivery_id \in Nat /\ directive.amount \in Nat
      BY ConstantsAssumption DEF ClientTypes, Directives
    <3>3. v.cumulative < U64
      BY <3>2, IncrementAdds
    <3> HIDE DEF v
    <3>4. m \in Requests
      BY <3>1, <3>2 DEF Requests, Commit
    <3>5. call' \in Calls /\ call'.voucher.cumulative < U64
      BY <3>1, <3>2, <3>3 DEF Calls
    <3> HIDE DEF m
    <3>6. strayed' \in BOOLEAN
      BY <3>1 DEF ClientTypes
    <3> QED BY <2>1, <3>1, <3>4, <3>5, <3>6 DEF ClientTypes
  <2>7. CASE CommitReply
    <3>1. call.voucher.cumulative \in 0..(U64 - 1)
      BY <2>7, VoucherType, ConstantsAssumption DEF CommitReply, ClientTypes, Calls
    <3>2. session' \in [cumulative : 0..(U64 - 1), expires_at : Expiries]
      BY <2>7, <3>1 DEF CommitReply, RecordVoucher, ClientTypes
    <3> QED BY <2>1, <2>7, <3>2 DEF CommitReply, ClientTypes
  <2>8. CASE CommitFails
    BY <2>1, <2>8 DEF CommitFails, ClientTypes
  <2> QED BY <1>2, <2>2, <2>3, <2>4, <2>5, <2>6, <2>7, <2>8 DEF ClientEffect
<1> QED BY <1>1, <1>2

\* The channel is not stored before it is opened.
LEMMA OpenedStep ==
  ASSUME IInv, NotYetOpened, ServerEffect \/ ClientEffect
  PROVE  NotYetOpened'
<1>1. CASE ServerEffect /\ Opening
  BY <1>1 DEF Opening, NotYetOpened, IInv, TypeOK
<1>2. CASE UNCHANGED opens /\ (opens = 0 => UNCHANGED ch)
  BY <1>2 DEF NotYetOpened
<1> QED BY <1>1, <1>2 DEF ServerEffect, ClientEffect, vars

\* Opens are only added.
LEMMA OpensGrow ==
  ASSUME IInv, ServerEffect \/ ClientEffect, opens' <= 1
  PROVE  opens <= 1
BY DEF ServerEffect, Opening, ClientEffect, vars, IInv, TypeOK

\* What is sent with a new commit.
LEMMA CommitSends ==
  ASSUME ClientTypes, NEW directive \in inbox, CommitDirective(directive)
  PROVE  LET v == PrepareIncrement(directive.amount)
             m == Commit(directive.delivery_id, v) IN
           /\ call = None /\ directive.delivery_id \notin acked
           /\ v \in Vouchers /\ v.cumulative > session.cumulative
           /\ m \in Requests /\ m.action = "commit" /\ m.voucher = v
           /\ m.delivery_id = directive.delivery_id
           /\ wire' = wire \cup {m}
           /\ call' # None /\ ~call'.answered
           /\ call'.delivery_id = directive.delivery_id /\ call'.voucher = v
           /\ strayed' = (strayed \/ doubt \ {directive.delivery_id} # {})
           /\ UNCHANGED <<session, inbox, acked, doubt, increments>>
<1> DEFINE v == PrepareIncrement(directive.amount)
           m == Commit(directive.delivery_id, v)
<1>1. /\ v \in Vouchers /\ v.cumulative > session.cumulative
      /\ UNCHANGED <<session, inbox, acked, doubt, increments>>
      /\ call = None /\ directive.delivery_id \notin acked
      /\ call' = [delivery_id |-> directive.delivery_id, voucher |-> v, answered |-> FALSE]
      /\ wire' = wire \cup {m}
      /\ strayed' = (strayed \/ doubt \ {directive.delivery_id} # {})
  BY DEF CommitDirective, Exceeds, PrepareKeeps, Send, Commit
<1>2. directive.delivery_id \in Nat
  BY DEF ClientTypes, Directives
<1> HIDE DEF v
<1>3. /\ m \in Requests /\ m.action = "commit" /\ m.voucher = v
      /\ m.delivery_id = directive.delivery_id
  BY <1>1, <1>2 DEF Requests, Commit
<1>4. call' \in Calls
  BY <1>1, <1>2 DEF Calls
<1>5. call' # None
  BY <1>4, CallsAreNotNone
<1>6. ~call'.answered /\ call'.delivery_id = directive.delivery_id /\ call'.voucher = v
  BY <1>1
<1> HIDE DEF m
<1> QED BY <1>1, <1>3, <1>5, <1>6 DEF v, m

\* Other steps put no commit on the wire.
LEMMA OthersSend ==
  ASSUME Telling \/ Signing
  PROVE  \E m \in Requests : wire' = wire \cup {m} /\ m.action # "commit"
BY DEF Telling, Signing

\* The books stay in order.
LEMMA BooksStep ==
  ASSUME ClientTypes, Books, ServerEffect \/ ClientEffect
  PROVE  Books'
<1>1. CASE ServerEffect
  <2>1. ServerKeeps
    BY <1>1, EffectKeeps
  <2>2. Unresolved' = Unresolved
    BY <2>1 DEF ServerKeeps, SameCall, Unresolved
  <2>3. call # None => Commit(call.delivery_id, call.voucher).action # "open"
    BY DEF Commit
  <2>4. call' # None => call'.delivery_id \notin acked' /\ Commit(call'.delivery_id, call'.voucher) \in wire'
    BY <2>1, <2>3 DEF ServerKeeps, SameCall, Books
  <2>5. \A m \in wire : m.action = "commit" => m \in wire'
    BY <2>1 DEF ServerKeeps
  <2> QED BY <2>1, <2>2, <2>4, <2>5 DEF Books, ServerKeeps
<1>2. CASE ClientEffect /\ (Telling \/ Signing)
  <2>1. UNCHANGED <<inbox, call, acked, doubt>>
    BY <1>2 DEF Telling, Signing
  <2>2. Unresolved' = Unresolved
    BY <2>1 DEF Unresolved
  <2> QED BY <1>2, <2>1, <2>2, OthersSend DEF Books
<1>3. ASSUME NEW e \in Expiries, SetExpiresAt(e)
      PROVE  Books'
  BY <1>3 DEF SetExpiresAt, Books, Unresolved
<1>4. ASSUME NEW p \in ch.pending_deliveries, Accept(p, ChannelId)
      PROVE  Books'
  <2>1. Directive(p, ChannelId).delivery_id = p.delivery_id
    BY DEF Directive
  <2>2. /\ inbox' = inbox \cup {Directive(p, ChannelId)}
        /\ \A d \in inbox : d.delivery_id # p.delivery_id
        /\ UNCHANGED <<call, wire, acked, doubt>>
    BY <1>4 DEF Accept
  <2>3. Unresolved' = Unresolved
    BY <2>2 DEF Unresolved
  <2> QED BY <2>1, <2>2, <2>3 DEF Books
<1>5. ASSUME NEW directive \in inbox, CommitDirective(directive)
      PROVE  Books'
  <2> DEFINE v == PrepareIncrement(directive.amount)
             m == Commit(directive.delivery_id, v)
  <2>1. /\ call = None /\ directive.delivery_id \notin acked
        /\ m.action = "commit" /\ m.delivery_id = directive.delivery_id
        /\ wire' = wire \cup {m}
        /\ call' # None
        /\ call'.delivery_id = directive.delivery_id /\ call'.voucher = v
        /\ UNCHANGED <<inbox, acked, doubt>>
    BY <1>5, CommitSends
  <2>2. Unresolved' = Unresolved \cup {directive.delivery_id}
    BY <2>1 DEF Unresolved
  <2>3. Commit(call'.delivery_id, call'.voucher) = m
    BY <2>1
  <2> HIDE DEF m, v
  <2> QED BY <2>1, <2>2, <2>3 DEF Books
<1>6. CASE CommitReply
  <2>1. /\ call # None /\ call' = None /\ UNCHANGED <<inbox, wire>>
        /\ acked' = acked \cup {call.delivery_id}
        /\ doubt' = doubt \ {call.delivery_id}
    BY <1>6 DEF CommitReply
  <2>2. acked' \cup Unresolved' = acked \cup Unresolved
    BY <2>1 DEF Unresolved
  <2>3. \E m \in wire : m.action = "commit" /\ m.delivery_id = call.delivery_id
    BY <2>1 DEF Books, Commit
  <2> QED BY <2>1, <2>2, <2>3 DEF Books
<1>7. CASE CommitFails
  <2>1. /\ call # None /\ call' = None /\ UNCHANGED <<inbox, wire, acked>>
        /\ doubt' = doubt \cup {call.delivery_id}
    BY <1>7 DEF CommitFails
  <2>2. Unresolved' = Unresolved
    BY <2>1 DEF Unresolved
  <2> QED BY <2>1, <2>2 DEF Books
<1> QED BY <1>1, <1>2, <1>3, <1>4, <1>5, <1>6, <1>7 DEF ClientEffect

\* While one delivery is resolved before the next, a retry repeats its commit.
LEMMA OneAtATimeStep ==
  ASSUME ClientTypes, Books, OneAtATime, ServerEffect \/ ClientEffect
  PROVE  OneAtATime'
<1>1. CASE ServerEffect
  <2>1. ServerKeeps
    BY <1>1, EffectKeeps
  <2>2. Unresolved' = Unresolved
    BY <2>1 DEF ServerKeeps, SameCall, Unresolved
  <2> QED BY <2>1, <2>2 DEF OneAtATime, ServerKeeps, PrepareIncrement, PrepareVoucher
<1>2. CASE Telling
  <2>1. UNCHANGED <<session, inbox, call, acked, doubt, strayed>>
    BY <1>2 DEF Telling
  <2>2. Unresolved' = Unresolved
    BY <2>1 DEF Unresolved
  <2> QED BY <1>2, <2>1, <2>2, OthersSend DEF OneAtATime, PrepareIncrement, PrepareVoucher
<1>3. ASSUME Signing \/ \E e \in Expiries : SetExpiresAt(e)
      PROVE  OneAtATime'
  <2> SUFFICES ASSUME ~strayed' PROVE OneAtATime'
    BY DEF OneAtATime
  <2>1. /\ UNCHANGED <<inbox, call, acked, doubt>> /\ call = None /\ doubt = {}
    BY <1>3 DEF Signing, SignIncrement, SetExpiresAt
  <2>2. Unresolved = {} /\ Unresolved' = {}
    BY <2>1 DEF Unresolved
  <2>3. wire' = wire \/ \E m \in Requests : wire' = wire \cup {m} /\ m.action # "commit"
    BY <1>3, OthersSend DEF SetExpiresAt
  <2>4. \A m \in wire' : m.action = "commit" => m.delivery_id \in acked'
    BY <2>1, <2>2, <2>3 DEF Books
  <2> QED BY <2>2, <2>4 DEF OneAtATime
<1>4. ASSUME NEW p \in ch.pending_deliveries, Accept(p, ChannelId)
      PROVE  OneAtATime'
  <2>1. Directive(p, ChannelId).delivery_id = p.delivery_id
    BY DEF Directive
  <2>2. /\ inbox' = inbox \cup {Directive(p, ChannelId)}
        /\ \A d \in inbox : d.delivery_id # p.delivery_id
        /\ UNCHANGED <<session, call, wire, acked, doubt, strayed>>
    BY <1>4 DEF Accept
  <2>3. Unresolved' = Unresolved
    BY <2>2 DEF Unresolved
  <2>4. \A m \in wire : m.action = "commit" => m.delivery_id # p.delivery_id
    BY <2>2 DEF Books
  <2> QED BY <2>1, <2>2, <2>3, <2>4 DEF OneAtATime, PrepareIncrement, PrepareVoucher
<1>5. ASSUME NEW directive \in inbox, CommitDirective(directive)
      PROVE  OneAtATime'
  <2> DEFINE v == PrepareIncrement(directive.amount)
             m == Commit(directive.delivery_id, v)
  <2> SUFFICES ASSUME ~strayed' PROVE OneAtATime'
    BY DEF OneAtATime
  <2>1. /\ call = None /\ UNCHANGED <<session, inbox, acked, doubt>>
        /\ m.action = "commit" /\ m.delivery_id = directive.delivery_id /\ m.voucher = v
        /\ wire' = wire \cup {m}
        /\ call' # None /\ call'.delivery_id = directive.delivery_id
        /\ strayed' = (strayed \/ doubt \ {directive.delivery_id} # {})
    BY <1>5, CommitSends
  <2>2. ~strayed /\ doubt \subseteq {directive.delivery_id}
    BY <2>1
  <2>3. \A a \in Unresolved' : a = directive.delivery_id
    BY <2>1, <2>2 DEF Unresolved
  <2>4. \A d \in inbox : d.delivery_id = directive.delivery_id => d = directive
    BY DEF Books
  <2>6. ASSUME NEW n \in wire', NEW d \in inbox', n.action = "commit", n.delivery_id \notin acked',
               d.delivery_id = n.delivery_id
        PROVE  n.voucher = PrepareIncrement(d.amount)
    <3>1. CASE n = m
      <4>1. d = directive
        BY <2>1, <2>4, <2>6, <3>1
      <4> QED BY <2>1, <3>1, <4>1
    <3>2. CASE n \in wire
      BY <2>1, <2>2, <2>6, <3>2 DEF OneAtATime
    <3> QED BY <2>1, <3>1, <3>2
  <2> HIDE DEF m, v
  <2>7. ASSUME NEW n \in wire', NEW d \in inbox', n.action = "commit", n.delivery_id \notin acked',
               d.delivery_id = n.delivery_id
        PROVE  n.voucher = PrepareIncrement(d.amount)'
    BY <2>1, <2>6, <2>7 DEF PrepareIncrement, PrepareVoucher
  <2> QED BY <2>3, <2>7 DEF OneAtATime
<1>6. CASE CommitReply
  <2> SUFFICES ASSUME ~strayed' PROVE OneAtATime'
    BY DEF OneAtATime
  <2>1. /\ call # None /\ call' = None /\ UNCHANGED <<inbox, wire, strayed>>
        /\ acked' = acked \cup {call.delivery_id}
        /\ doubt' = doubt \ {call.delivery_id}
    BY <1>6 DEF CommitReply
  <2>2. \A a \in Unresolved : a = call.delivery_id
    BY <2>1 DEF OneAtATime, Unresolved
  <2>3. Unresolved' = {}
    BY <2>1, <2>2 DEF Unresolved
  <2>4. \A m \in wire' : m.action = "commit" => m.delivery_id \in acked'
    BY <2>1, <2>2 DEF Books
  <2> QED BY <2>3, <2>4 DEF OneAtATime
<1>7. CASE CommitFails
  <2>1. /\ call # None /\ call' = None /\ UNCHANGED <<session, inbox, wire, acked, strayed>>
        /\ doubt' = doubt \cup {call.delivery_id}
    BY <1>7 DEF CommitFails
  <2>2. Unresolved' = Unresolved
    BY <2>1 DEF Unresolved
  <2> QED BY <2>1, <2>2 DEF OneAtATime, PrepareIncrement, PrepareVoucher
<1> QED BY <1>1, <1>2, <1>3, <1>4, <1>5, <1>6, <1>7 DEF ClientEffect


\* Before the first open nothing is committed and nothing is owed.
LEMMA NothingYet ==
  ASSUME NotYetOpened, opens = 0
  PROVE  ch.cumulative = 0 /\ ch.pending_deliveries = {} /\ ch.committed_deliveries = {}
BY DEF NotYetOpened, FreshState

\* As long as the open is handled once, it is when the channel is not in the store.
LEMMA OpeningIsFirst ==
  ASSUME IInv, NotYetOpened, Opening, opens' <= 1
  PROVE  /\ ch.cumulative = 0 /\ ch.committed_deliveries = {}
         /\ ch.pending_deliveries = {} /\ opens = 0
<1>1. opens = 0
  BY DEF IInv, TypeOK, Opening
<1> QED BY <1>1, NothingYet

\* What the server does with commits comes from the wire.
LEMMA FromTheWireStep ==
  ASSUME IInv, ClientTypes, NotYetOpened, Books, FromTheWire, ServerEffect \/ ClientEffect
  PROVE  FromTheWire'
<1>0. opens' <= 1 => opens <= 1
  BY OpensGrow
<1>1. CASE ServerEffect
  <2>1. ServerKeeps
    BY <1>1, EffectKeeps
  <2>2. \A id, v : Commit(id, v) \in wire => Commit(id, v) \in wire'
    BY <2>1 DEF ServerKeeps, Commit
  <2>3. \A w \in Workers : task'[w].op = "commit" =>
          Commit(task'[w].delivery_id, task'[w].voucher) \in wire'
    <3>1. CASE Opening \/ Reserving
      BY <2>2, <3>1 DEF Opening, Reserving, FromTheWire
    <3>2. CASE TasksEnd
      BY <2>2, <3>2 DEF TasksEnd, FromTheWire
    <3>3. CASE ForDirectVoucher
      BY <2>2, <3>3 DEF ForDirectVoucher, FromTheWire
    <3>4. CASE Taking /\ UNCHANGED wire
      BY <3>4 DEF Taking, FromTheWire
    <3> QED BY <1>1, <3>1, <3>2, <3>3, <3>4 DEF ServerEffect, Quiet, Replaying, Committing
  <2>4. CASE Opening
    <3>1. ch'.committed_deliveries = {} /\ call' = call
      BY <2>4 DEF Opening
    <3>2. opens' <= 1 => ch.committed_deliveries = {} /\ opens <= 1
      BY <2>4, OpeningIsFirst
    <3> QED BY <2>3, <3>1, <3>2 DEF FromTheWire
  <2>5. CASE UNCHANGED wire /\ (Quiet \/ ForDirectVoucher \/ Taking \/ Reserving)
    <3>1. ch'.committed_deliveries = ch.committed_deliveries /\ call' = call
      BY <2>5 DEF Quiet, ForDirectVoucher, Taking, Reserving, KeptDeliveries
    <3> QED BY <1>0, <2>3, <2>5, <3>1 DEF FromTheWire
  <2>6. CASE UNCHANGED wire /\ Replaying
    <3>1. PICK c \in ch.committed_deliveries, v \in Vouchers :
            SettledBy(c, v) /\ Answer(c.delivery_id, v)
      BY <2>6 DEF Replaying
    <3>2. ch' = ch
      BY <2>6 DEF Replaying
    <3>3. call' # None /\ call'.answered =>
            call.answered \/ (call.delivery_id = c.delivery_id /\ call.voucher = v)
      BY <3>1, AnswerKeeps
    <3>4. opens' <= 1 /\ call' # None /\ call'.answered =>
            \E d \in ch.committed_deliveries :
              d.delivery_id = call'.delivery_id /\ SettledBy(d, call'.voucher)
      BY <1>0, <2>1, <3>1, <3>3 DEF ServerKeeps, SameCall, FromTheWire
    <3> QED BY <2>3, <2>6, <3>2, <3>4 DEF FromTheWire
  <2>7. CASE UNCHANGED wire /\ Committing
    <3>1. PICK w, p, c :
            /\ w \in Workers /\ task[w].op = "commit" /\ c.delivery_id = task[w].delivery_id
            /\ CommittedAs(p, c, task[w].voucher)
            /\ Answer(c.delivery_id, task[w].voucher)
      BY <2>7 DEF Committing
    <3> DEFINE v == task[w].voucher
    <3>2. ch'.committed_deliveries = ch.committed_deliveries \cup {c} /\ SettledBy(c, v)
      BY <3>1 DEF CommittedAs
    <3>3. \E m \in wire : m.action = "commit" /\ m.delivery_id = c.delivery_id /\ SettledBy(c, m.voucher)
      <4>1. Commit(c.delivery_id, v) \in wire
        BY <3>1 DEF FromTheWire
      <4>2. /\ Commit(c.delivery_id, v).action = "commit"
            /\ Commit(c.delivery_id, v).delivery_id = c.delivery_id
            /\ Commit(c.delivery_id, v).voucher = v
        BY DEF Commit
      <4> QED BY <3>2, <4>1, <4>2
    <3>4. call' # None /\ call'.answered =>
            call.answered \/ (call.delivery_id = c.delivery_id /\ call.voucher = v)
      BY <3>1, AnswerKeeps
    <3>5. opens' <= 1 /\ call' # None /\ call'.answered =>
            \E d \in ch'.committed_deliveries :
              d.delivery_id = call'.delivery_id /\ SettledBy(d, call'.voucher)
      BY <1>0, <2>1, <3>2, <3>4 DEF ServerKeeps, SameCall, FromTheWire
    <3> QED BY <2>3, <2>7, <3>2, <3>3, <3>5 DEF FromTheWire
  <2> QED BY <1>1, <2>4, <2>5, <2>6, <2>7 DEF ServerEffect
<1>2. CASE ClientEffect
  <2>1. UNCHANGED <<opens, task, ch>> /\ wire \subseteq wire'
    BY <1>2 DEF ClientEffect, vars, Telling, Signing, SetExpiresAt, Accept, CommitDirective,
                Send, CommitReply, CommitFails
  <2>2. call' # None /\ call'.answered => call' = call
    <3>1. ASSUME NEW directive \in inbox, CommitDirective(directive)
          PROVE  ~call'.answered
      BY <3>1, CommitSends
    <3> QED BY <1>2, <3>1 DEF ClientEffect, Telling, Signing, SetExpiresAt, Accept, CommitReply,
                              CommitFails
  <2> QED BY <2>1, <2>2 DEF FromTheWire
<1> QED BY <1>1, <1>2

\* The watermark of the server never goes down while no second open is handled.
LEMMA WatermarkGrows ==
  ASSUME IInv, IInv', NotYetOpened, ServerEffect \/ ClientEffect, opens' <= 1
  PROVE  ch'.cumulative >= ch.cumulative
<1>1. ch.cumulative \in Nat /\ ch'.cumulative \in Nat
  BY DEF IInv, TypeOK, ChannelState
<1>2. CASE ServerEffect
  <2>1. CASE Opening
    BY <1>1, <2>1, OpeningIsFirst
  <2>2. CASE Committing
    BY <1>1, <2>2 DEF Committing, CommittedAs
  <2> QED BY <1>1, <1>2, <2>1, <2>2
          DEF ServerEffect, Quiet, ForDirectVoucher, Taking, Reserving, Replaying
<1>3. CASE ClientEffect
  BY <1>1, <1>3 DEF ClientEffect, vars
<1> QED BY <1>2, <1>3

\* The client does not run ahead.
LEMMA NotAheadStep ==
  ASSUME IInv, IInv', ClientTypes, ClientTypes', NotYetOpened, Books, FromTheWire,
         NotAheadOfServer, ServerEffect \/ ClientEffect
  PROVE  NotAheadOfServer'
<1> SUFFICES ASSUME opens' <= 1 PROVE NotAheadOfServer'
  BY DEF NotAheadOfServer
<1>0. opens <= 1
  BY OpensGrow
<1>1. ch'.cumulative >= ch.cumulative /\ ch.cumulative \in Nat /\ ch'.cumulative \in Nat
  BY WatermarkGrows DEF IInv, TypeOK, ChannelState
<1>2. session.cumulative \in Nat /\ session'.cumulative \in Nat
  BY ConstantsAssumption DEF ClientTypes
<1>3. ASSUME session'.cumulative = session.cumulative, wire \subseteq wire'
      PROVE  NotAheadOfServer'
  BY <1>0, <1>1, <1>2, <1>3 DEF NotAheadOfServer
<1>4. CASE ServerEffect
  BY <1>3, <1>4, EffectKeeps DEF ServerKeeps
<1>5. CASE ClientEffect
  <2>1. CASE Signing
    <3>1. PICK amount \in Nat, m \in Requests :
            /\ m.action \in {"voucher", "close"} /\ m.voucher = PrepareIncrement(amount)
            /\ SignIncrement(amount, m.voucher)
            /\ wire' = wire \cup {m}
      BY <2>1 DEF Signing
    <3>2. m.voucher \in Vouchers /\ session' = [session EXCEPT !.cumulative = m.voucher.cumulative]
      BY <3>1 DEF SignIncrement, Exceeds, RecordVoucher
    <3>3. session'.cumulative = m.voucher.cumulative
      BY <3>2 DEF ClientTypes
    <3>4. m.voucher # None
      BY <3>2, ConstantsAssumption, ClientAssumption
    <3> QED BY <3>1, <3>3, <3>4 DEF NotAheadOfServer
  <2>2. CASE CommitReply
    <3>1. PICK c \in ch.committed_deliveries : SettledBy(c, call.voucher)
      BY <1>0, <2>2 DEF CommitReply, FromTheWire
    <3>2. c.cumulative <= ch.cumulative
      BY DEF IInv, DeliveriesPaidOnce
    <3>3. session' = [session EXCEPT !.cumulative = call.voucher.cumulative]
      BY <2>2 DEF CommitReply, RecordVoucher
    <3>4. session'.cumulative = call.voucher.cumulative
      BY <3>3 DEF ClientTypes
    <3>5. ch' = ch
      BY <1>5 DEF ClientEffect, vars
    <3> QED BY <3>1, <3>2, <3>4, <3>5 DEF SettledBy, NotAheadOfServer
  <2>3. ASSUME NEW e \in Expiries, SetExpiresAt(e)
        PROVE  session'.cumulative = session.cumulative
    BY <2>3 DEF SetExpiresAt, ClientTypes
  <2>4. CASE ~Signing /\ ~CommitReply
    <3>1. session'.cumulative = session.cumulative
      BY <1>5, <2>3, <2>4, CommitSends DEF ClientEffect, Telling, Accept, CommitFails
    <3>2. wire \subseteq wire'
      BY <1>5, <2>4, CommitSends DEF ClientEffect, Telling, SetExpiresAt, Accept, CommitFails
    <3> QED BY <1>3, <3>1, <3>2
  <2> QED BY <2>1, <2>2, <2>4
<1> QED BY <1>4, <1>5


\* Totals over directives are totals of numbers.
LEMMA InboxAmounts ==
  ASSUME ClientTypes, NEW S \in SUBSET inbox
  PROVE  Amounted(S) /\ TotalAmount(S) \in Nat
<1>1. Amounted(inbox)
  BY ConstantsAssumption DEF ClientTypes, Directives, Amounted
<1> QED BY <1>1, TotalPart, TotalWithout

\* The watermark and the voucher in flight add up.
LEMMA AuthorizedStep ==
  ASSUME ClientTypes, ClientTypes', Books, Authorized, ServerEffect \/ ClientEffect
  PROVE  Authorized'
<1>1. /\ TotalAmount(PaidFor) \in Nat /\ TotalAmount(PaidForOrCalled) \in Nat
      /\ session.cumulative \in Nat /\ increments \in Nat
  BY InboxAmounts, ConstantsAssumption DEF PaidFor, PaidForOrCalled, ClientTypes
<1>2. CASE ServerEffect
  <2>1. ServerKeeps
    BY <1>2, EffectKeeps
  <2>2. PaidFor' = PaidFor /\ PaidForOrCalled' = PaidForOrCalled
    BY <2>1 DEF PaidFor, PaidForOrCalled, ServerKeeps, SameCall
  <2>3. TotalAmount(PaidFor') = TotalAmount(PaidFor)
    BY <2>2
  <2>4. TotalAmount(PaidForOrCalled') = TotalAmount(PaidForOrCalled)
    BY <2>2
  <2> QED BY <2>1, <2>3, <2>4 DEF Authorized, ServerKeeps, SameCall
<1>3. CASE Telling \/ (\E e \in Expiries : SetExpiresAt(e))
  <2>1. UNCHANGED <<inbox, call, acked, increments>> /\ session'.cumulative = session.cumulative
    BY <1>3 DEF Telling, SetExpiresAt, ClientTypes
  <2>2. PaidFor' = PaidFor /\ PaidForOrCalled' = PaidForOrCalled
    BY <2>1 DEF PaidFor, PaidForOrCalled
  <2>3. TotalAmount(PaidFor') = TotalAmount(PaidFor)
    BY <2>2
  <2>4. TotalAmount(PaidForOrCalled') = TotalAmount(PaidForOrCalled)
    BY <2>2
  <2> QED BY <2>1, <2>3, <2>4 DEF Authorized
<1>4. CASE Signing
  <2>1. PICK amount \in Nat : SignIncrement(amount, PrepareIncrement(amount))
    BY <1>4 DEF Signing
  <2>2. /\ session' = [session EXCEPT !.cumulative = PrepareIncrement(amount).cumulative]
        /\ increments' = increments + amount
        /\ UNCHANGED <<inbox, call, acked>> /\ call = None
    BY <1>4, <2>1 DEF SignIncrement, RecordVoucher, Signing
  <2>3. session'.cumulative = PrepareIncrement(amount).cumulative
    BY <2>2 DEF ClientTypes
  <2>4. session'.cumulative \in Nat /\ session'.cumulative <= session.cumulative + amount
    BY <2>3, IncrementAdds
  <2>5. PaidFor' = PaidFor
    BY <2>2 DEF PaidFor
  <2>6. TotalAmount(PaidFor') = TotalAmount(PaidFor)
    BY <2>5
  <2> QED BY <1>1, <2>2, <2>4, <2>6 DEF Authorized
<1>5. ASSUME NEW p \in ch.pending_deliveries, Accept(p, ChannelId)
      PROVE  Authorized'
  <2>1. UNCHANGED <<session, call, acked, increments>> /\ inbox \subseteq inbox'
    BY <1>5 DEF Accept
  <2>2. /\ PaidFor \subseteq PaidFor' /\ PaidFor' \subseteq inbox'
        /\ PaidForOrCalled \subseteq PaidForOrCalled' /\ PaidForOrCalled' \subseteq inbox'
    BY <2>1 DEF PaidFor, PaidForOrCalled
  <2>3. Amounted(inbox')
    BY ConstantsAssumption DEF ClientTypes, Directives, Amounted
  <2>4. Amounted(PaidFor') /\ Amounted(PaidForOrCalled')
    BY <2>2, <2>3, TotalPart
  <2>5. /\ TotalAmount(PaidFor') \in Nat /\ TotalAmount(PaidFor) <= TotalAmount(PaidFor')
    BY <2>2, <2>4, TotalPart, TotalWithout
  <2>6. /\ TotalAmount(PaidForOrCalled') \in Nat
        /\ TotalAmount(PaidForOrCalled) <= TotalAmount(PaidForOrCalled')
    BY <2>2, <2>4, TotalPart, TotalWithout
  <2>7. call # None => call.voucher.cumulative \in Nat
    BY VoucherType DEF ClientTypes, Calls
  <2> QED BY <1>1, <2>1, <2>5, <2>6, <2>7 DEF Authorized
<1>6. ASSUME NEW directive \in inbox, CommitDirective(directive)
      PROVE  Authorized'
  <2> DEFINE v == PrepareIncrement(directive.amount)
  <2>1. /\ call = None /\ directive.delivery_id \notin acked
        /\ call' # None
        /\ call'.delivery_id = directive.delivery_id /\ call'.voucher = v
        /\ UNCHANGED <<session, inbox, acked, increments>>
    BY <1>6, CommitSends
  <2>2. directive.amount \in Nat
    BY ConstantsAssumption DEF ClientTypes, Directives
  <2>3. v.cumulative \in Nat /\ v.cumulative <= session.cumulative + directive.amount
    BY <2>2, IncrementAdds
  <2> HIDE DEF v
  <2>4. PaidFor' = PaidFor /\ directive \notin PaidFor
    BY <2>1 DEF PaidFor
  <2>5. \A d \in inbox : d.delivery_id = directive.delivery_id => d = directive
    BY DEF Books
  <2>6. PaidForOrCalled' = PaidFor \cup {directive}
    BY <2>1, <2>5 DEF PaidFor, PaidForOrCalled
  <2>7. Amounted(PaidFor)
    BY InboxAmounts DEF PaidFor
  <2>8. TotalAmount(PaidFor \cup {directive}) = TotalAmount(PaidFor) + directive.amount
    BY <2>2, <2>4, <2>7, TotalWith
  <2>9. TotalAmount(PaidForOrCalled') = TotalAmount(PaidFor) + directive.amount
    BY <2>6, <2>8
  <2>10. TotalAmount(PaidFor') = TotalAmount(PaidFor)
    BY <2>4
  <2> QED BY <1>1, <2>1, <2>2, <2>3, <2>9, <2>10 DEF Authorized
<1>7. CASE CommitReply
  <2>1. /\ call # None /\ call' = None /\ UNCHANGED <<inbox, increments>>
        /\ acked' = acked \cup {call.delivery_id}
        /\ session' = [session EXCEPT !.cumulative = call.voucher.cumulative]
    BY <1>7 DEF CommitReply, RecordVoucher
  <2>2. PaidFor' = PaidForOrCalled
    BY <2>1 DEF PaidFor, PaidForOrCalled
  <2>3. TotalAmount(PaidFor') = TotalAmount(PaidForOrCalled)
    BY <2>2
  <2>4. session'.cumulative = call.voucher.cumulative
    BY <2>1 DEF ClientTypes
  <2> QED BY <2>1, <2>3, <2>4 DEF Authorized
<1>8. CASE CommitFails
  <2>1. call' = None /\ UNCHANGED <<session, inbox, acked, increments>>
    BY <1>8 DEF CommitFails
  <2>2. PaidFor' = PaidFor
    BY <2>1 DEF PaidFor
  <2>3. TotalAmount(PaidFor') = TotalAmount(PaidFor)
    BY <2>2
  <2> QED BY <2>1, <2>3 DEF Authorized
<1> QED BY <1>2, <1>3, <1>4, <1>5, <1>6, <1>7, <1>8 DEF ClientEffect

\* No step makes less of what was attempted or signed directly.
LEMMA AttemptsGrow ==
  ASSUME ClientTypes, ServerEffect \/ ClientEffect
  PROVE  Attempted \subseteq Attempted' /\ increments' >= increments
<1>1. increments \in Nat
  BY DEF ClientTypes
<1>2. CASE ServerEffect
  BY <1>1, <1>2, EffectKeeps DEF ServerKeeps, Attempted
<1>3. CASE ClientEffect
  <2>1. inbox \subseteq inbox' /\ wire \subseteq wire'
    BY <1>3, CommitSends DEF ClientEffect, Telling, Signing, SetExpiresAt, Accept, CommitReply, CommitFails
  <2>2. increments' >= increments
    <3>1. CASE Signing
      BY <1>1, <3>1 DEF Signing, SignIncrement
    <3>2. CASE ~Signing
      BY <1>1, <1>3, <3>2, CommitSends
         DEF ClientEffect, Telling, SetExpiresAt, Accept, CommitReply, CommitFails
    <3> QED BY <3>1, <3>2
  <2> QED BY <2>1, <2>2 DEF Attempted
<1> QED BY <1>2, <1>3

\* Retries never add up.
LEMMA OverauthorizedStep ==
  ASSUME ClientTypes, ClientTypes', Books, Books', Authorized', NeverOverauthorized,
         ServerEffect \/ ClientEffect
  PROVE  NeverOverauthorized'
<1> DEFINE Signed(m) == m.action \in {"voucher", "close", "commit"} /\ m.voucher # None
<1>1. Amounted(inbox') /\ increments \in Nat /\ increments' \in Nat
  BY ConstantsAssumption DEF ClientTypes, Directives, Amounted
<1>2. Amounted(Attempted') /\ TotalAmount(Attempted') \in Nat
  <2>1. Attempted' \subseteq inbox'
    BY DEF Attempted
  <2> QED BY <1>1, <2>1, TotalPart, TotalWithout
<1>3. /\ TotalAmount(Attempted) \in Nat
      /\ TotalAmount(Attempted) <= TotalAmount(Attempted')
      /\ increments' >= increments
  <2>1. Attempted \in SUBSET inbox
    BY DEF Attempted
  <2> QED BY <1>2, <2>1, AttemptsGrow, TotalPart, InboxAmounts
<1>4. PaidFor' \subseteq Attempted' /\ PaidForOrCalled' \subseteq Attempted'
  <2>1. \A d \in inbox' : d.session_id = ChannelId
    BY DEF ClientTypes, Directives
  <2>2. call' # None => \E m \in wire' : m.action = "commit" /\ m.delivery_id = call'.delivery_id
    BY DEF Books, Commit
  <2> QED BY <2>1, <2>2 DEF PaidFor, PaidForOrCalled, Attempted, Books
<1>5. /\ TotalAmount(PaidFor') \in Nat /\ TotalAmount(PaidFor') <= TotalAmount(Attempted')
      /\ TotalAmount(PaidForOrCalled') \in Nat
      /\ TotalAmount(PaidForOrCalled') <= TotalAmount(Attempted')
  BY <1>2, <1>4, TotalPart, TotalWithout
<1>6. ASSUME NEW m \in wire, Signed(m)
      PROVE  m.voucher.cumulative <= TotalAmount(Attempted') + increments'
  <2>1. m.voucher \in Vouchers
    BY <1>6, RequestFields DEF ClientTypes
  <2>2. m.voucher.cumulative \in Nat
    BY <2>1, VoucherType
  <2>3. m.voucher.cumulative <= TotalAmount(Attempted) + increments
    BY <1>6 DEF NeverOverauthorized
  <2> QED BY <1>1, <1>2, <1>3, <2>2, <2>3
<1>7. ASSUME NEW m \in wire', m \notin wire, Signed(m)
      PROVE  m.voucher.cumulative <= TotalAmount(Attempted') + increments'
  <2>1. ~ServerEffect
    BY <1>7, EffectKeeps DEF ServerKeeps
  <2>2. CASE Signing
    <3>1. PICK amount \in Nat, n \in Requests :
            /\ n.voucher = PrepareIncrement(amount)
            /\ SignIncrement(amount, n.voucher)
            /\ wire' = wire \cup {n}
      BY <2>2 DEF Signing
    <3>2. session' = [session EXCEPT !.cumulative = m.voucher.cumulative] /\ m.voucher \in Vouchers
      BY <1>7, <3>1 DEF SignIncrement, RecordVoucher, Exceeds
    <3>3. session'.cumulative = m.voucher.cumulative /\ m.voucher.cumulative \in Nat
      BY <3>2, VoucherType DEF ClientTypes
    <3>4. session'.cumulative <= TotalAmount(PaidFor') + increments'
      BY DEF Authorized
    <3> QED BY <1>1, <1>2, <1>5, <3>3, <3>4
  <2>3. ASSUME NEW directive \in inbox, CommitDirective(directive)
        PROVE  m.voucher.cumulative <= TotalAmount(Attempted') + increments'
    <3>1. call' # None /\ m.voucher = call'.voucher /\ m.voucher \in Vouchers
      BY <1>7, <2>3, CommitSends
    <3>2. call'.voucher.cumulative <= TotalAmount(PaidForOrCalled') + increments'
      BY <3>1 DEF Authorized
    <3>3. m.voucher.cumulative \in Nat
      BY <3>1, VoucherType
    <3> QED BY <1>1, <1>2, <1>5, <3>1, <3>2, <3>3
  <2>4. ASSUME Telling PROVE FALSE
    BY <1>7, <2>4 DEF Telling
  <2> QED BY <1>7, <2>1, <2>2, <2>3, <2>4
          DEF ClientEffect, SetExpiresAt, Accept, CommitReply, CommitFails
<1> QED BY <1>6, <1>7 DEF NeverOverauthorized


-----------------------------------------------------------------------------
(* The theorems.                                                            *)

\* A stutter of the whole is a quiet step.
LEMMA Effects ==
  ASSUME IInv, ClientTypes, [SessionNext]_sessionVars
  PROVE  ServerEffect \/ ClientEffect
<1>1. ASSUME UNCHANGED sessionVars
      PROVE  ServerEffect
  BY <1>1, SameDeliveries
     DEF sessionVars, vars, clientVars, otherClientVars, ServerEffect, Quiet, TasksEnd
<1> QED BY <1>1, ServerEffects, ClientEffects DEF SessionNext

\* Nothing was sent and nothing is stored.
LEMMA ClientInit == SessionInit => IInv /\ ClientInv
<1> SUFFICES ASSUME SessionInit PROVE IInv /\ ClientInv
  OBVIOUS
<1>1. /\ Init /\ opens = 0 /\ ch = FreshState(None, 0) /\ task = [w \in Workers |-> Idle]
      /\ inbox = {} /\ call = None /\ wire = {} /\ acked = {} /\ doubt = {}
      /\ strayed = FALSE /\ increments = 0 /\ session.cumulative = 0
      /\ session \in [cumulative : 0..(U64 - 1), expires_at : Expiries]
  BY ConstantsAssumption DEF SessionInit, Init
<1>2. ch.cumulative = 0 /\ ch.pending_deliveries = {} /\ ch.committed_deliveries = {}
  BY <1>1 DEF FreshState
<1>3. IInv
  BY <1>1, IndInit
<1>4. ClientTypes
  BY <1>1, <1>2, FS_EmptySet DEF ClientTypes
<1>5. NotYetOpened /\ Books /\ OneAtATime
  BY <1>1 DEF NotYetOpened, Books, OneAtATime, Unresolved
<1>6. \A w \in Workers : task[w].op # "commit"
  BY <1>1 DEF Idle
<1>7. FromTheWire
  BY <1>1, <1>2, <1>6 DEF FromTheWire
<1>8. NotAheadOfServer /\ NeverOverauthorized
  BY <1>1, <1>2 DEF NotAheadOfServer, NeverOverauthorized
<1>9. Authorized
  <2>1. PaidFor = {}
    BY <1>1 DEF PaidFor
  <2>2. TotalAmount(PaidFor) = 0
    BY <2>1, TotalEmpty
  <2> QED BY <1>1, <2>2 DEF Authorized
<1> QED BY <1>3, <1>4, <1>5, <1>7, <1>8, <1>9 DEF ClientInv

LEMMA ClientNext ==
  ASSUME IInv, ClientInv, [SessionNext]_sessionVars
  PROVE  IInv' /\ ClientInv'
<1>1. /\ ClientTypes /\ NotYetOpened /\ Books /\ OneAtATime /\ FromTheWire
      /\ NotAheadOfServer /\ Authorized /\ NeverOverauthorized
  BY DEF ClientInv
<1>2. IInv'
  BY <1>1, StepRefines, IndNext
<1>3. ServerEffect \/ ClientEffect
  BY <1>1, Effects
<1>4. ClientTypes' /\ NotYetOpened'
  BY <1>1, <1>3, TypesStep, OpenedStep
<1>5. Books' /\ OneAtATime'
  BY <1>1, <1>3, BooksStep, OneAtATimeStep
<1>6. FromTheWire'
  BY <1>1, <1>3, FromTheWireStep
<1>7. NotAheadOfServer'
  BY <1>1, <1>2, <1>3, <1>4, NotAheadStep
<1>8. Authorized'
  BY <1>1, <1>3, <1>4, AuthorizedStep
<1>9. NeverOverauthorized'
  BY <1>1, <1>3, <1>4, <1>5, <1>8, OverauthorizedStep
<1> QED BY <1>2, <1>4, <1>5, <1>6, <1>7, <1>8, <1>9 DEF ClientInv

\* The invariant of the server and that of the client hold together, whatever the
\* transport loses, repeats or reorders, the open included.
THEOREM ClientInvariance == SessionSpec => [](IInv /\ ClientInv)
BY ClientInit, ClientNext, PTL DEF SessionSpec

\* Client, transport and server together implement the server's specification: every
\* request a client of the SDK can send is one the server was specified for, so each
\* theorem about the server's Spec holds of the composition.
THEOREM SessionRefinement == SessionSpec => Spec
<1>1. SessionInit => Init
  BY DEF SessionInit
<1>2. ClientInv /\ [SessionNext]_sessionVars => [Next]_vars
  BY StepRefines DEF ClientInv
<1> QED BY <1>1, <1>2, ClientInvariance, PTL DEF SessionSpec, Spec

\* As long as the open is handled once, the client's watermark is one the server has
\* stored, or that of a voucher signed directly, however commits are lost, repeated or
\* answered late (prepare_voucher and record_voucher around the await of
\* commit_directive).
THEOREM NotAheadTheorem == SessionSpec => []NotAheadOfServer
<1>1. ClientInv => NotAheadOfServer
  BY DEF ClientInv
<1> QED BY <1>1, ClientInvariance, PTL

\* No voucher on the wire authorizes more than the deliveries attempted, each counted
\* once, and the increments signed directly, however often a commit is retried.
THEOREM OverauthorizedTheorem == SessionSpec => []NeverOverauthorized
<1>1. ClientInv => NeverOverauthorized
  BY DEF ClientInv
<1> QED BY <1>1, ClientInvariance, PTL

\* A delivery that was committed without the client learning of it is replayed, not
\* paid again, by the voucher that a retry of commit_directive signs now, as long as
\* the open is handled once.
THEOREM RetryTheorem == SessionSpec => []RetryReplays
<1>1. ClientInv => RetryReplays
  <2> SUFFICES ASSUME ClientInv, opens <= 1, ~strayed, NEW c \in ch.committed_deliveries, NEW d \in inbox,
                      d.delivery_id = c.delivery_id, d.delivery_id \notin acked
               PROVE  SettledBy(c, PrepareIncrement(d.amount))
    BY DEF RetryReplays
  <2>1. PICK m \in wire :
          m.action = "commit" /\ m.delivery_id = c.delivery_id /\ SettledBy(c, m.voucher)
    BY DEF ClientInv, FromTheWire
  <2>2. m.voucher = PrepareIncrement(d.amount)
    BY <2>1 DEF ClientInv, OneAtATime
  <2> QED BY <2>1, <2>2
<1> QED BY <1>1, ClientInvariance, PTL


-----------------------------------------------------------------------------
(* Nothing served is forgotten.                                             *)

\* Every reservation is still pending or was committed.
LEMMA CountedStep ==
  ASSUME IInv, NotYetOpened, Counted, ServerEffect \/ ClientEffect
  PROVE  Counted'
<1>1. /\ Cardinality(ch.pending_deliveries) \in Nat
      /\ Cardinality(ch.committed_deliveries) \in Nat
      /\ ch.next_delivery_sequence \in Nat
  BY FS_CardinalityType DEF Counted, IInv, TypeOK, ChannelState
<1>2. CASE Opening
  BY <1>2, FS_EmptySet DEF Opening, Counted
<1>3. CASE Reserving
  <2>1. PICK p : /\ p \notin ch.pending_deliveries
                 /\ ch'.pending_deliveries = ch.pending_deliveries \cup {p}
    BY <1>3 DEF Reserving
  <2>2. /\ IsFiniteSet(ch'.pending_deliveries)
        /\ Cardinality(ch'.pending_deliveries) = Cardinality(ch.pending_deliveries) + 1
    BY <2>1, FS_AddElement DEF Counted
  <2> QED BY <1>1, <1>3, <2>2 DEF Reserving, Counted
<1>4. CASE Committing
  <2>1. PICK p, c, v : CommittedAs(p, c, v)
    BY <1>4 DEF Committing
  <2>2. c \notin ch.committed_deliveries
    BY <2>1 DEF CommittedAs, CommittedWith
  <2>3. /\ IsFiniteSet(ch'.pending_deliveries)
        /\ Cardinality(ch'.pending_deliveries) = Cardinality(ch.pending_deliveries) - 1
    BY <2>1, FS_RemoveElement DEF CommittedAs, Counted
  <2>4. /\ IsFiniteSet(ch'.committed_deliveries)
        /\ Cardinality(ch'.committed_deliveries) = Cardinality(ch.committed_deliveries) + 1
    BY <2>1, <2>2, FS_AddElement DEF CommittedAs, Counted
  <2>5. ch'.next_delivery_sequence = ch.next_delivery_sequence
    BY <2>1 DEF CommittedAs
  <2> QED BY <1>1, <2>3, <2>4, <2>5 DEF Counted
<1>5. CASE KeptDeliveries
  BY <1>5 DEF KeptDeliveries, Counted
<1>6. CASE UNCHANGED ch
  BY <1>6, SameDeliveries, <1>5
<1> QED BY <1>2, <1>3, <1>4, <1>5, <1>6
        DEF ServerEffect, Quiet, ForDirectVoucher, Taking, Replaying, ClientEffect, vars

\* What the steps do to the record of committed deliveries, while no second open is
\* handled.
LEMMA RecordGrows ==
  ASSUME IInv, NotYetOpened, ServerEffect \/ ClientEffect, opens' <= 1
  PROVE  /\ ch.committed_deliveries \subseteq ch'.committed_deliveries
         /\ ~Committing => ch'.committed_deliveries = ch.committed_deliveries
<1>1. CASE Opening
  BY <1>1, OpeningIsFirst DEF Opening
<1>2. CASE Committing
  BY <1>2 DEF Committing, CommittedAs
<1>3. CASE KeptDeliveries \/ Reserving
  BY <1>3 DEF KeptDeliveries, Reserving
<1>4. CASE UNCHANGED ch
  BY <1>4
<1> QED BY <1>1, <1>2, <1>3, <1>4
        DEF ServerEffect, Quiet, ForDirectVoucher, Taking, Replaying, ClientEffect, vars

LEMMA AckedStep ==
  ASSUME IInv, ClientTypes, NotYetOpened, FromTheWire, AckedIsCommitted, ServerEffect \/ ClientEffect
  PROVE  AckedIsCommitted'
<1> SUFFICES ASSUME opens' <= 1 PROVE AckedIsCommitted'
  BY DEF AckedIsCommitted
<1>0. opens <= 1
  BY OpensGrow
<1>1. ch.committed_deliveries \subseteq ch'.committed_deliveries
  BY RecordGrows
<1>2. ASSUME acked' \subseteq acked
      PROVE  AckedIsCommitted'
  BY <1>0, <1>1, <1>2 DEF AckedIsCommitted, CommittedWith
<1>3. CASE ServerEffect
  BY <1>2, <1>3 DEF ServerEffect
<1>4. CASE CommitReply
  <2>1. PICK c \in ch.committed_deliveries : c.delivery_id = call.delivery_id
    BY <1>0, <1>4 DEF CommitReply, FromTheWire
  <2>2. acked' = acked \cup {call.delivery_id}
    BY <1>4 DEF CommitReply
  <2> QED BY <1>0, <1>1, <2>1, <2>2 DEF AckedIsCommitted, CommittedWith
<1>5. CASE ClientEffect /\ ~CommitReply
  BY <1>2, <1>5, CommitSends DEF ClientEffect, Telling, Signing, SetExpiresAt, Accept, CommitFails
<1> QED BY <1>3, <1>4, <1>5

\* Signing directly is remembered.
LEMMA NoneSigned ==
  ASSUME ClientTypes, ServerEffect \/ ClientEffect, increments' = 0
  PROVE  increments = 0 /\ ~Signing
<1>1. increments = 0
  BY AttemptsGrow DEF ClientTypes
<1>2. ASSUME Signing PROVE FALSE
  <2>1. PICK amount \in Nat : SignIncrement(amount, PrepareIncrement(amount))
    BY <1>2 DEF Signing
  <2>2. PrepareIncrement(amount).cumulative > session.cumulative /\ increments' = increments + amount
    BY <2>1 DEF SignIncrement, Exceeds
  <2>3. amount # 0
    BY <2>2, IncrementAdds
  <2> QED BY <1>1, <2>2, <2>3
<1> QED BY <1>1, <1>2

\* Without direct vouchers the watermark is what the committed deliveries paid.
LEMMA OnlyCommitsStep ==
  ASSUME IInv, ClientTypes, NotYetOpened, Counted, OnlyCommits, ServerEffect \/ ClientEffect
  PROVE  OnlyCommits'
<1> SUFFICES ASSUME increments' = 0 PROVE OnlyCommits'
  BY DEF OnlyCommits
<1>1. increments = 0 /\ ~Signing
  BY NoneSigned
<1>2. /\ \A m \in wire : m.action # "voucher" /\ (m.action = "close" => m.voucher = None)
      /\ \A w \in Workers : task[w].op # "voucher"
      /\ ch.cumulative = TotalAmount(ch.committed_deliveries)
  BY <1>1 DEF OnlyCommits
<1>3. ~ForDirectVoucher
  BY <1>2 DEF ForDirectVoucher
<1>4. \A m \in wire' : m.action # "voucher" /\ (m.action = "close" => m.voucher = None)
  <2>1. CASE ServerEffect
    BY <1>2, <2>1, EffectKeeps DEF ServerKeeps
  <2>2. CASE Telling
    BY <1>2, <2>2 DEF Telling
  <2>3. ASSUME NEW directive \in inbox, CommitDirective(directive)
        PROVE  \E m : wire' = wire \cup {m} /\ m.action = "commit"
    BY <2>3, CommitSends
  <2> QED BY <1>1, <1>2, <2>1, <2>2, <2>3
          DEF ClientEffect, SetExpiresAt, Accept, CommitReply, CommitFails
<1>5. \A w \in Workers : task'[w].op # "voucher"
  <2>1. CASE UNCHANGED task
    BY <1>2, <2>1
  <2>2. CASE TasksEnd
    BY <1>2, <2>2 DEF TasksEnd
  <2>3. CASE Taking
    BY <1>2, <2>3 DEF Taking
  <2> QED BY <1>3, <2>1, <2>2, <2>3
          DEF ServerEffect, Opening, Quiet, Reserving, Replaying, Committing, ClientEffect, vars
<1>6. ch'.cumulative = TotalAmount(ch'.committed_deliveries)
  <2>1. CASE Committing
    <3>1. PICK p, c, v : CommittedAs(p, c, v)
      BY <2>1 DEF Committing
    <3>2. /\ c \notin ch.committed_deliveries /\ c.amount = v.cumulative - ch.cumulative
          /\ ch'.cumulative = v.cumulative /\ v.cumulative > ch.cumulative /\ v \in Vouchers
          /\ ch'.committed_deliveries = ch.committed_deliveries \cup {c}
      BY <3>1 DEF CommittedAs, CommittedWith
    <3>3. v.cumulative \in Nat /\ ch.cumulative \in Nat
      BY <3>2, VoucherType DEF IInv, TypeOK, ChannelState
    <3>4. c.amount \in Nat
      BY <3>2, <3>3
    <3>5. Amounted(ch.committed_deliveries)
      BY DEF Counted, Amounted, IInv, TypeOK, ChannelState, CommittedDelivery
    <3>6. TotalAmount(ch.committed_deliveries \cup {c}) = TotalAmount(ch.committed_deliveries) + c.amount
      BY <3>2, <3>4, <3>5, TotalWith
    <3>7. TotalAmount(ch'.committed_deliveries) = ch.cumulative + c.amount
      BY <1>2, <3>2, <3>6
    <3> QED BY <3>2, <3>3, <3>7
  <2>2. CASE Opening
    BY <2>2, TotalEmpty DEF Opening
  <2>3. CASE ~Committing /\ ~Opening
    <3>1. /\ ch'.committed_deliveries = ch.committed_deliveries
          /\ ch'.cumulative = ch.cumulative
      BY <1>3, <2>3 DEF ServerEffect, Quiet, KeptDeliveries, Taking, Reserving, Replaying,
                        ClientEffect, vars
    <3> QED BY <1>2, <3>1
  <2> QED BY <2>1, <2>2, <2>3
<1> QED BY <1>4, <1>5, <1>6 DEF OnlyCommits


\* The application that strayed is not brought back.
LEMMA StrayedStays ==
  ASSUME ClientTypes, ServerEffect \/ ClientEffect, ~strayed'
  PROVE  ~strayed
BY CommitSends
   DEF ServerEffect, ClientEffect, Telling, Signing, SignIncrement, SetExpiresAt, Accept,
       CommitReply, CommitFails

\* Only one delivery can be committed without the client knowing.
LEMMA UnknownIsOne ==
  ASSUME Books, OneAtATime, FromTheWire, ~strayed,
         NEW c \in ch.committed_deliveries, c.delivery_id \notin acked,
         NEW id \in Unresolved
  PROVE  c.delivery_id = id
<1>1. PICK m \in wire : m.action = "commit" /\ m.delivery_id = c.delivery_id
  BY DEF FromTheWire
<1>2. c.delivery_id \in Unresolved
  BY <1>1 DEF Books
<1> QED BY <1>2 DEF OneAtATime

\* The server is at the client's watermark or one commit ahead.
LEMMA OneAheadStep ==
  ASSUME IInv, ClientTypes, NotYetOpened, Books, OneAtATime, FromTheWire, NotAheadOfServer,
         OnlyCommits, AckedIsCommitted, OneAhead, ServerEffect \/ ClientEffect
  PROVE  OneAhead'
<1> SUFFICES ASSUME opens' <= 1, ~strayed', increments' = 0 PROVE OneAhead'
  BY DEF OneAhead
<1>1. opens <= 1 /\ ~strayed /\ increments = 0 /\ ~Signing
  BY NoneSigned, StrayedStays, OpensGrow
<1>2. ~ForDirectVoucher
  BY <1>1 DEF ForDirectVoucher, OnlyCommits
<1>3. \/ ch.cumulative = session.cumulative
      \/ \E c \in ch.committed_deliveries :
           c.delivery_id \notin acked /\ c.cumulative = ch.cumulative
  BY <1>1 DEF OneAhead
<1>4. CASE Committing /\ UNCHANGED acked
  <2>1. PICK p, c, v : CommittedAs(p, c, v)
    BY <1>4 DEF Committing
  <2>2. c \in ch'.committed_deliveries /\ c.cumulative = ch'.cumulative
    BY <2>1 DEF CommittedAs, SettledBy
  <2>3. c.delivery_id \notin acked'
    BY <1>1, <1>4, <2>1 DEF CommittedAs, AckedIsCommitted
  <2> QED BY <2>2, <2>3 DEF OneAhead
<1>5. ASSUME UNCHANGED acked, session'.cumulative = session.cumulative,
             ch'.cumulative = ch.cumulative, ch.committed_deliveries \subseteq ch'.committed_deliveries
      PROVE  OneAhead'
  BY <1>3, <1>5 DEF OneAhead
<1>6. CASE ServerEffect
  <2>1. CASE ~Committing
    <3>1. ch'.cumulative = ch.cumulative
      <4>1. CASE Opening
        BY <4>1, OpeningIsFirst DEF Opening
      <4> QED BY <1>2, <1>6, <2>1, <4>1 DEF ServerEffect, Quiet, Taking, Reserving, Replaying
    <3>2. ch.committed_deliveries \subseteq ch'.committed_deliveries
      BY RecordGrows
    <3> QED BY <1>5, <1>6, <3>1, <3>2 DEF ServerEffect
  <2> QED BY <1>4, <1>6, <2>1 DEF ServerEffect
<1>7. CASE ClientEffect /\ CommitReply
  <2>1. /\ call # None /\ call.answered /\ call.voucher.cumulative > session.cumulative
        /\ session' = [session EXCEPT !.cumulative = call.voucher.cumulative]
        /\ ch' = ch
    BY <1>7 DEF ClientEffect, vars, CommitReply, RecordVoucher
  <2>2. session'.cumulative = call.voucher.cumulative
    BY <2>1 DEF ClientTypes
  <2>3. PICK c \in ch.committed_deliveries :
          c.delivery_id = call.delivery_id /\ c.cumulative = call.voucher.cumulative
    BY <1>1, <2>1 DEF FromTheWire, SettledBy
  <2>4. c.cumulative <= ch.cumulative
    BY DEF IInv, DeliveriesPaidOnce
  <2>5. ch.cumulative # session.cumulative
    <3>1. ch.cumulative \in Nat /\ session.cumulative \in Nat /\ call.voucher.cumulative \in Nat
      BY <2>1, VoucherType, ConstantsAssumption DEF IInv, TypeOK, ChannelState, ClientTypes, Calls
    <3> QED BY <2>1, <2>3, <2>4, <3>1
  <2>6. PICK d \in ch.committed_deliveries :
          d.delivery_id \notin acked /\ d.cumulative = ch.cumulative
    BY <1>3, <2>5
  <2>7. call.delivery_id \in Unresolved
    BY <2>1 DEF Unresolved
  <2>8. d.delivery_id = c.delivery_id
    BY <1>1, <2>3, <2>6, <2>7, UnknownIsOne
  <2>9. d = c
    BY <2>8 DEF IInv, DeliveriesPaidOnce
  <2> QED BY <2>1, <2>2, <2>3, <2>6, <2>9 DEF OneAhead
<1>8. CASE ClientEffect /\ ~CommitReply
  <2>1. ASSUME NEW e \in Expiries, SetExpiresAt(e)
        PROVE  session'.cumulative = session.cumulative
    BY <2>1 DEF SetExpiresAt, ClientTypes
  <2>2. UNCHANGED acked /\ session'.cumulative = session.cumulative
    BY <1>1, <1>8, <2>1, CommitSends DEF ClientEffect, Telling, SetExpiresAt, Accept, CommitFails
  <2>3. ch' = ch
    BY <1>8 DEF ClientEffect, vars
  <2> QED BY <1>5, <2>2, <2>3
<1> QED BY <1>6, <1>7, <1>8

\* A committed delivery was paid in full.
LEMMA PaidInFullStep ==
  ASSUME IInv, ClientTypes, NotYetOpened, Books, OneAtATime, FromTheWire, OnlyCommits,
         AckedIsCommitted, OneAhead, PaidInFull, ServerEffect \/ ClientEffect
  PROVE  PaidInFull'
<1> SUFFICES ASSUME opens' <= 1, ~strayed', increments' = 0, NEW c \in ch'.committed_deliveries,
                    NEW d \in inbox', d.delivery_id = c.delivery_id
             PROVE  c.amount = d.amount
  BY DEF PaidInFull
<1>1. opens <= 1 /\ ~strayed /\ increments = 0
  BY NoneSigned, StrayedStays, OpensGrow
<1>2. CASE c \in ch.committed_deliveries /\ d \in inbox
  BY <1>1, <1>2 DEF PaidInFull
<1>3. CASE c \notin ch.committed_deliveries
  <2>1. ServerEffect /\ Committing
    BY <1>3, RecordGrows DEF ClientEffect, vars
  <2>2. PICK w, p :
          /\ w \in Workers /\ task[w].op = "commit" /\ c.delivery_id = task[w].delivery_id
          /\ CommittedAs(p, c, task[w].voucher)
    BY <1>3, <2>1 DEF Committing, CommittedAs
  <2> DEFINE v == task[w].voucher
  <2>3. /\ CommittedWith(c.delivery_id) = {} /\ v \in Vouchers
        /\ v.cumulative > ch.cumulative /\ c.amount = v.cumulative - ch.cumulative
    BY <2>2 DEF CommittedAs
  <2>4. Commit(c.delivery_id, v) \in wire
    BY <2>2 DEF FromTheWire
  <2>5. /\ Commit(c.delivery_id, v).action = "commit" /\ Commit(c.delivery_id, v).voucher = v
        /\ Commit(c.delivery_id, v).delivery_id = c.delivery_id
    BY DEF Commit
  <2> HIDE DEF v
  <2>6. d \in inbox /\ c.delivery_id \notin acked
    BY <1>1, <2>1, <2>3 DEF ServerEffect, AckedIsCommitted
  <2>7. v = PrepareIncrement(d.amount)
    BY <1>1, <2>4, <2>5, <2>6 DEF OneAtATime
  <2>8. c.delivery_id \in Unresolved
    BY <2>4, <2>5, <2>6 DEF Books
  <2>9. ch.cumulative = session.cumulative
    <3> SUFFICES ASSUME NEW e \in ch.committed_deliveries, e.delivery_id \notin acked
                 PROVE  FALSE
      BY <1>1 DEF OneAhead
    <3>1. e.delivery_id = c.delivery_id
      BY <1>1, <2>8, UnknownIsOne
    <3> QED BY <2>3, <3>1 DEF CommittedWith
  <2>10. d.amount \in Nat /\ d.amount < U64 /\ session.cumulative \in Nat
    <3>1. d.amount \in DeliveryAmounts
      BY <2>6 DEF ClientTypes, Directives
    <3>2. d.amount \in Nat
      BY <3>1, ConstantsAssumption
    <3>3. d.amount < U64
      BY <3>1, ClientAssumption
    <3>4. session.cumulative \in 0..(U64 - 1)
      BY DEF ClientTypes
    <3>5. session.cumulative \in Nat
      BY <3>4
    <3> QED BY <3>2, <3>3, <3>5
  <2>11. v.cumulative = session.cumulative + d.amount
    BY <2>3, <2>7, <2>9, <2>10, IncrementAdds
  <2> QED BY <2>3, <2>9, <2>10, <2>11
<1>4. CASE d \notin inbox
  <2>1. ~ServerEffect
    BY <1>4 DEF ServerEffect
  <2>2. PICK p \in ch.pending_deliveries : Accept(p, ChannelId)
    BY <1>4, <2>1, CommitSends
       DEF ClientEffect, Telling, Signing, SetExpiresAt, CommitReply, CommitFails
  <2>3. d = Directive(p, ChannelId) /\ ch' = ch
    BY <1>4, <2>1, <2>2 DEF Accept, ClientEffect, vars
  <2>4. d.delivery_id = p.delivery_id
    BY <2>3 DEF Directive
  <2>5. CommittedWith(p.delivery_id) = {}
    BY DEF IInv, DeliveriesPaidOnce
  <2> QED BY <2>3, <2>4, <2>5 DEF CommittedWith
<1> QED BY <1>2, <1>3, <1>4

\* What the host reserved since the last open is paid or still reserved, and paid in
\* full if the open was handled once, as long as the application signs nothing
\* directly and resolves one delivery before the next.
THEOREM ServedTheorem == SessionSpec => []ServedIsPaidOrReserved
<1>1. SessionInit => ServedInv
  <2> SUFFICES ASSUME SessionInit PROVE ServedInv
    OBVIOUS
  <2>1. /\ ch = FreshState(None, 0) /\ task = [w \in Workers |-> Idle]
        /\ inbox = {} /\ wire = {} /\ acked = {} /\ session.cumulative = 0
    BY DEF SessionInit, Init
  <2>2. /\ ch.cumulative = 0 /\ ch.pending_deliveries = {} /\ ch.committed_deliveries = {}
        /\ ch.next_delivery_sequence = 0
    BY <2>1 DEF FreshState
  <2>3. \A w \in Workers : task[w].op # "voucher"
    BY <2>1 DEF Idle
  <2>4. OnlyCommits
    BY <2>1, <2>2, <2>3, TotalEmpty DEF OnlyCommits
  <2>5. Counted
    BY <2>2, FS_EmptySet DEF Counted
  <2> QED BY <2>1, <2>2, <2>4, <2>5 DEF ServedInv, AckedIsCommitted, OneAhead, PaidInFull
<1>2. ASSUME IInv, ClientInv, ServedInv, [SessionNext]_sessionVars
      PROVE  ServedInv'
  <2>1. /\ ClientTypes /\ NotYetOpened /\ Books /\ OneAtATime /\ FromTheWire /\ NotAheadOfServer
        /\ OnlyCommits /\ Counted /\ AckedIsCommitted /\ OneAhead /\ PaidInFull
    BY <1>2 DEF ClientInv, ServedInv
  <2>2. ServerEffect \/ ClientEffect
    BY <1>2, <2>1, Effects
  <2>3. OnlyCommits' /\ Counted'
    BY <1>2, <2>1, <2>2, OnlyCommitsStep, CountedStep
  <2>4. AckedIsCommitted'
    BY <1>2, <2>1, <2>2, AckedStep
  <2>5. OneAhead'
    BY <1>2, <2>1, <2>2, OneAheadStep
  <2>6. PaidInFull'
    BY <1>2, <2>1, <2>2, PaidInFullStep
  <2> QED BY <2>3, <2>4, <2>5, <2>6 DEF ServedInv
<1>3. ServedInv => ServedIsPaidOrReserved
  BY DEF ServedInv, OnlyCommits, Counted, PaidInFull, ServedIsPaidOrReserved
<1> QED BY <1>1, <1>2, <1>3, ClientInvariance, PTL DEF SessionSpec

=============================================================================
