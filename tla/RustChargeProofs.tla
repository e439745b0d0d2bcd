-------------------------- MODULE RustChargeProofs --------------------------
(***************************************************************************)
(* Proofs about RustCharge, for any number of workers, payments,           *)
(* credentials and routes.  The invariant records what a request in flight *)
(* has already established, and ties the store to the receipts given.      *)
(***************************************************************************)
EXTENDS RustCharge, ChargeWorldProofs

\* What a request in flight has established by the stage it is in.
RequestOK(w) ==
  Busy(w) =>
    LET t == task[w] IN
      /\ t.request.recipient = Recipient
      /\ t.request.currency = Currency
      /\ Expected[t.route] # None => t.request.amount = Expected[t.route].amount
      /\ t.pc # "fetch" => PaysFor(t.cred.payment, t.request)
      /\ t.pc = "consume" => t.cred.payment \in Landed

IInv ==
  /\ TypeOK
  /\ \A w \in Workers : RequestOK(w)
  /\ ConsumedIsHonoured
  /\ HonouredOnce
  /\ GrantsArePaid

-----------------------------------------------------------------------------
(* Lemmas. *)

\* A credential names a payment and carries a request.
LEMMA CredentialTypes ==
  ASSUME NEW cred \in Credentials, NEW route \in Routes
  PROVE  /\ cred.payment \in Payments
         /\ RequestFor(cred, route) \in Request
<1>1. cred \in Credential
  BY WorldAssumption
<1>2. cred.payment \in Payments /\ cred.challenge \in Challenge
  BY <1>1 DEF Credential
<1>3. cred.challenge.request \in Request
  BY <1>2 DEF Challenge
<1> QED
  BY <1>2, <1>3, WorldAssumption DEF RequestFor

\* The payment a busy worker's request is about.
LEMMA BusyPayment ==
  ASSUME TypeOK, NEW w \in Workers, Busy(w)
  PROVE  /\ task[w].cred.payment \in Payments
         /\ task[w].request \in Request
         /\ task[w].route \in Routes
<1>1. task[w] \in Active
  BY BusyIsActive
<1>2. /\ task[w].cred \in Credentials
      /\ task[w].request \in Request
      /\ task[w].route \in Routes
  BY <1>1 DEF Active
<1> QED
  BY <1>2, CredentialTypes

\* A request another worker runs keeps what it established.
LEMMA OthersKeep ==
  ASSUME NEW v \in Workers, task'[v] = task[v], Landed \subseteq Landed', RequestOK(v)
  PROVE  RequestOK(v)'
BY DEF RequestOK, Busy, PaysFor

\* verify establishes the request a worker starts with.
LEMMA VerifyEstablishes ==
  ASSUME NEW cred \in Credentials, NEW route \in Routes, Verify(cred, route)
  PROVE  LET request == RequestFor(cred, route) IN
           /\ request.recipient = Recipient
           /\ request.currency = Currency
           /\ Expected[route] # None => request.amount = Expected[route].amount
BY DEF Verify, VerifyPinnedFields, RequestFor

-----------------------------------------------------------------------------
(* One lemma per action. *)

LEMMA InitIInv == Init => IInv
<1> SUFFICES ASSUME Init PROVE IInv
  OBVIOUS
<1>1. TypeOK
  BY WorldAssumption DEF Init, TypeOK, LedgerStatus, Task
<1>2. \A w \in Workers : RequestOK(w)
  BY DEF Init, RequestOK, Busy, Idle
<1>3. ConsumedIsHonoured /\ HonouredOnce /\ GrantsArePaid
  BY DEF Init, ConsumedIsHonoured, HonouredOnce, GrantsArePaid
<1> QED
  BY <1>1, <1>2, <1>3 DEF IInv

\* A step that gives no receipt and keeps what landed only has to preserve the
\* types and establish the request of the worker it moves.
LEMMA QuietStep ==
  ASSUME IInv, NEW w \in Workers,
         UNCHANGED <<now, consumed, honoured, grants, stranded>>,
         ledger' \in [Payments -> LedgerStatus],
         Landed \subseteq Landed',
         task' \in [Workers -> Task],
         \A v \in Workers : v # w => task'[v] = task[v],
         RequestOK(w)'
  PROVE  IInv'
<1>1. TypeOK'
  BY DEF IInv, TypeOK
<1>2. \A v \in Workers : RequestOK(v)'
  BY OthersKeep DEF IInv
<1>3. GrantsArePaid'
  BY GrantsKeep DEF IInv
<1>4. ConsumedIsHonoured' /\ HonouredOnce'
  BY DEF IInv, ConsumedIsHonoured, HonouredOnce
<1> QED
  BY <1>1, <1>2, <1>3, <1>4 DEF IInv

LEMMA WorldIInv == IInv /\ World => IInv'
<1> SUFFICES ASSUME IInv, World PROVE IInv'
  OBVIOUS
<1>1. /\ TypeOK'
      /\ UNCHANGED <<consumed, task, honoured, grants, stranded>>
      /\ Landed \subseteq Landed'
  BY WorldStep DEF IInv
<1>2. \A v \in Workers : RequestOK(v)'
  BY <1>1, OthersKeep DEF IInv
<1>3. GrantsArePaid'
  BY <1>1, GrantsKeep DEF IInv
<1>4. ConsumedIsHonoured' /\ HonouredOnce'
  BY <1>1 DEF IInv, ConsumedIsHonoured, HonouredOnce
<1> QED
  BY <1>1, <1>2, <1>3, <1>4 DEF IInv

LEMMA VerifyPullIInv ==
  ASSUME IInv, NEW w \in Workers, NEW cred \in Credentials, NEW route \in Routes,
         VerifyPull(w, cred, route)
  PROVE  IInv' /\ UNCHANGED honoured /\ Landed' = Landed
<1> DEFINE request == RequestFor(cred, route)
<1>1. request \in Request /\ "simulate" \in Stages
  BY CredentialTypes DEF Stages
<1>2. Enter(w, "simulate", cred, request, route) /\ TypeOK
  BY DEF VerifyPull, IInv
<1>3. /\ task' \in [Workers -> Task]
      /\ task'[w] = [pc |-> "simulate", cred |-> cred, request |-> request,
                     route |-> route, tries |-> 1]
      /\ \A v \in Workers : v # w => task'[v] = task[v]
  BY <1>1, <1>2, EnterTask
<1>4. /\ request.recipient = Recipient
      /\ request.currency = Currency
      /\ Expected[route] # None => request.amount = Expected[route].amount
      /\ PaysFor(cred.payment, request)
  BY VerifyEstablishes DEF VerifyPull, VerifyTransactionPreBroadcast
<1> HIDE DEF request
<1>5. RequestOK(w)'
  BY <1>3, <1>4 DEF RequestOK, Busy, PaysFor
<1>6. /\ UNCHANGED <<now, consumed, honoured, grants, stranded>>
      /\ ledger' \in [Payments -> LedgerStatus]
      /\ Landed' = Landed
  BY DEF VerifyPull, IInv, TypeOK, Landed
<1> QED
  BY <1>3, <1>5, <1>6, QuietStep

LEMMA VerifyPushIInv ==
  ASSUME IInv, NEW w \in Workers, NEW cred \in Credentials, NEW route \in Routes,
         VerifyPush(w, cred, route)
  PROVE  IInv' /\ UNCHANGED honoured /\ Landed' = Landed
<1> DEFINE request == RequestFor(cred, route)
<1>1. request \in Request /\ "fetch" \in Stages
  BY CredentialTypes DEF Stages
<1>2. Enter(w, "fetch", cred, request, route) /\ TypeOK
  BY DEF VerifyPush, IInv
<1>3. /\ task' \in [Workers -> Task]
      /\ task'[w] = [pc |-> "fetch", cred |-> cred, request |-> request,
                     route |-> route, tries |-> 1]
      /\ \A v \in Workers : v # w => task'[v] = task[v]
  BY <1>1, <1>2, EnterTask
<1>4. /\ request.recipient = Recipient
      /\ request.currency = Currency
      /\ Expected[route] # None => request.amount = Expected[route].amount
  BY VerifyEstablishes DEF VerifyPush
<1> HIDE DEF request
<1>5. RequestOK(w)'
  BY <1>3, <1>4 DEF RequestOK, Busy, PaysFor
<1>6. /\ UNCHANGED <<now, consumed, honoured, grants, stranded>>
      /\ ledger' \in [Payments -> LedgerStatus]
      /\ Landed' = Landed
  BY DEF VerifyPush, IInv, TypeOK, Landed
<1> QED
  BY <1>3, <1>5, <1>6, QuietStep

\* A busy worker that answers without a receipt, retries, or advances with what
\* the next stage needs.
LEMMA SettleQuietly ==
  ASSUME IInv, NEW w \in Workers, NEW pc \in Stages, Busy(w),
         \/ Respond(w)
         \/ task[w].pc # "fetch" /\ task[w].pc # "consume"
            /\ (Retry(w, SimulationMaxAttempts) \/ Retry(w, PollAttempts))
         \/ /\ Advance(w, pc)
            /\ PaysFor(task[w].cred.payment, task[w].request)
            /\ pc = "consume" => task[w].cred.payment \in Landed,
         UNCHANGED <<now, consumed, honoured, grants, stranded>>,
         ledger' \in [Payments -> LedgerStatus],
         Landed \subseteq Landed'
  PROVE  IInv'
<1> USE DEF IInv
<1>1. CASE Respond(w)
  <2>1. /\ task' \in [Workers -> Task]
        /\ ~Busy(w)'
        /\ \A v \in Workers : v # w => task'[v] = task[v]
    BY <1>1, RespondTask
  <2>2. RequestOK(w)'
    BY <2>1 DEF RequestOK
  <2> QED
    BY <2>1, <2>2, QuietStep
<1>2. ASSUME NEW max, Retry(w, max), task[w].pc # "fetch", task[w].pc # "consume"
      PROVE  IInv'
  <2>1. /\ task' \in [Workers -> Task]
        /\ task'[w].pc = task[w].pc
        /\ task'[w].cred = task[w].cred
        /\ task'[w].request = task[w].request
        /\ task'[w].route = task[w].route
        /\ \A v \in Workers : v # w => task'[v] = task[v]
    BY <1>2, RetryTask
  <2>2. RequestOK(w)'
    BY <2>1, <1>2 DEF RequestOK, Busy, PaysFor
  <2> QED
    BY <2>1, <2>2, QuietStep
<1>3. CASE /\ Advance(w, pc)
           /\ PaysFor(task[w].cred.payment, task[w].request)
           /\ pc = "consume" => task[w].cred.payment \in Landed
  <2>1. /\ task' \in [Workers -> Task]
        /\ task'[w] = [pc |-> pc, cred |-> task[w].cred, request |-> task[w].request,
                       route |-> task[w].route, tries |-> 1]
        /\ \A v \in Workers : v # w => task'[v] = task[v]
    BY <1>3, AdvanceTask
  <2>2. RequestOK(w)'
    BY <2>1, <1>3 DEF RequestOK, Busy, PaysFor
  <2> QED
    BY <2>1, <2>2, QuietStep
<1> QED
  BY <1>1, <1>2, <1>3

LEMMA SimulateIInv ==
  ASSUME IInv, NEW w \in Workers, Simulate(w)
  PROVE  IInv' /\ UNCHANGED honoured /\ Landed' = Landed
<1>1. Busy(w) /\ task[w].pc = "simulate" /\ "send" \in Stages
  BY BusyIsActive DEF Simulate, IInv, Stages
<1>2. PaysFor(task[w].cred.payment, task[w].request)
  BY <1>1 DEF IInv, RequestOK
<1>3. /\ UNCHANGED <<now, consumed, honoured, grants, stranded>>
      /\ ledger' \in [Payments -> LedgerStatus]
      /\ Landed' = Landed
  BY DEF Simulate, IInv, TypeOK, Landed
<1>4. \/ Respond(w)
      \/ Retry(w, SimulationMaxAttempts)
      \/ Advance(w, "send")
  BY DEF Simulate
<1> QED
  BY <1>1, <1>2, <1>3, <1>4, SettleQuietly

LEMMA SendTransactionIInv ==
  ASSUME IInv, NEW w \in Workers, SendTransaction(w)
  PROVE  IInv' /\ UNCHANGED honoured /\ Landed' = Landed
<1> DEFINE p == task[w].cred.payment
<1>1. Busy(w) /\ task[w].pc = "send" /\ "confirm" \in Stages
  BY BusyIsActive DEF SendTransaction, IInv, Stages
<1>2. PaysFor(p, task[w].request)
  BY <1>1 DEF IInv, RequestOK
<1>3. p \in Payments
  BY <1>1, BusyPayment DEF IInv
<1>4. ledger' \in {ledger, AfterSend(p)}
  BY DEF SendTransaction
<1>5. /\ ledger' \in [Payments -> LedgerStatus]
      /\ Landed' = Landed
  BY <1>3, <1>4, SendStep DEF IInv
<1>6. /\ UNCHANGED <<now, consumed, honoured, grants, stranded>>
      /\ Respond(w) \/ Advance(w, "confirm")
  BY DEF SendTransaction
<1> QED
  BY <1>1, <1>2, <1>5, <1>6, SettleQuietly

LEMMA PollConfirmedIInv ==
  ASSUME IInv, NEW w \in Workers, PollConfirmed(w)
  PROVE  IInv' /\ UNCHANGED honoured /\ Landed' = Landed
<1>1. Busy(w) /\ task[w].pc = "confirm" /\ "consume" \in Stages
  BY BusyIsActive DEF PollConfirmed, IInv, Stages
<1>2. PaysFor(task[w].cred.payment, task[w].request)
  BY <1>1 DEF IInv, RequestOK
<1>3. /\ UNCHANGED <<now, consumed, honoured, grants, stranded>>
      /\ ledger' \in [Payments -> LedgerStatus]
      /\ Landed' = Landed
  BY DEF PollConfirmed, IInv, TypeOK, Landed
<1>4. \/ Respond(w)
      \/ Retry(w, PollAttempts)
      \/ Advance(w, "consume") /\ task[w].cred.payment \in Landed
  BY <1>1, BusyPayment DEF PollConfirmed, Landed, IInv
<1> QED
  BY <1>1, <1>2, <1>3, <1>4, SettleQuietly

LEMMA VerifyOnChainIInv ==
  ASSUME IInv, NEW w \in Workers, VerifyOnChain(w)
  PROVE  IInv' /\ UNCHANGED honoured /\ Landed' = Landed
<1>1. Busy(w) /\ task[w].pc = "fetch" /\ "consume" \in Stages
  BY BusyIsActive DEF VerifyOnChain, IInv, Stages
<1>2. /\ UNCHANGED <<now, consumed, honoured, grants, stranded>>
      /\ ledger' \in [Payments -> LedgerStatus]
      /\ Landed' = Landed
  BY DEF VerifyOnChain, IInv, TypeOK, Landed
<1>3. \/ Respond(w)
      \/ /\ Advance(w, "consume")
         /\ PaysFor(task[w].cred.payment, task[w].request)
         /\ task[w].cred.payment \in Landed
  BY <1>1, BusyPayment DEF VerifyOnChain, Landed, IInv
<1> QED
  BY <1>1, <1>2, <1>3, SettleQuietly

\* The keys of the payments that bought a receipt.
Spent == {SignatureKey(p) : p \in {q \in Payments : honoured[q] > 0}}

\* The receipt: the key was absent, so this is the payment's first.
LEMMA ConsumeIInv ==
  ASSUME IInv, NEW w \in Workers, Consume(w)
  PROVE  /\ IInv'
         /\ Landed' = Landed
         /\ \/ UNCHANGED honoured
            \/ \E p \in Landed : /\ honoured[p] = 0
                                 /\ honoured' = [honoured EXCEPT ![p] = 1]
<1> DEFINE p == task[w].cred.payment
           key == SignatureKey(p)
           g == [payment |-> p, request |-> task[w].request, route |-> task[w].route]
<1> USE DEF IInv
<1>1. Busy(w) /\ task[w].pc = "consume"
  BY BusyIsActive DEF Consume, Stages
<1>2. p \in Payments /\ g \in Grant
  BY <1>1, BusyPayment DEF Grant
<1>3. /\ p \in Landed
      /\ PaysFor(p, task[w].request)
      /\ task[w].request.recipient = Recipient
      /\ task[w].request.currency = Currency
      /\ Expected[task[w].route] # None
           => task[w].request.amount = Expected[task[w].route].amount
  BY <1>1 DEF RequestOK
<1>4. /\ task' \in [Workers -> Task]
      /\ ~Busy(w)'
      /\ \A v \in Workers : v # w => task'[v] = task[v]
  BY RespondTask DEF Consume
<1>5. UNCHANGED <<ledger, now>> /\ Landed' = Landed
  BY DEF Consume, Landed
<1>6. \A v \in Workers : RequestOK(v)'
  BY <1>4, <1>5, OthersKeep DEF RequestOK
<1>7. CASE key \in consumed /\ UNCHANGED <<consumed, honoured, grants, stranded>>
  <2>1. TypeOK'
    BY <1>4, <1>5, <1>7 DEF TypeOK
  <2>2. GrantsArePaid'
    BY <1>5, <1>7, GrantsKeep
  <2>3. ConsumedIsHonoured' /\ HonouredOnce'
    BY <1>7 DEF ConsumedIsHonoured, HonouredOnce
  <2> QED
    BY <2>1, <2>2, <2>3, <1>5, <1>6, <1>7
<1>8. CASE /\ key \notin consumed /\ consumed' = consumed \cup {key} /\ Receipt(w)
           /\ UNCHANGED stranded
  <2>1. honoured' = [honoured EXCEPT ![p] = @ + 1] /\ grants' = grants \cup {g}
    BY <1>8 DEF Receipt
  <2>2. honoured \in [Payments -> Nat]
    BY DEF TypeOK
  <2>3. honoured[p] = 0
    BY <1>2, <1>8, <2>2 DEF ConsumedIsHonoured
  <2>4. honoured' = [honoured EXCEPT ![p] = 1]
    BY <2>1, <2>2, <2>3
  <2>5. key \in Key
    BY <1>2 DEF Key, SignatureKey
  <2>6. TypeOK'
    BY <1>2, <1>4, <1>5, <1>8, <2>1, <2>2, <2>4, <2>5 DEF TypeOK
  <2>7. HonouredOnce'
    BY <1>2, <2>2, <2>4 DEF HonouredOnce
  <2>8. ConsumedIsHonoured'
    <3>1. {q \in Payments : honoured'[q] > 0} = {q \in Payments : honoured[q] > 0} \cup {p}
      BY <1>2, <2>2, <2>4
    <3>2. Spent' = Spent \cup {key}
      BY <3>1 DEF Spent
    <3> QED
      BY <3>2, <1>8 DEF ConsumedIsHonoured, Spent
  <2>9. GrantsArePaid'
    <3>1. ASSUME NEW h \in grants'
          PROVE  /\ ledger'[h.payment] = "landed"
                 /\ PaysFor(h.payment, h.request)
                 /\ h.request.recipient = Recipient
                 /\ h.request.currency = Currency
                 /\ Expected[h.route] # None
                      => Tx[h.payment].amount = Expected[h.route].amount
      <4>1. CASE h \in grants
        BY <4>1, <1>5 DEF GrantsArePaid
      <4>2. CASE h = g
        BY <4>2, <1>3, <1>5 DEF PaysFor, Landed
      <4> QED
        BY <2>1, <4>1, <4>2
    <3> QED
      BY <3>1 DEF GrantsArePaid, PaysFor
  <2> QED
    BY <1>3, <1>5, <1>6, <2>3, <2>4, <2>6, <2>7, <2>8, <2>9
<1>9. CASE StoreFails(key) /\ UNCHANGED <<honoured, grants>>
  <2>1. \/ UNCHANGED <<consumed, stranded>>
        \/ /\ key \notin consumed
           /\ consumed' = consumed \cup {key}
           /\ stranded' = stranded \cup {key}
    BY <1>9 DEF StoreFails
  <2>2. key \in Key
    BY <1>2 DEF Key, SignatureKey
  <2>3. TypeOK'
    BY <1>4, <1>5, <1>9, <2>1, <2>2 DEF TypeOK
  <2>4. GrantsArePaid'
    BY <1>5, <1>9, GrantsKeep
  <2>5. Spent' = Spent
    BY <1>9 DEF Spent
  <2>6. ConsumedIsHonoured'
    BY <2>1, <2>5 DEF ConsumedIsHonoured, Spent
  <2>7. HonouredOnce'
    BY <1>9 DEF HonouredOnce
  <2> QED
    BY <2>3, <2>4, <2>6, <2>7, <1>5, <1>6, <1>9
<1> HIDE DEF key, p
<1> QED
  BY <1>7, <1>8, <1>9 DEF Consume, key, p

LEMMA RestartIInv ==
  ASSUME IInv, ServerRestart
  PROVE  IInv' /\ UNCHANGED honoured /\ Landed' = Landed
<1> USE DEF IInv
<1>1. /\ task' = [w \in Workers |-> Idle]
      /\ stranded' = stranded
      /\ UNCHANGED <<ledger, now, consumed, honoured, grants>>
  BY DEF ServerRestart, Restart
<1>2. TypeOK' /\ Landed' = Landed
  BY <1>1 DEF TypeOK, Task, Landed
<1>3. \A w \in Workers : RequestOK(w)'
  BY <1>1 DEF RequestOK, Busy, Idle
<1>4. GrantsArePaid'
  BY <1>1, <1>2, GrantsKeep
<1> QED
  BY <1>1, <1>2, <1>3, <1>4 DEF ConsumedIsHonoured, HonouredOnce

-----------------------------------------------------------------------------
(* Theorems. *)

LEMMA NextIInv == IInv /\ [Next]_vars => IInv'
<1> SUFFICES ASSUME IInv, [Next]_vars PROVE IInv'
  OBVIOUS
<1>1. CASE UNCHANGED vars
  BY <1>1 DEF vars, IInv, TypeOK, RequestOK, Busy, PaysFor, Landed,
              ConsumedIsHonoured, HonouredOnce, GrantsArePaid
<1>2. CASE World
  BY <1>2, WorldIInv
<1>3. ASSUME NEW w \in Workers, NEW cred \in Credentials, NEW route \in Routes,
             VerifyPull(w, cred, route) \/ VerifyPush(w, cred, route)
      PROVE  IInv'
  BY <1>3, VerifyPullIInv, VerifyPushIInv
<1>4. ASSUME NEW w \in Workers, Settle(w)
      PROVE  IInv'
  BY <1>4, SimulateIInv, SendTransactionIInv, PollConfirmedIInv,
     VerifyOnChainIInv, ConsumeIInv DEF Settle
<1>5. CASE ServerRestart
  BY <1>5, RestartIInv
<1> QED
  BY <1>1, <1>2, <1>3, <1>4, <1>5 DEF Next

\* In every reachable state the requests in flight have established what their
\* stage relies on, and the store agrees with the receipts given.
THEOREM RustInvariance == Spec => []IInv
<1>1. Init => IInv
  BY InitIInv
<1>2. IInv /\ [Next]_vars => IInv'
  BY NextIInv
<1> QED
  BY <1>1, <1>2, PTL DEF Spec

\* Every reachable state of the Rust server is well typed: requests in flight, keys
\* and receipts never refer to anything but what clients may present.
THEOREM RustTypes == Spec => []TypeOK
<1>1. IInv => TypeOK
  BY DEF IInv
<1> QED
  BY <1>1, RustInvariance, PTL

\* Every receipt the Rust server gives is covered by a landed payment for the
\* price of the route, for every interleaving of requests and restarts.
THEOREM RustGrantsTheorem == Spec => []GrantsArePaid
<1>1. IInv => GrantsArePaid
  BY DEF IInv
<1> QED
  BY <1>1, RustInvariance, PTL

\* The store holds the signatures that bought a receipt and, apart from them, those
\* of insertions that reported an error: no other failure costs a payment.
THEOREM RustConsumedTheorem == Spec => []ConsumedIsHonoured
<1>1. IInv => ConsumedIsHonoured
  BY DEF IInv
<1> QED
  BY <1>1, RustInvariance, PTL

\* The Rust server implements Redemption: whatever is presented, in whatever
\* order and however often, a payment is honoured at most once and only after it
\* landed.
THEOREM RustRefinement == Spec => ImplementsRedemption
<1>1. Init => Promise!Init
  BY DEF Init, Promise!Init, Landed
<1>2. IInv /\ [Next]_vars => [Promise!Next]_<<Landed, honoured>>
  <2> SUFFICES ASSUME IInv, [Next]_vars
               PROVE  Promise!Next \/ UNCHANGED <<Landed, honoured>>
    OBVIOUS
  <2>1. CASE UNCHANGED vars
    BY <2>1 DEF vars, Landed
  <2>2. CASE World
    BY <2>2, WorldRefines DEF IInv
  <2>3. ASSUME NEW w \in Workers, NEW cred \in Credentials, NEW route \in Routes,
               VerifyPull(w, cred, route) \/ VerifyPush(w, cred, route)
        PROVE  UNCHANGED <<Landed, honoured>>
    BY <2>3, VerifyPullIInv, VerifyPushIInv
  <2>4. ASSUME NEW w \in Workers, Settle(w)
        PROVE  Promise!Next \/ UNCHANGED <<Landed, honoured>>
    <3>1. CASE Consume(w)
      <4>1. CASE UNCHANGED honoured
        BY <3>1, <4>1, ConsumeIInv
      <4>2. ASSUME NEW p \in Landed, honoured[p] = 0,
                   honoured' = [honoured EXCEPT ![p] = 1]
            PROVE  Promise!Next
        <5>1. p \in Payments /\ Landed' = Landed
          BY <3>1, ConsumeIInv DEF Landed
        <5> QED
          BY <5>1, <4>2 DEF Promise!Next, Promise!Honour
      <4> QED
        BY <3>1, <4>1, <4>2, ConsumeIInv
    <3>2. CASE Simulate(w) \/ SendTransaction(w) \/ PollConfirmed(w) \/ VerifyOnChain(w)
      BY <3>2, SimulateIInv, SendTransactionIInv, PollConfirmedIInv, VerifyOnChainIInv
    <3> QED
      BY <2>4, <3>1, <3>2 DEF Settle
  <2>5. CASE ServerRestart
    BY <2>5, RestartIInv
  <2> QED
    BY <2>1, <2>2, <2>3, <2>4, <2>5 DEF Next
<1> QED
  BY <1>1, <1>2, RustInvariance, PTL DEF Spec, ImplementsRedemption, Promise!Spec

=============================================================================
