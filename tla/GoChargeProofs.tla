--------------------------- MODULE GoChargeProofs ---------------------------
(***************************************************************************)
(* Proofs about GoCharge, for any number of workers, payments, credentials *)
(* and routes.  The invariant says what a reservation means: a request in  *)
(* flight is the only holder of its signature, which has bought nothing    *)
(* yet, and what bought a receipt stays reserved.                          *)
(***************************************************************************)
EXTENDS GoCharge, ChargeWorldProofs

\* What a request in flight may rely on.
RequestOK(w) ==
  Busy(w) =>
    LET t == task[w] IN
      /\ t.request.recipient = Recipient
      /\ t.request.currency = Currency
      /\ Expected[t.route] # None => t.request.amount = Expected[t.route].amount
      /\ SignatureKey(t.cred.payment) \in consumed
      /\ honoured[t.cred.payment] = 0

\* What bought a receipt is never released.
SpentStaysReserved ==
  \A p \in Payments : honoured[p] > 0 => SignatureKey(p) \in consumed

IInv ==
  /\ TypeOK
  /\ \A w \in Workers : RequestOK(w)
  /\ SpentStaysReserved
  /\ ConsumedIsHonoured
  /\ HonouredOnce
  /\ GrantsArePaid

-----------------------------------------------------------------------------
(* Lemmas. *)

LEMMA CredentialTypes ==
  ASSUME NEW cred \in Credentials, NEW route \in Routes
  PROVE  /\ cred.payment \in Payments
         /\ RequestFor(cred, route) \in Request
<1>1. cred \in Credential
  BY WorldAssumption
<1>2. cred.payment \in Payments /\ cred.challenge \in Challenge
  BY <1>1 DEF Credential
<1>3. cred.challenge.request \in Request
  BY <1>2 DEF Challenge
<1> QED
  BY <1>2, <1>3, WorldAssumption DEF RequestFor

LEMMA BusyPayment ==
  ASSUME TypeOK, NEW w \in Workers, Busy(w)
  PROVE  /\ task[w].cred.payment \in Payments
         /\ task[w].request \in Request
         /\ task[w].route \in Routes
<1>1. task[w] \in Active
  BY BusyIsActive
<1>2. /\ task[w].cred \in Credentials
      /\ task[w].request \in Request
      /\ task[w].route \in Routes
  BY <1>1 DEF Active
<1> QED
  BY <1>2, CredentialTypes

\* Different payments have different keys.
LEMMA KeysDiffer ==
  ASSUME NEW p, NEW q, SignatureKey(p) = SignatureKey(q)
  PROVE  p = q
BY DEF SignatureKey

LEMMA InitIInv == Init => IInv
<1> SUFFICES ASSUME Init PROVE IInv
  OBVIOUS
<1>1. TypeOK
  BY WorldAssumption DEF Init, TypeOK, LedgerStatus, Task
<1>2. \A w \in Workers : ~Busy(w)
  BY DEF Init, Busy, Idle
<1>3. SpentStaysReserved /\ HonouredOnce /\ GrantsArePaid
  BY DEF Init, SpentStaysReserved, HonouredOnce, GrantsArePaid
<1> QED
  BY <1>1, <1>2, <1>3 DEF IInv, RequestOK, ConsumedIsHonoured, Init

LEMMA WorldIInv == IInv /\ World => IInv'
<1> SUFFICES ASSUME IInv, World PROVE IInv'
  OBVIOUS
<1>1. /\ TypeOK'
      /\ UNCHANGED <<consumed, task, honoured, grants, stranded>>
      /\ Landed \subseteq Landed'
  BY WorldStep DEF IInv
<1>2. \A v \in Workers : RequestOK(v)'
  BY <1>1 DEF IInv, RequestOK, Busy
<1>3. GrantsArePaid'
  BY <1>1, GrantsKeep DEF IInv
<1>4. SpentStaysReserved' /\ ConsumedIsHonoured' /\ HonouredOnce'
  BY <1>1 DEF IInv, SpentStaysReserved, ConsumedIsHonoured, HonouredOnce, Held, Busy
<1> QED
  BY <1>1, <1>2, <1>3, <1>4 DEF IInv

\* PutIfAbsent: nobody held the key and it had bought nothing.
LEMMA ReserveStep ==
  ASSUME IInv, NEW w \in Workers, ~Busy(w), NEW pc \in Stages,
         NEW cred \in Credentials, NEW route \in Routes,
         Admits(cred, route),
         Enter(w, pc, cred, RequestFor(cred, route), route),
         SignatureKey(cred.payment) \notin consumed,
         consumed' = consumed \cup {SignatureKey(cred.payment)},
         UNCHANGED <<ledger, now, honoured, grants, stranded>>
  PROVE  IInv' /\ Landed' = Landed
<1> DEFINE request == RequestFor(cred, route)
           key == SignatureKey(cred.payment)
<1> USE DEF IInv
<1>1. request \in Request /\ cred.payment \in Payments
  BY CredentialTypes
<1>2. Enter(w, pc, cred, request, route)
  OBVIOUS
<1>3. /\ task' \in [Workers -> Task]
      /\ task'[w] = [pc |-> pc, cred |-> cred, request |-> request,
                     route |-> route, tries |-> 1]
      /\ \A v \in Workers : v # w => task'[v] = task[v]
  BY <1>1, <1>2, EnterTask
<1>4. /\ request.recipient = Recipient
      /\ request.currency = Currency
      /\ Expected[route] # None => request.amount = Expected[route].amount
  BY DEF Admits, VerifyChallengeAndDecode, VerifyPinnedFields, MatchesExpected, RequestFor
<1> HIDE DEF request
<1>5. key \notin consumed /\ consumed' = consumed \cup {key}
  OBVIOUS
<1>6. TypeOK' /\ Landed' = Landed
  BY <1>1, <1>3, <1>5 DEF TypeOK, Landed, Key, SignatureKey
<1>7. honoured[cred.payment] = 0
  BY <1>1, <1>5 DEF SpentStaysReserved, TypeOK
<1>8. \A v \in Workers : RequestOK(v)'
  BY <1>3, <1>4, <1>5, <1>7 DEF RequestOK, Busy
<1>9. SpentStaysReserved' /\ HonouredOnce'
  BY <1>5 DEF SpentStaysReserved, HonouredOnce
<1>10. GrantsArePaid'
  BY <1>6, GrantsKeep
<1>11. ConsumedIsHonoured'
  <2>1. Busy(w)' /\ task'[w].cred = cred
    BY <1>3 DEF Busy, Stages
  <2>2. Held' = Held \cup {key}
    <3>1. \A v \in Workers : v # w => (Busy(v)' <=> Busy(v))
      BY <1>3 DEF Busy
    <3> QED
      BY <1>3, <2>1, <3>1 DEF Held
  <2>3. \A k \in consumed' : honoured'[k.payment] > 0 \/ k \in Held' \/ k \in stranded'
    BY <1>5, <2>2 DEF ConsumedIsHonoured
  <2>4. \A v \in Workers : Busy(v) => task[v].cred.payment # cred.payment
    BY <1>5 DEF RequestOK
  <2>5. \A v, u \in Workers :
          Busy(v)' /\ Busy(u)' /\ v # u => task'[v].cred.payment # task'[u].cred.payment
    BY <1>3, <2>1, <2>4 DEF ConsumedIsHonoured, Busy
  <2> QED
    BY <2>3, <2>5 DEF ConsumedIsHonoured
<1> QED
  BY <1>6, <1>8, <1>9, <1>10, <1>11

\* The store reports an error: the key may be in it, stranded, and no request holds
\* it.
LEMMA StoreFailsStep ==
  ASSUME IInv, NEW cred \in Credentials, NEW route \in Routes,
         StoreFails(SignatureKey(cred.payment)),
         UNCHANGED <<ledger, now, task, honoured, grants>>
  PROVE  IInv' /\ Landed' = Landed
<1> DEFINE key == SignatureKey(cred.payment)
<1> USE DEF IInv
<1>1. \/ UNCHANGED <<consumed, stranded>>
      \/ consumed' = consumed \cup {key} /\ stranded' = stranded \cup {key}
  BY DEF StoreFails
<1>2. cred.payment \in Payments /\ key \in Key
  BY CredentialTypes DEF Key, SignatureKey
<1> HIDE DEF key
<1>3. TypeOK' /\ Landed' = Landed
  BY <1>1, <1>2 DEF TypeOK, Landed
<1>4. consumed \subseteq consumed'
  BY <1>1
<1>5. \A v \in Workers : RequestOK(v)'
  BY <1>4 DEF RequestOK, Busy
<1>6. SpentStaysReserved' /\ HonouredOnce'
  BY <1>4 DEF SpentStaysReserved, HonouredOnce
<1>7. GrantsArePaid'
  BY <1>3, GrantsKeep
<1>8. ConsumedIsHonoured'
  BY <1>1 DEF ConsumedIsHonoured, Held, Busy
<1> QED
  BY <1>3, <1>5, <1>6, <1>7, <1>8

\* The request moves on and keeps its reservation.
LEMMA AdvanceStep ==
  ASSUME IInv, NEW w \in Workers, Busy(w), NEW pc \in Stages, Advance(w, pc),
         UNCHANGED <<now, consumed, honoured, grants, stranded>>,
         ledger' \in [Payments -> LedgerStatus],
         Landed' = Landed
  PROVE  IInv'
<1> USE DEF IInv
<1>1. /\ task' \in [Workers -> Task]
      /\ task'[w] = [pc |-> pc, cred |-> task[w].cred, request |-> task[w].request,
                     route |-> task[w].route, tries |-> 1]
      /\ \A v \in Workers : v # w => task'[v] = task[v]
  BY AdvanceTask
<1>2. /\ \A v \in Workers : Busy(v)' <=> Busy(v)
      /\ \A v \in Workers : Busy(v) => /\ task'[v].cred = task[v].cred
                                       /\ task'[v].request = task[v].request
                                       /\ task'[v].route = task[v].route
  BY <1>1 DEF Busy, Stages
<1>3. TypeOK'
  BY <1>1 DEF TypeOK
<1>4. \A v \in Workers : RequestOK(v)'
  BY <1>2 DEF RequestOK
<1>5. GrantsArePaid'
  BY GrantsKeep
<1>6. Held' = Held
  BY <1>2 DEF Held
<1>7. ConsumedIsHonoured'
  BY <1>2, <1>6 DEF ConsumedIsHonoured
<1>8. SpentStaysReserved' /\ HonouredOnce'
  BY DEF SpentStaysReserved, HonouredOnce
<1> QED
  BY <1>3, <1>4, <1>5, <1>7, <1>8

\* The request ends without a receipt: its key is released, or stranded by a
\* failed Delete, and nobody else's reservation is touched.
LEMMA GiveUpStep ==
  ASSUME IInv, NEW w \in Workers, Busy(w), GiveUp(w),
         UNCHANGED <<now, honoured, grants>>,
         ledger' \in [Payments -> LedgerStatus],
         Landed' = Landed
  PROVE  IInv'
<1> DEFINE p == task[w].cred.payment
           key == SignatureKey(p)
<1> USE DEF IInv
<1>1. /\ task' \in [Workers -> Task]
      /\ ~Busy(w)'
      /\ \A v \in Workers : v # w => task'[v] = task[v]
  BY RespondTask DEF GiveUp
<1>2. /\ p \in Payments
      /\ key \in Key
  BY BusyPayment DEF Key, SignatureKey
<1>3. \/ consumed' = consumed \ {key} /\ stranded' = stranded
      \/ consumed' = consumed /\ stranded' = stranded \cup {key}
  BY DEF GiveUp
<1>4. TypeOK'
  BY <1>1, <1>2, <1>3 DEF TypeOK
<1>5. honoured[p] = 0
  BY DEF RequestOK
<1>6. \A v \in Workers : Busy(v) /\ v # w => SignatureKey(task[v].cred.payment) # key
  BY KeysDiffer DEF ConsumedIsHonoured
<1>7. \A v \in Workers : RequestOK(v)'
  BY <1>1, <1>3, <1>6 DEF RequestOK, Busy
<1>8. SpentStaysReserved' /\ HonouredOnce'
  BY <1>3, <1>5, KeysDiffer DEF SpentStaysReserved, HonouredOnce
<1>9. GrantsArePaid'
  BY GrantsKeep
<1>10. ConsumedIsHonoured'
  <2>1. Held \subseteq Held' \cup {key}
    BY <1>1 DEF Held, Busy
  <2>2. \A k \in consumed' : honoured'[k.payment] > 0 \/ k \in Held' \/ k \in stranded'
    BY <1>3, <2>1 DEF ConsumedIsHonoured
  <2>3. \A v, u \in Workers :
          Busy(v)' /\ Busy(u)' /\ v # u => task'[v].cred.payment # task'[u].cred.payment
    BY <1>1 DEF ConsumedIsHonoured, Busy
  <2> QED
    BY <2>2, <2>3 DEF ConsumedIsHonoured
<1> QED
  BY <1>4, <1>7, <1>8, <1>9, <1>10

\* The request ends with the payment's first receipt and leaves its key behind.
LEMMA ReceiptStep ==
  ASSUME IInv, NEW w \in Workers, Busy(w), Receipt(w), Respond(w),
         task[w].cred.payment \in Landed,
         PaysFor(task[w].cred.payment, task[w].request),
         UNCHANGED <<ledger, now, consumed, stranded>>
  PROVE  /\ IInv'
         /\ \E p \in Landed : /\ honoured[p] = 0
                              /\ honoured' = [honoured EXCEPT ![p] = 1]
<1> DEFINE p == task[w].cred.payment
           key == SignatureKey(p)
           g == [payment |-> p, request |-> task[w].request, route |-> task[w].route]
<1> USE DEF IInv
<1>1. /\ task' \in [Workers -> Task]
      /\ ~Busy(w)'
      /\ \A v \in Workers : v # w => task'[v] = task[v]
  BY RespondTask
<1>2. p \in Payments /\ g \in Grant
  BY BusyPayment DEF Grant
<1>3. honoured' = [honoured EXCEPT ![p] = @ + 1] /\ grants' = grants \cup {g}
  BY DEF Receipt
<1>4. honoured \in [Payments -> Nat] /\ honoured[p] = 0
  BY DEF TypeOK, RequestOK
<1>5. honoured' = [honoured EXCEPT ![p] = 1]
  BY <1>3, <1>4
<1>6. TypeOK' /\ Landed' = Landed
  BY <1>1, <1>2, <1>3, <1>4, <1>5 DEF TypeOK, Landed
<1>7. \A v \in Workers : Busy(v) /\ v # w => task[v].cred.payment # p
  BY DEF ConsumedIsHonoured
<1>8. \A v \in Workers : RequestOK(v)'
  <2>1. ASSUME NEW v \in Workers, Busy(v), v # w
        PROVE  honoured'[task[v].cred.payment] = 0
    BY <2>1, <1>4, <1>5, <1>7, BusyPayment DEF RequestOK
  <2> QED
    BY <1>1, <2>1 DEF RequestOK, Busy
<1>9. key \in consumed
  BY DEF RequestOK
<1>10. SpentStaysReserved' /\ HonouredOnce'
  BY <1>2, <1>4, <1>5, <1>9 DEF SpentStaysReserved, HonouredOnce
<1>11. ConsumedIsHonoured'
  <2>1. Held \subseteq Held' \cup {key}
    BY <1>1 DEF Held, Busy
  <2>2. key.payment = p /\ honoured'[p] = 1
    BY <1>2, <1>4, <1>5 DEF SignatureKey
  <2>3. ASSUME NEW k \in consumed'
        PROVE  honoured'[k.payment] > 0 \/ k \in Held' \/ k \in stranded'
    <3>1. k.payment \in Payments
      BY DEF TypeOK, Key
    <3>2. honoured[k.payment] > 0 => honoured'[k.payment] > 0
      BY <3>1, <1>2, <1>4, <1>5
    <3> QED
      BY <3>2, <2>1, <2>2 DEF ConsumedIsHonoured
  <2>4. \A v, u \in Workers :
          Busy(v)' /\ Busy(u)' /\ v # u => task'[v].cred.payment # task'[u].cred.payment
    BY <1>1 DEF ConsumedIsHonoured, Busy
  <2> QED
    BY <2>3, <2>4 DEF ConsumedIsHonoured
<1>12. GrantsArePaid'
  <2>1. ASSUME NEW h \in grants'
        PROVE  /\ ledger'[h.payment] = "landed"
               /\ PaysFor(h.payment, h.request)
               /\ h.request.recipient = Recipient
               /\ h.request.currency = Currency
               /\ Expected[h.route] # None
                    => Tx[h.payment].amount = Expected[h.route].amount
    <3>1. CASE h \in grants
      BY <3>1 DEF GrantsArePaid
    <3>2. CASE h = g
      BY <3>2 DEF RequestOK, PaysFor, Landed
    <3> QED
      BY <1>3, <3>1, <3>2
  <2> QED
    BY <2>1 DEF GrantsArePaid, PaysFor
<1> QED
  BY <1>4, <1>5, <1>6, <1>8, <1>10, <1>11, <1>12

\* A restart turns every reservation in flight into a stranded one.
LEMMA RestartStep ==
  ASSUME IInv, ServerRestart
  PROVE  IInv' /\ UNCHANGED honoured /\ Landed' = Landed
<1> USE DEF IInv
<1>1. /\ task' = [w \in Workers |-> Idle]
      /\ stranded' = stranded \cup Held
      /\ UNCHANGED <<ledger, now, consumed, honoured, grants>>
  BY DEF ServerRestart, Restart
<1>2. \A w \in Workers : ~Busy(w)'
  BY <1>1 DEF Busy, Idle
<1>3. Held \subseteq Key
  BY BusyPayment DEF Held, Key, SignatureKey
<1>4. TypeOK' /\ Landed' = Landed
  BY <1>1, <1>3 DEF TypeOK, Task, Landed
<1>5. GrantsArePaid'
  BY <1>1, <1>4, GrantsKeep
<1>6. ConsumedIsHonoured'
  BY <1>1, <1>2 DEF ConsumedIsHonoured
<1> QED
  BY <1>1, <1>2, <1>4, <1>5, <1>6 DEF RequestOK, SpentStaysReserved, HonouredOnce

-----------------------------------------------------------------------------
(* One lemma per action: what it keeps, and what Redemption sees of it. *)

LEMMA VerifyTransactionIInv ==
  ASSUME IInv, NEW w \in Workers, NEW cred \in Credentials, NEW route \in Routes,
         VerifyTransaction(w, cred, route)
  PROVE  IInv' /\ UNCHANGED honoured /\ Landed' = Landed
<1>1. "simulate" \in Stages
  BY DEF Stages
<1>2. /\ ~Busy(w) /\ Admits(cred, route) /\ Reserve(w, "simulate", cred, route)
      /\ UNCHANGED <<ledger, now, honoured, grants>>
  BY DEF VerifyTransaction
<1> QED
  BY <1>1, <1>2, ReserveStep, StoreFailsStep DEF Reserve

LEMMA VerifySignatureIInv ==
  ASSUME IInv, NEW w \in Workers, NEW cred \in Credentials, NEW route \in Routes,
         VerifySignature(w, cred, route)
  PROVE  IInv' /\ UNCHANGED honoured /\ Landed' = Landed
<1>1. "fetch" \in Stages
  BY DEF Stages
<1>2. /\ ~Busy(w) /\ Admits(cred, route) /\ Reserve(w, "fetch", cred, route)
      /\ UNCHANGED <<ledger, now, honoured, grants>>
  BY DEF VerifySignature
<1> QED
  BY <1>1, <1>2, ReserveStep, StoreFailsStep DEF Reserve

LEMMA SimulateTransactionIInv ==
  ASSUME IInv, NEW w \in Workers, SimulateTransaction(w)
  PROVE  IInv' /\ UNCHANGED honoured /\ Landed' = Landed
<1>1. Busy(w) /\ "send" \in Stages
  BY BusyIsActive DEF SimulateTransaction, IInv, Stages
<1>2. /\ UNCHANGED <<now, honoured, grants>>
      /\ ledger' \in [Payments -> LedgerStatus]
      /\ Landed' = Landed
  BY DEF SimulateTransaction, IInv, TypeOK, Landed
<1>3. CASE Advance(w, "send") /\ UNCHANGED <<consumed, stranded>>
  BY <1>1, <1>2, <1>3, AdvanceStep
<1>4. CASE GiveUp(w)
  BY <1>1, <1>2, <1>4, GiveUpStep
<1> QED
  BY <1>2, <1>3, <1>4 DEF SimulateTransaction

LEMMA SendTransactionIInv ==
  ASSUME IInv, NEW w \in Workers, SendTransaction(w)
  PROVE  IInv' /\ UNCHANGED honoured /\ Landed' = Landed
<1> DEFINE p == task[w].cred.payment
<1>1. Busy(w) /\ "confirm" \in Stages
  BY BusyIsActive DEF SendTransaction, IInv, Stages
<1>2. p \in Payments /\ ledger' \in {ledger, AfterSend(p)}
  BY <1>1, BusyPayment DEF IInv, SendTransaction
<1>3. /\ UNCHANGED <<now, honoured, grants>>
      /\ ledger' \in [Payments -> LedgerStatus]
      /\ Landed' = Landed
  BY <1>2, SendStep DEF SendTransaction, IInv
<1>4. CASE Advance(w, "confirm") /\ UNCHANGED <<consumed, stranded>>
  BY <1>1, <1>3, <1>4, AdvanceStep
<1>5. CASE GiveUp(w)
  BY <1>1, <1>3, <1>5, GiveUpStep
<1> QED
  BY <1>3, <1>4, <1>5 DEF SendTransaction

LEMMA WaitForConfirmationIInv ==
  ASSUME IInv, NEW w \in Workers, WaitForConfirmation(w) \/ ContextDone(w)
  PROVE  IInv' /\ UNCHANGED honoured /\ Landed' = Landed
<1>1. Busy(w) /\ "fetch" \in Stages
  BY BusyIsActive DEF WaitForConfirmation, ContextDone, IInv, Stages
<1>2. /\ UNCHANGED <<now, honoured, grants>>
      /\ ledger' \in [Payments -> LedgerStatus]
      /\ Landed' = Landed
  BY DEF WaitForConfirmation, ContextDone, IInv, TypeOK, Landed
<1>3. CASE Advance(w, "fetch") /\ UNCHANGED <<consumed, stranded>>
  BY <1>1, <1>2, <1>3, AdvanceStep
<1>4. CASE GiveUp(w)
  BY <1>1, <1>2, <1>4, GiveUpStep
<1> QED
  BY <1>2, <1>3, <1>4 DEF WaitForConfirmation, ContextDone

LEMMA VerifyOnChainIInv ==
  ASSUME IInv, NEW w \in Workers, VerifyOnChain(w)
  PROVE  /\ IInv'
         /\ Landed' = Landed
         /\ \/ UNCHANGED honoured
            \/ \E p \in Landed : /\ honoured[p] = 0
                                 /\ honoured' = [honoured EXCEPT ![p] = 1]
<1>1. Busy(w) /\ task[w].cred.payment \in Payments
  BY BusyIsActive, BusyPayment DEF VerifyOnChain, IInv, Stages
<1>2. /\ UNCHANGED <<ledger, now>>
      /\ ledger' \in [Payments -> LedgerStatus]
      /\ Landed' = Landed
  BY DEF VerifyOnChain, IInv, TypeOK, Landed
<1>3. CASE /\ ledger[task[w].cred.payment] = "landed"
           /\ PaysFor(task[w].cred.payment, task[w].request)
           /\ Receipt(w)
           /\ Respond(w)
           /\ UNCHANGED <<consumed, stranded>>
  <2>1. task[w].cred.payment \in Landed
    BY <1>1, <1>3 DEF Landed
  <2> QED
    BY <1>1, <1>2, <1>3, <2>1, ReceiptStep
<1>4. CASE GiveUp(w) /\ UNCHANGED <<honoured, grants>>
  BY <1>1, <1>2, <1>4, GiveUpStep
<1> QED
  BY <1>3, <1>4 DEF VerifyOnChain

-----------------------------------------------------------------------------
(* Theorems. *)

LEMMA NextIInv == IInv /\ [Next]_vars => IInv'
<1> SUFFICES ASSUME IInv, [Next]_vars PROVE IInv'
  OBVIOUS
<1>1. CASE UNCHANGED vars
  BY <1>1 DEF vars, IInv, TypeOK, RequestOK, Busy, PaysFor, Landed, Held,
              SpentStaysReserved, ConsumedIsHonoured, HonouredOnce, GrantsArePaid
<1>2. CASE World
  BY <1>2, WorldIInv
<1>3. ASSUME NEW w \in Workers, NEW cred \in Credentials, NEW route \in Routes,
             VerifyTransaction(w, cred, route) \/ VerifySignature(w, cred, route)
      PROVE  IInv'
  BY <1>3, VerifyTransactionIInv, VerifySignatureIInv
<1>4. ASSUME NEW w \in Workers, Settle(w) \/ ContextDone(w)
      PROVE  IInv'
  BY <1>4, SimulateTransactionIInv, SendTransactionIInv, WaitForConfirmationIInv,
     VerifyOnChainIInv DEF Settle
<1>5. CASE ServerRestart
  BY <1>5, RestartStep
<1> QED
  BY <1>1, <1>2, <1>3, <1>4, <1>5 DEF Next

\* In every reachable state a request in flight is the only holder of its
\* signature, which has not bought anything, and what bought a receipt is never
\* released.
THEOREM GoInvariance == Spec => []IInv
<1>1. Init => IInv
  BY InitIInv
<1>2. IInv /\ [Next]_vars => IInv'
  BY NextIInv
<1> QED
  BY <1>1, <1>2, PTL DEF Spec

\* Every receipt the Go server gives is covered by a landed payment for the price
\* of the route.
THEOREM GoGrantsTheorem == Spec => []GrantsArePaid
<1>1. IInv => GrantsArePaid
  BY DEF IInv
<1> QED
  BY <1>1, GoInvariance, PTL

\* A reservation ends as a receipt or is released; only a dead process, a failed
\* PutIfAbsent or a failed Delete leaves one behind, and no two requests hold the
\* same signature.
THEOREM GoConsumedTheorem == Spec => []ConsumedIsHonoured
<1>1. IInv => ConsumedIsHonoured
  BY DEF IInv
<1> QED
  BY <1>1, GoInvariance, PTL

\* The Go server implements Redemption: reserving before settling and releasing on
\* failure never lets a payment be honoured twice or before it landed.
THEOREM GoRefinement == Spec => ImplementsRedemption
<1>1. Init => Promise!Init
  BY DEF Init, Promise!Init, Landed
<1>2. IInv /\ [Next]_vars => [Promise!Next]_<<Landed, honoured>>
  <2> SUFFICES ASSUME IInv, [Next]_vars
               PROVE  Promise!Next \/ UNCHANGED <<Landed, honoured>>
    OBVIOUS
  <2>1. CASE UNCHANGED vars
    BY <2>1 DEF vars, Landed
  <2>2. CASE World
    BY <2>2, WorldRefines DEF IInv
  <2>3. ASSUME NEW w \in Workers, NEW cred \in Credentials, NEW route \in Routes,
               VerifyTransaction(w, cred, route) \/ VerifySignature(w, cred, route)
        PROVE  UNCHANGED <<Landed, honoured>>
    BY <2>3, VerifyTransactionIInv, VerifySignatureIInv
  <2>4. ASSUME NEW w \in Workers, VerifyOnChain(w)
        PROVE  Promise!Next \/ UNCHANGED <<Landed, honoured>>
    <3>1. CASE UNCHANGED honoured
      BY <2>4, <3>1, VerifyOnChainIInv
    <3>2. ASSUME NEW p \in Landed, honoured[p] = 0,
                 honoured' = [honoured EXCEPT ![p] = 1]
          PROVE  Promise!Next
      <4>1. p \in Payments /\ Landed' = Landed
        BY <2>4, VerifyOnChainIInv DEF Landed
      <4> QED
        BY <4>1, <3>2 DEF Promise!Next, Promise!Honour
    <3> QED
      BY <2>4, <3>1, <3>2, VerifyOnChainIInv
  <2>5. ASSUME NEW w \in Workers,
               \/ SimulateTransaction(w) \/ SendTransaction(w)
               \/ WaitForConfirmation(w) \/ ContextDone(w)
        PROVE  UNCHANGED <<Landed, honoured>>
    BY <2>5, SimulateTransactionIInv, SendTransactionIInv, WaitForConfirmationIInv
  <2>6. CASE ServerRestart
    BY <2>6, RestartStep
  <2> QED
    BY <2>1, <2>2, <2>3, <2>4, <2>5, <2>6 DEF Next, Settle
<1> QED
  BY <1>1, <1>2, GoInvariance, PTL DEF Spec, ImplementsRedemption, Promise!Spec

=============================================================================
