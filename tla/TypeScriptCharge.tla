-------------------------- MODULE TypeScriptCharge --------------------------
(***************************************************************************)
(* The TypeScript charge server (typescript/packages/mpp/src/server/       *)
(* Charge.ts).  Challenges, their HMAC, expiry and the comparison with the *)
(* route's request are the mppx framework's.  A signature is looked up in  *)
(* the store before the payment is verified and put there afterwards.      *)
(***************************************************************************)
EXTENDS ChargeWorld

CONSTANT PollAttempts  \* polls within waitForConfirmation's timeoutMs

\* charge.request: the route's request from its amount and the configuration.
RouteRequest(amount) ==
  [amount |-> amount, currency |-> Currency, recipient |-> Recipient,
   fee_payer |-> FeePayerSigner]

\* The challenge the framework issues for a route's request.
Issue(amount, expires) ==
  LET c == [realm |-> Realm, method |-> "solana", intent |-> "charge",
            request |-> RouteRequest(amount), expires |-> expires] IN
    [id |-> Hmac(Realm, c), realm |-> Realm, method |-> c.method,
     intent |-> c.intent, request |-> c.request, expires |-> c.expires]

\* The framework's checks; each of them binds the credential to the route.
FrameworkAdmits(cred, route) ==
  LET c == cred.challenge IN
    /\ c.id = Hmac(Realm, c)
    /\ c.realm = Realm
    /\ c.expires # None => c.expires > now
    /\ c.request = Expected[route]

-----------------------------------------------------------------------------
(* verifyTransaction *)

CheckNetworkBlockhash(p) == Tx[p].surfpool => Localnet

VerifyTransactionPreBroadcast(p, request) ==
  /\ PaysFor(p, request)
  /\ request.fee_payer => Tx[p].fee_payer

\* A configured signer must be one the transaction asks for.
CoSign(p) == FeePayerSigner => Tx[p].fee_payer

VerifyTransaction(w, cred, route) ==
  LET request == cred.challenge.request IN
    /\ ~Busy(w)
    /\ cred.type = "transaction"
    /\ FrameworkAdmits(cred, route)
    /\ CheckNetworkBlockhash(cred.payment)
    /\ VerifyTransactionPreBroadcast(cred.payment, request)
    /\ CoSign(cred.payment)
    /\ Enter(w, "simulate", cred, request, route)
    /\ UNCHANGED <<ledger, now, consumed, honoured, grants, stranded>>

SimulateTransaction(w) ==
  LET p == task[w].cred.payment IN
    /\ task[w].pc = "simulate"
    /\ \/ /\ MaySimulate(p)
          /\ Tx[p].fee_payer => FeePayerSigner
          /\ Advance(w, "send")
       \/ Respond(w)
    /\ UNCHANGED <<ledger, now, consumed, honoured, grants, stranded>>

\* The node simulates again; an error is returned although it may have taken the
\* transaction.
BroadcastTransaction(w) ==
  LET p == task[w].cred.payment IN
    /\ task[w].pc = "send"
    /\ \/ MaySimulate(p) /\ ledger' = AfterSend(p) /\ Advance(w, "confirm")
       \/ ledger' \in {ledger, AfterSend(p)} /\ Respond(w)
    /\ UNCHANGED <<now, consumed, honoured, grants, stranded>>

\* The loop ends with a status, a failed fetch or the timeout.
WaitForConfirmation(w) ==
  LET status == ledger[task[w].cred.payment] IN
    /\ task[w].pc = "confirm"
    /\ \/ status = "landed" /\ Advance(w, "fetch")
       \/ status = "failed" /\ Respond(w)
       \/ Retry(w, PollAttempts)
       \/ Respond(w)
    /\ UNCHANGED <<ledger, now, consumed, honoured, grants, stranded>>

-----------------------------------------------------------------------------
(* verifySignature, and the end of both. *)

\* Mutant: the store is not consulted.
VerifySignatureUnchecked(w, cred, route) ==
  /\ ~Busy(w)
  /\ cred.type = "signature"
  /\ FrameworkAdmits(cred, route)
  /\ ~cred.challenge.request.fee_payer
  /\ Enter(w, "fetch", cred, cred.challenge.request, route)
  /\ UNCHANGED <<ledger, now, consumed, honoured, grants, stranded>>

VerifySignature(w, cred, route) ==
  /\ ~Busy(w)
  /\ cred.type = "signature"
  /\ FrameworkAdmits(cred, route)
  /\ ~cred.challenge.request.fee_payer
  /\ SignatureKey(cred.payment) \notin consumed
  /\ Enter(w, "fetch", cred, cred.challenge.request, route)
  /\ UNCHANGED <<ledger, now, consumed, honoured, grants, stranded>>

\* fetchTransaction and verifyInstructions, for pull and push.
VerifyOnChain(w) ==
  LET t == task[w] IN
    /\ t.pc = "fetch"
    /\ \/ /\ ledger[t.cred.payment] = "landed"
          /\ PaysFor(t.cred.payment, t.request)
          /\ Advance(w, "consume")
       \/ Respond(w)
    /\ UNCHANGED <<ledger, now, consumed, honoured, grants, stranded>>

\* store.put, whatever the store holds by now, and the receipt, unless it throws.
MarkConsumed(w) ==
  LET key == SignatureKey(task[w].cred.payment) IN
    /\ task[w].pc = "consume"
    /\ \/ /\ consumed' = consumed \cup {key}
          /\ Receipt(w)
          /\ UNCHANGED stranded
       \/ StoreFails(key) /\ UNCHANGED <<honoured, grants>>
    /\ Respond(w)
    /\ UNCHANGED <<ledger, now>>

ServerRestart == Restart({})

Settle(w) ==
  \/ SimulateTransaction(w)
  \/ BroadcastTransaction(w)
  \/ WaitForConfirmation(w)
  \/ VerifyOnChain(w)
  \/ MarkConsumed(w)

Next ==
  \/ World
  \/ \E w \in Workers, cred \in Credentials, route \in Routes :
       VerifyTransaction(w, cred, route) \/ VerifySignature(w, cred, route)
  \/ \E w \in Workers : Settle(w)
  \/ ServerRestart

Spec == Init /\ [][Next]_vars

\* Node's event loop resumes a request whose fetch completed or failed.
LiveSpec == Spec /\ \A w \in Workers : WF_vars(Settle(w))

=============================================================================
