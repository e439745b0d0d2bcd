----------------------------- MODULE RustCharge -----------------------------
(***************************************************************************)
(* The Rust charge server (rust/src/server/charge.rs): settle first, then  *)
(* consume the signature with one atomic put_if_absent.                    *)
(***************************************************************************)
EXTENDS ChargeWorld

CONSTANTS
  SimulationMaxAttempts,  \* SIMULATION_MAX_ATTEMPTS (3 in the code)
  PollAttempts            \* polls for the confirmed status (30 in the code)

ASSUME AttemptsAssumption ==
  SimulationMaxAttempts \in Nat \ {0} /\ PollAttempts \in Nat \ {0}

-----------------------------------------------------------------------------
(* Challenges and their verification. *)

\* The challenge a route issues; the store keeps nothing about it.
ChargeWithOptions(amount, expires) ==
  LET c == [realm |-> Realm, method |-> "solana", intent |-> "charge",
            request |-> [amount |-> amount, currency |-> Currency,
                         recipient |-> Recipient, fee_payer |-> FeePayer],
            expires |-> expires] IN
    [id |-> Hmac(Realm, c), realm |-> Realm, method |-> c.method,
     intent |-> c.intent, request |-> c.request, expires |-> c.expires]

\* Mutant: settlement runs against what the credential claims.
RequestForClaimed(cred, route) == cred.challenge.request

\* verify_credential takes the request from the credential,
\* verify_credential_with_expected from the route.
RequestFor(cred, route) ==
  IF Expected[route] = None THEN cred.challenge.request ELSE Expected[route]

MatchesExpected(cred, route) ==
  LET claimed == cred.challenge.request  request == RequestFor(cred, route) IN
    /\ claimed.amount = request.amount
    /\ claimed.currency = request.currency
    /\ claimed.recipient = request.recipient

VerifyPinnedFields(c, request) ==
  /\ c.method = "solana"
  /\ c.intent = "charge"
  /\ c.realm = Realm
  /\ request.currency = Currency
  /\ request.recipient = Recipient

\* verify, up to the settlement.  The id is recomputed with the server's realm.
Verify(cred, route) ==
  LET c == cred.challenge IN
    /\ MatchesExpected(cred, route)
    /\ c.id = Hmac(Realm, c)
    /\ c.expires # None => c.expires > now
    /\ VerifyPinnedFields(c, RequestFor(cred, route))

-----------------------------------------------------------------------------
(* Pull: check, co-sign, simulate, broadcast, poll. *)

CheckNetworkBlockhash(p) == Tx[p].surfpool => Localnet

VerifyTransactionPreBroadcast(p, request) ==
  /\ PaysFor(p, request)
  /\ request.fee_payer => Tx[p].fee_payer

VerifyPull(w, cred, route) ==
  LET request == RequestFor(cred, route)  p == cred.payment IN
    /\ ~Busy(w)
    /\ cred.type = "transaction"
    /\ Verify(cred, route)
    /\ CheckNetworkBlockhash(p)
    /\ VerifyTransactionPreBroadcast(p, request)
    /\ request.fee_payer => FeePayerSigner
    /\ Enter(w, "simulate", cred, request, route)
    /\ UNCHANGED <<ledger, now, consumed, honoured, grants, stranded>>

\* The server adds its signature only under a request with fee sponsorship.
FullySigned(t) == Tx[t.cred.payment].fee_payer => t.request.fee_payer

Simulate(w) ==
  /\ task[w].pc = "simulate"
  /\ \/ MaySimulate(task[w].cred.payment) /\ FullySigned(task[w]) /\ Advance(w, "send")
     \/ Retry(w, SimulationMaxAttempts)
     \/ task[w].tries >= SimulationMaxAttempts /\ Respond(w)
  /\ UNCHANGED <<ledger, now, consumed, honoured, grants, stranded>>

\* Mutant: the signature is consumed as soon as the transaction is sent.
SendTransactionConsumes(w) ==
  LET p == task[w].cred.payment IN
    /\ task[w].pc = "send"
    /\ ledger' = AfterSend(p) /\ Advance(w, "confirm")
    /\ consumed' = consumed \cup {SignatureKey(p)}
    /\ UNCHANGED <<now, honoured, grants, stranded>>

\* An error is returned although the node may have taken the transaction.
SendTransaction(w) ==
  LET p == task[w].cred.payment IN
    /\ task[w].pc = "send"
    /\ \/ ledger' = AfterSend(p) /\ Advance(w, "confirm")
       \/ ledger' \in {ledger, AfterSend(p)} /\ Respond(w)
    /\ UNCHANGED <<now, consumed, honoured, grants, stranded>>

\* Mutant: the polling loop has no last attempt.
PollConfirmedForever(w) ==
  /\ task[w].pc = "confirm"
  /\ \/ ledger[task[w].cred.payment] = "landed" /\ Advance(w, "consume")
     \/ ledger[task[w].cred.payment] # "landed" /\ UNCHANGED task
  /\ UNCHANGED <<ledger, now, consumed, honoured, grants, stranded>>

\* A failed transaction is never reported confirmed; it runs into the timeout.
PollConfirmed(w) ==
  /\ task[w].pc = "confirm"
  /\ \/ ledger[task[w].cred.payment] = "landed" /\ Advance(w, "consume")
     \/ Retry(w, PollAttempts)
     \/ task[w].tries >= PollAttempts /\ Respond(w)
  /\ UNCHANGED <<ledger, now, consumed, honoured, grants, stranded>>

-----------------------------------------------------------------------------
(* Push: the transaction must be on the ledger already. *)

\* Mutant: the request is handed to a stage nobody implements.
VerifyPushNowhere(w, cred, route) ==
  /\ ~Busy(w)
  /\ cred.type = "signature"
  /\ Verify(cred, route)
  /\ Enter(w, "verify", cred, RequestFor(cred, route), route)
  /\ UNCHANGED <<ledger, now, consumed, honoured, grants, stranded>>

VerifyPush(w, cred, route) ==
  /\ ~Busy(w)
  /\ cred.type = "signature"
  /\ Verify(cred, route)
  /\ Enter(w, "fetch", cred, RequestFor(cred, route), route)
  /\ UNCHANGED <<ledger, now, consumed, honoured, grants, stranded>>

VerifyOnChain(w) ==
  LET t == task[w] IN
    /\ t.pc = "fetch"
    /\ \/ /\ ledger[t.cred.payment] = "landed"
          /\ PaysFor(t.cred.payment, t.request)
          /\ Advance(w, "consume")
       \/ Respond(w)
    /\ UNCHANGED <<ledger, now, consumed, honoured, grants, stranded>>

-----------------------------------------------------------------------------
(* Both: put_if_absent decides who gets the receipt. *)

\* Mutant: the result of the insertion is ignored.
ConsumeUnchecked(w) ==
  /\ task[w].pc = "consume"
  /\ consumed' = consumed \cup {SignatureKey(task[w].cred.payment)}
  /\ Receipt(w)
  /\ Respond(w)
  /\ UNCHANGED <<ledger, now, stranded>>

\* The signature is new, was consumed before, or the store reports an error.
Consume(w) ==
  LET key == SignatureKey(task[w].cred.payment) IN
    /\ task[w].pc = "consume"
    /\ \/ /\ key \notin consumed
          /\ consumed' = consumed \cup {key}
          /\ Receipt(w)
          /\ UNCHANGED stranded
       \/ /\ key \in consumed
          /\ UNCHANGED <<consumed, honoured, grants, stranded>>
       \/ StoreFails(key) /\ UNCHANGED <<honoured, grants>>
    /\ Respond(w)
    /\ UNCHANGED <<ledger, now>>

\* No request holds a key between two steps, so a restart strands nothing; one that
\* dies within put_if_absent is the error of Consume.
ServerRestart == Restart({})

Settle(w) ==
  \/ Simulate(w)
  \/ SendTransaction(w)
  \/ PollConfirmed(w)
  \/ VerifyOnChain(w)
  \/ Consume(w)

Next ==
  \/ World
  \/ \E w \in Workers, cred \in Credentials, route \in Routes :
       VerifyPull(w, cred, route) \/ VerifyPush(w, cred, route)
  \/ \E w \in Workers : Settle(w)
  \/ ServerRestart

Spec == Init /\ [][Next]_vars

\* The runtime keeps running a request it has started; RPC calls time out.
LiveSpec == Spec /\ \A w \in Workers : WF_vars(Settle(w))

\* A signature in the store bought a receipt, or an insertion put it there and
\* reported an error.  A request that failed anywhere else on the way (simulation,
\* send, timeout, crash) can be repeated, and a signature the store took without a
\* receipt never buys one: the two kinds do not mix.
ConsumedIsHonoured ==
  LET spent == {SignatureKey(p) : p \in {q \in Payments : honoured[q] > 0}} IN
    /\ consumed = spent \cup stranded
    /\ spent \cap stranded = {}

=============================================================================
