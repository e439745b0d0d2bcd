------------------------------ MODULE GoCharge ------------------------------
(***************************************************************************)
(* The Go charge server (go/server/server.go): reserve the signature with  *)
(* PutIfAbsent, settle, and delete the reservation if anything fails.      *)
(***************************************************************************)
EXTENDS ChargeWorld

-----------------------------------------------------------------------------
(* Challenges and their verification. *)

\* The challenge a route issues.
ChargeWithOptions(amount, expires) ==
  LET c == [realm |-> Realm, method |-> "solana", intent |-> "charge",
            request |-> [amount |-> amount, currency |-> Currency,
                         recipient |-> Recipient,
                         fee_payer |-> FeePayer \/ FeePayerSigner],
            expires |-> expires] IN
    [id |-> Hmac(Realm, c), realm |-> Realm, method |-> c.method,
     intent |-> c.intent, request |-> c.request, expires |-> c.expires]

\* VerifyCredential takes the request from the credential,
\* VerifyCredentialWithExpected from the route.
RequestFor(cred, route) ==
  IF Expected[route] = None THEN cred.challenge.request ELSE Expected[route]

MatchesExpected(cred, route) ==
  LET claimed == cred.challenge.request  request == RequestFor(cred, route) IN
    /\ claimed.amount = request.amount
    /\ claimed.currency = request.currency
    /\ claimed.recipient = request.recipient

VerifyPinnedFields(c) ==
  /\ c.method = "solana"
  /\ c.intent = "charge"
  /\ c.realm = Realm
  /\ c.request.currency = Currency
  /\ c.request.recipient = Recipient

\* challenge.Verify recomputes the id with the echoed realm.
VerifyChallengeAndDecode(c) ==
  /\ c.id = Hmac(c.realm, c)
  /\ c.expires # None => c.expires > now
  /\ VerifyPinnedFields(c)

Admits(cred, route) ==
  VerifyChallengeAndDecode(cred.challenge) /\ MatchesExpected(cred, route)

-----------------------------------------------------------------------------
(* The reservation. *)

\* Keys held by requests in flight.
Held == {SignatureKey(task[w].cred.payment) : w \in {v \in Workers : Busy(v)}}

\* PutIfAbsent succeeds and the request goes on, or its error is returned before
\* the clean-up is armed.
Reserve(w, pc, cred, route) ==
  LET key == SignatureKey(cred.payment) IN
    \/ /\ key \notin consumed
       /\ consumed' = consumed \cup {key}
       /\ Enter(w, pc, cred, RequestFor(cred, route), route)
       /\ UNCHANGED stranded
    \/ StoreFails(key) /\ UNCHANGED task

\* Every failure after the reservation, a cancelled context included, deletes it;
\* the error of a Delete that fails is dropped.
GiveUp(w) ==
  LET key == SignatureKey(task[w].cred.payment) IN
    /\ \/ consumed' = consumed \ {key} /\ UNCHANGED stranded
       \/ stranded' = stranded \cup {key} /\ UNCHANGED consumed
    /\ Respond(w)

-----------------------------------------------------------------------------
(* Pull. *)

CheckNetworkBlockhash(p) == Tx[p].surfpool => Localnet

\* A configured signer must be one the transaction asks for, and without one the
\* transaction must not need it.
CoSign(p) == Tx[p].fee_payer = FeePayerSigner

\* The transfers are not looked at before the transaction is sent.
VerifyTransaction(w, cred, route) ==
  /\ ~Busy(w)
  /\ cred.type = "transaction"
  /\ Admits(cred, route)
  /\ CheckNetworkBlockhash(cred.payment)
  /\ CoSign(cred.payment)
  /\ Reserve(w, "simulate", cred, route)
  /\ UNCHANGED <<ledger, now, honoured, grants>>

SimulateTransaction(w) ==
  /\ task[w].pc = "simulate"
  /\ \/ /\ MaySimulate(task[w].cred.payment)
        /\ Advance(w, "send")
        /\ UNCHANGED <<consumed, stranded>>
     \/ GiveUp(w)
  /\ UNCHANGED <<ledger, now, honoured, grants>>

\* An error is returned although the node may have taken the transaction.
SendTransaction(w) ==
  LET p == task[w].cred.payment IN
    /\ task[w].pc = "send"
    /\ \/ /\ ledger' = AfterSend(p)
          /\ Advance(w, "confirm")
          /\ UNCHANGED <<consumed, stranded>>
       \/ ledger' \in {ledger, AfterSend(p)} /\ GiveUp(w)
    /\ UNCHANGED <<now, honoured, grants>>

\* Mutant: the loop does not look at the status's error.
WaitForConfirmationIgnoresError(w) ==
  /\ task[w].pc = "confirm"
  /\ ledger[task[w].cred.payment] = "landed"
  /\ Advance(w, "fetch")
  /\ UNCHANGED <<ledger, now, consumed, honoured, grants, stranded>>

\* The loop ends with a status; it has no last attempt of its own.
WaitForConfirmation(w) ==
  LET status == ledger[task[w].cred.payment] IN
    /\ task[w].pc = "confirm"
    /\ \/ /\ status = "landed"
          /\ Advance(w, "fetch")
          /\ UNCHANGED <<consumed, stranded>>
       \/ status = "failed" /\ GiveUp(w)
    /\ UNCHANGED <<ledger, now, honoured, grants>>

\* The caller's context ends: the client is gone or a deadline passed.
ContextDone(w) ==
  /\ task[w].pc = "confirm"
  /\ GiveUp(w)
  /\ UNCHANGED <<ledger, now, honoured, grants>>

-----------------------------------------------------------------------------
(* Push, and the end of both. *)

VerifySignature(w, cred, route) ==
  /\ ~Busy(w)
  /\ cred.type = "signature"
  /\ Admits(cred, route)
  /\ ~RequestFor(cred, route).fee_payer
  /\ Reserve(w, "fetch", cred, route)
  /\ UNCHANGED <<ledger, now, honoured, grants>>

VerifyOnChain(w) ==
  LET t == task[w] IN
    /\ t.pc = "fetch"
    /\ \/ /\ ledger[t.cred.payment] = "landed"
          /\ PaysFor(t.cred.payment, t.request)
          /\ Receipt(w)
          /\ Respond(w)
          /\ UNCHANGED <<consumed, stranded>>
       \/ /\ GiveUp(w)
          /\ UNCHANGED <<honoured, grants>>
    /\ UNCHANGED <<ledger, now>>

ServerRestart == Restart(Held)

Settle(w) ==
  \/ SimulateTransaction(w)
  \/ SendTransaction(w)
  \/ WaitForConfirmation(w)
  \/ VerifyOnChain(w)

Next ==
  \/ World
  \/ \E w \in Workers, cred \in Credentials, route \in Routes :
       VerifyTransaction(w, cred, route) \/ VerifySignature(w, cred, route)
  \/ \E w \in Workers : Settle(w) \/ ContextDone(w)
  \/ ServerRestart

Spec == Init /\ [][Next]_vars

\* The scheduler keeps running a request's goroutine.
LiveSpec == Spec /\ \A w \in Workers : WF_vars(Settle(w))

-----------------------------------------------------------------------------
(* Properties. *)

\* A signature is reserved by one request at a time, and a reservation ends as a
\* receipt or is deleted: a landed payment whose request failed can be presented
\* again.  Only a process that dies in between, a PutIfAbsent that reports an error
\* after it wrote, or a Delete that fails leaves a reservation behind.
ConsumedIsHonoured ==
  /\ \A key \in consumed :
       honoured[key.payment] > 0 \/ key \in Held \/ key \in stranded
  /\ \A v, w \in Workers :
       Busy(v) /\ Busy(w) /\ v # w => task[v].cred.payment # task[w].cred.payment

\* A request whose transaction the ledger decided is answered.  One whose
\* transaction was dropped is not promised an end: the polling loop relies on the
\* caller's context.
DecidedIsAnswered ==
  \A w \in Workers :
    Busy(w) /\ ledger[task[w].cred.payment] \in {"landed", "failed"} ~> ~Busy(w)

=============================================================================
