---------------------------- MODULE PythonCharge ----------------------------
(***************************************************************************)
(* The Python charge server (python/src/solana_mpp/server/mpp.py): like Go *)
(* it reserves a key, settles, and deletes the key if an exception is      *)
(* raised.  The key of a transaction credential is the head of its text,   *)
(* the key of a signature credential is the signature.                     *)
(***************************************************************************)
EXTENDS ChargeWorld

\* The challenge a route issues.
ChargeWithOptions(amount, expires) ==
  LET c == [realm |-> Realm, method |-> "solana", intent |-> "charge",
            request |-> [amount |-> amount, currency |-> Currency,
                         recipient |-> Recipient,
                         fee_payer |-> FeePayer \/ FeePayerSigner],
            expires |-> expires] IN
    [id |-> Hmac(Realm, c), realm |-> Realm, method |-> c.method,
     intent |-> c.intent, request |-> c.request, expires |-> c.expires]

\* verify_credential takes the request from the credential,
\* verify_credential_with_expected from the route.
RequestFor(cred, route) ==
  IF Expected[route] = None THEN cred.challenge.request ELSE Expected[route]

MatchesExpected(cred, route) ==
  LET claimed == cred.challenge.request  request == RequestFor(cred, route) IN
    /\ claimed.amount = request.amount
    /\ claimed.currency = request.currency
    /\ claimed.recipient = request.recipient

VerifyPinnedFields(c) ==
  /\ c.method = "solana"
  /\ c.intent = "charge"
  /\ c.realm = Realm
  /\ c.request.currency = Currency
  /\ c.request.recipient = Recipient

\* challenge.verify recomputes the id with the echoed realm.
VerifyChallengeAndDecode(c) ==
  /\ c.id = Hmac(c.realm, c)
  /\ c.expires # None => c.expires > now
  /\ VerifyPinnedFields(c)

\* Neither form of payload may be combined with fee sponsorship.
VerifyPayload(cred, route) ==
  /\ VerifyChallengeAndDecode(cred.challenge)
  /\ MatchesExpected(cred, route)
  /\ ~RequestFor(cred, route).fee_payer

-----------------------------------------------------------------------------
(* The reservation. *)

\* payload.transaction[:64] or payload.signature, under one prefix.  The text is
\* not normalised, and the lenient decoder takes several for one transaction.
ConsumedKey(cred) ==
  [form |-> IF cred.type = "signature" THEN "signature" ELSE cred.text,
   payment |-> cred.payment]

Held == {ConsumedKey(task[w].cred) : w \in {v \in Workers : Busy(v)}}

\* put_if_absent succeeds and the request goes on, or it raises before the try.
Reserve(w, pc, cred, route) ==
  \/ /\ ConsumedKey(cred) \notin consumed
     /\ consumed' = consumed \cup {ConsumedKey(cred)}
     /\ Enter(w, pc, cred, RequestFor(cred, route), route)
     /\ UNCHANGED stranded
  \/ StoreFails(ConsumedKey(cred)) /\ UNCHANGED task

\* Mutant: the except block only re-raises.
RaiseWithoutDelete(w) ==
  /\ Respond(w)
  /\ UNCHANGED <<consumed, stranded>>

\* except Exception: delete the key and re-raise, unless the delete itself fails.
Raise(w) ==
  LET key == ConsumedKey(task[w].cred) IN
    /\ \/ consumed' = consumed \ {key} /\ UNCHANGED stranded
       \/ stranded' = stranded \cup {key} /\ UNCHANGED consumed
    /\ Respond(w)

\* asyncio.CancelledError is no Exception: the key stays.
Cancel(w) ==
  /\ Busy(w)
  /\ Respond(w)
  /\ stranded' = stranded \cup {ConsumedKey(task[w].cred)}
  /\ UNCHANGED <<ledger, now, consumed, honoured, grants>>

-----------------------------------------------------------------------------
(* Pull, push, and the end of both. *)

CheckNetworkBlockhash(p) == Tx[p].surfpool => Localnet

VerifyTransaction(w, cred, route) ==
  /\ ~Busy(w)
  /\ cred.type = "transaction"
  /\ VerifyPayload(cred, route)
  /\ CheckNetworkBlockhash(cred.payment)
  /\ PaysFor(cred.payment, RequestFor(cred, route))
  /\ Reserve(w, "send", cred, route)
  /\ UNCHANGED <<ledger, now, honoured, grants>>

\* send_raw_transaction runs the preflight simulation of the node; a transaction
\* whose fee payer is the server was never signed by it and is refused.
SendRawTransaction(w) ==
  LET p == task[w].cred.payment IN
    /\ task[w].pc = "send"
    /\ \/ /\ MaySimulate(p) /\ ~Tx[p].fee_payer
          /\ ledger' = AfterSend(p)
          /\ Advance(w, "confirm")
          /\ UNCHANGED <<consumed, stranded>>
       \/ ledger' \in {ledger, AfterSend(p)} /\ Raise(w)
    /\ UNCHANGED <<now, honoured, grants>>

ConfirmTransaction(w) ==
  /\ task[w].pc = "confirm"
  /\ \/ /\ ledger[task[w].cred.payment] = "landed"
        /\ Advance(w, "fetch")
        /\ UNCHANGED <<consumed, stranded>>
     \/ Raise(w)
  /\ UNCHANGED <<ledger, now, honoured, grants>>

VerifySignature(w, cred, route) ==
  /\ ~Busy(w)
  /\ cred.type = "signature"
  /\ VerifyPayload(cred, route)
  /\ Reserve(w, "fetch", cred, route)
  /\ UNCHANGED <<ledger, now, honoured, grants>>

VerifyConfirmedTransaction(w) ==
  LET t == task[w] IN
    /\ t.pc = "fetch"
    /\ \/ /\ ledger[t.cred.payment] = "landed"
          /\ PaysFor(t.cred.payment, t.request)
          /\ Receipt(w)
          /\ Respond(w)
          /\ UNCHANGED <<consumed, stranded>>
       \/ /\ Raise(w)
          /\ UNCHANGED <<honoured, grants>>
    /\ UNCHANGED <<ledger, now>>

ServerRestart == Restart(Held)

Settle(w) ==
  \/ SendRawTransaction(w)
  \/ ConfirmTransaction(w)
  \/ VerifyConfirmedTransaction(w)

Next ==
  \/ World
  \/ \E w \in Workers, cred \in Credentials, route \in Routes :
       VerifyTransaction(w, cred, route) \/ VerifySignature(w, cred, route)
  \/ \E w \in Workers : Settle(w) \/ Cancel(w)
  \/ ServerRestart

Spec == Init /\ [][Next]_vars

\* A key in the store paid for a receipt, belongs to one request in flight, or
\* was left behind by a cancelled request, a failed insertion or delete or a dead
\* process: no other exception on the way costs the client a landed payment.
ConsumedIsHonoured ==
  /\ \A key \in consumed :
       honoured[key.payment] > 0 \/ key \in Held \/ key \in stranded
  /\ \A v, w \in Workers :
       Busy(v) /\ Busy(w) /\ v # w
         => ConsumedKey(task[v].cred) # ConsumedKey(task[w].cred)

=============================================================================
