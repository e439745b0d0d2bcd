------------------------------ MODULE LuaCharge ------------------------------
(***************************************************************************)
(* The Lua charge server (lua/mpp/server/init.lua) with the verifier it    *)
(* builds from the host's RPC hooks (lua/mpp/server/solana_verify.lua):    *)
(* verify the payment, then put_if_absent its signature.                   *)
(***************************************************************************)
EXTENDS ChargeWorld

\* The challenge a route issues; without options.expires it never expires.
ChargeWithOptions(amount, expires) ==
  LET c == [realm |-> Realm, method |-> "solana", intent |-> "charge",
            request |-> [amount |-> amount, currency |-> Currency,
                         recipient |-> Recipient, fee_payer |-> FeePayer],
            expires |-> expires] IN
    [id |-> Hmac(Realm, c), realm |-> Realm, method |-> c.method,
     intent |-> c.intent, request |-> c.request, expires |-> c.expires]

\* verify_credential takes the request from the credential,
\* verify_credential_with_expected from the route.
RequestFor(cred, route) ==
  IF Expected[route] = None THEN cred.challenge.request ELSE Expected[route]

MatchesExpected(cred, route) ==
  LET claimed == cred.challenge.request  request == RequestFor(cred, route) IN
    /\ claimed.amount = request.amount
    /\ claimed.currency = request.currency
    /\ claimed.recipient = request.recipient

VerifyPinnedFields(c) ==
  /\ c.method = "solana"
  /\ c.intent = "charge"
  /\ c.realm = Realm
  /\ c.request.currency = Currency
  /\ c.request.recipient = Recipient

\* The id is recomputed with the echoed realm; a signature cannot be combined
\* with the fee sponsorship the credential's own challenge names.
VerifyChallengeAndDecode(cred) ==
  LET c == cred.challenge IN
    /\ c.id = Hmac(c.realm, c)
    /\ c.expires # None => c.expires > now
    /\ VerifyPinnedFields(c)
    /\ ~(cred.type = "signature" /\ c.request.fee_payer)

\* verify_credential and verify_credential_with_expected, up to the call of
\* verify_payment, which sends a transaction first.
VerifyCredential(w, cred, route) ==
  /\ ~Busy(w)
  /\ VerifyChallengeAndDecode(cred)
  /\ MatchesExpected(cred, route)
  /\ Enter(w, IF cred.type = "transaction" THEN "send" ELSE "fetch",
           cred, RequestFor(cred, route), route)
  /\ UNCHANGED <<ledger, now, consumed, honoured, grants, stranded>>

\* hooks.send_transaction: what needs the server's signature the hook adds, if
\* the host has a signer.
SendTransaction(w) ==
  LET p == task[w].cred.payment IN
    /\ task[w].pc = "send"
    /\ \/ /\ Tx[p].fee_payer => FeePayerSigner
          /\ ledger' = AfterSend(p)
          /\ Advance(w, "fetch")
       \/ ledger' \in {ledger, AfterSend(p)} /\ Respond(w)
    /\ UNCHANGED <<now, consumed, honoured, grants, stranded>>

\* Mutant: a receipt is issued for a payment that does not match the request.
VerifyConfirmedTransactionLax(w) ==
  LET t == task[w] IN
    /\ t.pc = "fetch"
    /\ \/ ledger[t.cred.payment] = "landed" /\ Advance(w, "consume")
       \/ Respond(w)
    /\ UNCHANGED <<ledger, now, consumed, honoured, grants, stranded>>

\* hooks.await_transaction or hooks.fetch_transaction returned, or gave up.
VerifyConfirmedTransaction(w) ==
  LET t == task[w] IN
    /\ t.pc = "fetch"
    /\ \/ /\ ledger[t.cred.payment] = "landed"
          /\ PaysFor(t.cred.payment, t.request)
          /\ Advance(w, "consume")
       \/ Respond(w)
    /\ UNCHANGED <<ledger, now, consumed, honoured, grants, stranded>>

\* put_if_absent inserts, refuses or raises.
FinalizeVerification(w) ==
  LET key == SignatureKey(task[w].cred.payment) IN
    /\ task[w].pc = "consume"
    /\ \/ /\ key \notin consumed
          /\ consumed' = consumed \cup {key}
          /\ Receipt(w)
          /\ UNCHANGED stranded
       \/ /\ key \in consumed
          /\ UNCHANGED <<consumed, honoured, grants, stranded>>
       \/ StoreFails(key) /\ UNCHANGED <<honoured, grants>>
    /\ Respond(w)
    /\ UNCHANGED <<ledger, now>>

ServerRestart == Restart({})

Settle(w) ==
  \/ SendTransaction(w)
  \/ VerifyConfirmedTransaction(w)
  \/ FinalizeVerification(w)

Next ==
  \/ World
  \/ \E w \in Workers, cred \in Credentials, route \in Routes :
       VerifyCredential(w, cred, route)
  \/ \E w \in Workers : Settle(w)
  \/ ServerRestart

Spec == Init /\ [][Next]_vars

=============================================================================
