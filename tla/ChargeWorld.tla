----------------------------- MODULE ChargeWorld -----------------------------
(***************************************************************************)
(* What the five charge servers (Rust, Go, Python, TypeScript, Lua) have   *)
(* in common: the ledger behind the RPC node, the replay-protection store, *)
(* the credentials clients present and the requests being verified.        *)
(*                                                                         *)
(* A payment is a signed transaction and is known by its first signature.  *)
(* It is presented as the transaction itself (pull: the server broadcasts  *)
(* it) or as its signature (push: the client broadcast it).                *)
(***************************************************************************)
EXTENDS Integers

CONSTANTS
  Workers,         \* requests the host verifies concurrently
  Payments,        \* signed transactions
  Tx,              \* what each transaction says
  Texts,           \* the heads of the texts that may encode a transaction
  Credentials,     \* what clients may present
  Routes,          \* endpoints that require a payment
  Expected,        \* the request a route expects; None: the simple API
  Realm, Currency, Recipient,  \* server configuration
  FeePayer,        \* does the server advertise fee sponsorship
  FeePayerSigner,  \* is a fee payer signer configured
  Localnet,        \* is the configured network localnet
  RpcMayLag,       \* may an RPC node not yet know what already landed
  MaxTime,         \* bound: last value of the clock
  None             \* absence of a value

Request ==
  [amount : Nat, currency : STRING, recipient : STRING, fee_payer : BOOLEAN]

Transaction ==
  [amount : Nat, currency : STRING, recipient : STRING,
   fee_payer : BOOLEAN,  \* is the server's key the transaction's fee payer
   surfpool : BOOLEAN]   \* does its blockhash carry the Surfpool prefix

\* An HMAC stands for the fields it was computed over.
ChallengeId ==
  [key : STRING, realm : STRING, method : STRING, intent : STRING,
   request : Request, expires : Nat \cup {None}]

Challenge ==
  [id : ChallengeId, realm : STRING, method : STRING, intent : STRING,
   request : Request, expires : Nat \cup {None}]

Credential ==
  [challenge : Challenge, type : {"transaction", "signature"}, payment : Payments,
   text : Texts]  \* how a transaction is spelt; of no account for a signature

ASSUME WorldAssumption ==
  /\ Tx \in [Payments -> Transaction]
  /\ "signature" \notin Texts
  /\ Credentials \subseteq Credential
  /\ Expected \in [Routes -> Request \cup {None}]
  /\ None \notin Request
  /\ None \notin Nat
  /\ MaxTime \in Nat
  /\ {FeePayer, FeePayerSigner, Localnet, RpcMayLag} \subseteq BOOLEAN

VARIABLES
  ledger,    \* what became of each transaction
  now,       \* the clock
  consumed,  \* keys in the replay-protection store
  task,      \* the request each worker is verifying
  honoured,  \* how many receipts each payment has bought
  grants,    \* what was bought: payment, request verified against, route
  stranded   \* keys of a request that died with its process or was cancelled,
             \* of a delete that failed, or of an insertion that reported an error

vars == <<ledger, now, consumed, task, honoured, grants, stranded>>

Idle == [pc |-> "idle"]

Stages == {"simulate", "send", "confirm", "fetch", "consume"}

Active ==
  [pc : Stages, cred : Credentials, request : Request, route : Routes, tries : Nat]

Task == {Idle} \cup Active

\* Keys are built from the signature or from the head of the transaction's text,
\* which begins with the encoded signature: texts of two payments differ.
Key == [form : {"signature"} \cup Texts, payment : Payments]
SignatureKey(p) == [form |-> "signature", payment |-> p]

Grant == [payment : Payments, request : Request, route : Routes]

LedgerStatus == {"unsent", "pending", "landed", "failed", "dropped"}

TypeOK ==
  /\ ledger \in [Payments -> LedgerStatus]
  /\ now \in 0..MaxTime
  /\ consumed \subseteq Key
  /\ task \in [Workers -> Task]
  /\ honoured \in [Payments -> Nat]
  /\ grants \subseteq Grant
  /\ stranded \subseteq Key

Init ==
  /\ ledger = [p \in Payments |-> "unsent"]
  /\ now = 0
  /\ consumed = {}
  /\ task = [w \in Workers |-> Idle]
  /\ honoured = [p \in Payments |-> 0]
  /\ grants = {}
  /\ stranded = {}

-----------------------------------------------------------------------------
(* The ledger and the RPC node, as the servers use them. *)

Landed == {p \in Payments : ledger[p] = "landed"}

\* A transaction moves what a request asks for.
PaysFor(p, request) ==
  /\ Tx[p].amount = request.amount
  /\ Tx[p].currency = request.currency
  /\ Tx[p].recipient = request.recipient

\* simulateTransaction fails for what is already processed or too old.
MaySimulate(p) == RpcMayLag \/ ledger[p] \in {"unsent", "pending"}

\* sendTransaction accepted: the cluster has the transaction.
AfterSend(p) ==
  IF ledger[p] = "unsent" THEN [ledger EXCEPT ![p] = "pending"] ELSE ledger

\* A client broadcasts its own transaction; one the server must co-sign it cannot.
ClientSends(p) ==
  /\ ledger[p] = "unsent"
  /\ ~Tx[p].fee_payer
  /\ ledger' = [ledger EXCEPT ![p] = "pending"]

Execute(p) ==
  /\ ledger[p] = "pending"
  /\ \E status \in {"landed", "failed"} : ledger' = [ledger EXCEPT ![p] = status]

\* The transaction's blockhash gets too old for it to land.
Drop(p) ==
  /\ ledger[p] \in {"unsent", "pending"}
  /\ ledger' = [ledger EXCEPT ![p] = "dropped"]

Tick ==
  /\ now < MaxTime
  /\ now' = now + 1
  /\ UNCHANGED <<ledger, consumed, task, honoured, grants, stranded>>

World ==
  \/ /\ \E p \in Payments : ClientSends(p) \/ Execute(p) \/ Drop(p)
     /\ UNCHANGED <<now, consumed, task, honoured, grants, stranded>>
  \/ Tick

-----------------------------------------------------------------------------
(* Requests. *)

\* HMAC with the server's secret key over these fields.
Hmac(realm, c) ==
  [key |-> "secret", realm |-> realm, method |-> c.method, intent |-> c.intent,
   request |-> c.request, expires |-> c.expires]

Busy(w) == task[w].pc # "idle"

\* A request enters its next stage.
Enter(w, pc, cred, request, route) ==
  task' = [task EXCEPT ![w] = [pc |-> pc, cred |-> cred, request |-> request,
                               route |-> route, tries |-> 1]]

Advance(w, pc) == Enter(w, pc, task[w].cred, task[w].request, task[w].route)

\* The loop of this stage goes round once more, up to max times in all.
Retry(w, max) ==
  /\ task[w].tries < max
  /\ task' = [task EXCEPT ![w].tries = @ + 1]

Respond(w) == task' = [task EXCEPT ![w] = Idle]

\* The receipt for this worker's request.
Receipt(w) ==
  LET p == task[w].cred.payment IN
    /\ honoured' = [honoured EXCEPT ![p] = @ + 1]
    /\ grants' = grants \cup
         {[payment |-> p, request |-> task[w].request, route |-> task[w].route]}

\* The store's insertion of a key reports an error; the key may be in it all the
\* same, for nobody.
StoreFails(key) ==
  /\ consumed' \in {consumed, consumed \cup {key}}
  /\ stranded' = stranded \cup (consumed' \ consumed)

\* The server process dies and comes back: requests are lost, a durable store is
\* not, and the keys that lost requests held stay in it.
Restart(held) ==
  /\ task' = [w \in Workers |-> Idle]
  /\ stranded' = stranded \cup held
  /\ UNCHANGED <<ledger, now, consumed, honoured, grants>>

-----------------------------------------------------------------------------
(* Properties. *)

\* The promise of Redemption: a payment is honoured at most once and only after
\* it landed, whatever requests present it, in which form and in which order.
Promise == INSTANCE Redemption WITH landed <- Landed

\* The server implements the abstract specification of redemption: replay
\* protection works for concurrent, repeated and late credentials.
ImplementsRedemption == Promise!Spec

\* A transaction signature is consumed by the request it pays for: no payment
\* buys two receipts.
HonouredOnce == \A p \in Payments : honoured[p] <= 1

\* Every receipt is covered by the ledger: the payment landed, moves exactly what
\* was verified to this server's recipient in this server's currency, and where
\* the route states what it expects, the payment is for that price, not for the
\* price the credential was issued for.
GrantsArePaid ==
  \A g \in grants :
    /\ ledger[g.payment] = "landed"
    /\ PaysFor(g.payment, g.request)
    /\ g.request.recipient = Recipient
    /\ g.request.currency = Currency
    /\ Expected[g.route] # None => Tx[g.payment].amount = Expected[g.route].amount

\* Every request gets its answer: no retry or polling loop runs for ever.
RequestsAnswered == \A w \in Workers : Busy(w) ~> ~Busy(w)

=============================================================================
