------------------------------ MODULE HttpGate ------------------------------
(***************************************************************************)
(* Paying for an HTTP resource, end to end: the axum extractor             *)
(* (rust/src/server/axum.rs), the server of the interop tests              *)
(* (bin/interop_server.rs) and the payment-link server                     *)
(* (examples/payment_link_server.rs) on one side, the loop of the interop  *)
(* client (bin/interop_client.rs) on the other, and between them header    *)
(* fields that an intermediary may fold together.  Verification is one     *)
(* step here; RustCharge models what happens inside it.                    *)
(***************************************************************************)
EXTENDS PaymentHeaders, ChargeAmounts

CONSTANTS
  Routes,          \* resources with a price
  Gates,           \* server configurations
  Paths,           \* what may happen to header fields on each kind of path
  Decimals,        \* of the token
  Validity,        \* lifetime of a challenge (5 minutes in the code)
  MaxTime,         \* bound: last value of the clock
  MaxFaults        \* bound: lost replies, failed broadcasts and stray requests

ASSUME GateAssumption ==
  /\ Unparsable \notin Nat /\ Decimals \in Nat
  /\ U64 \in Nat \ {0} /\ U128 \in Nat /\ U64 <= U128
  /\ \A g \in Gates :
       /\ g.front \in {"axum", "interop", "link"}
       /\ g.path \in DOMAIN Paths
       /\ \A route \in Routes : g.amounts[route] \in Seq(Range(g.amounts[route]))

VARIABLES
  gate,      \* the configuration of the server and of the path to the client
  goal,      \* the resource the client wants
  now,       \* the clock
  wire,      \* the response on its way to the client
  wallet,    \* credentials the client holds: the current one and the one before
  landed,    \* payments on the ledger
  consumed,  \* payments in the replay-protection store
  doubtful,  \* payments that landed for a request the RPC node or the store failed
  served,    \* what was handed out: the route and the payment
  received,  \* resources the client got
  faults     \* how many of the bounded faults have happened

vars == <<gate, goal, now, wire, wallet, landed, consumed, doubtful, served,
          received, faults>>

Payments == 1..(MaxFaults + 3)

Init ==
  /\ gate \in Gates
  /\ goal \in Routes
  /\ now = 0
  /\ wire = None
  /\ wallet = <<>>
  /\ landed = {}
  /\ consumed = {}
  /\ doubtful = {}
  /\ served = <<>>
  /\ received = {}
  /\ faults = 0

-----------------------------------------------------------------------------
(* The server: challenges. *)

\* expires::minutes(5), in ticks of the clock.
Minutes(n) == Text(now + n)

ChargeRequest(amount) ==
  [amount |-> amount, currency |-> gate.currency, recipient |-> gate.recipient,
   description |-> gate.description]

\* charge_with_options: the price becomes base units, the challenge expires.
ChargeWithOptions(route) ==
  LET units == ParseUnits(gate.amounts[route], Decimals) IN
    IF units = Unparsable THEN None
    ELSE WithSecretKey(gate.key, gate.realm, Text("solana"), Text("charge"),
                       EncodeRequest(ChargeRequest(units)), Minutes(Validity),
                       gate.description)

\* HeaderValue::from_str.
IsHeaderValue(text) == NotAscii \notin Range(text)

Response(status, headers, body, receipt) ==
  [status |-> status, headers |-> headers, body |-> body, receipt |-> receipt]

\* No response: the handler returned an error or panicked.
Closed == Response(0, <<>>, None, None)
InternalError == Response(500, <<>>, None, None)

\* 402 with the challenge in its header and in its body.
Ask(headers, c) == Response(402, headers, c, None)

\* The extractor answers 500 when there is no challenge or it cannot be written,
\* and leaves the header out when HTTP cannot carry it.
AxumRequired(c) ==
  IF c = None THEN InternalError
  ELSE LET www_auth == FormatWwwAuthenticate(c) IN
         IF www_auth = None THEN InternalError
         ELSE Ask(IF IsHeaderValue(www_auth) THEN <<www_auth>> ELSE <<>>, c)

\* The interop server hangs up.  What it writes of a challenge that HTTP cannot
\* carry no client can read: it counts as left out.
InteropRequired(c) ==
  IF c = None THEN Closed
  ELSE LET header == FormatWwwAuthenticate(c) IN
         IF header = None THEN Closed
         ELSE Ask(IF IsHeaderValue(header) THEN <<header>> ELSE <<>>, c)

\* The payment-link server panics without a challenge, sends an empty header for
\* one that cannot be written and 500 for one HTTP cannot carry.  Its page for
\* browsers has the same status and header.
LinkRequired(c) ==
  IF c = None THEN Closed
  ELSE LET www_auth == FormatWwwAuthenticate(c) IN
         CASE www_auth = None -> Ask(<< <<>> >>, c)
           [] www_auth # None /\ IsHeaderValue(www_auth) -> Ask(<<www_auth>>, c)
           [] OTHER -> InternalError

PaymentRequired(c) ==
  CASE gate.front = "axum" -> AxumRequired(c)
    [] gate.front = "interop" -> InteropRequired(c)
    [] gate.front = "link" -> LinkRequired(c)

\* Receipt::success.
SuccessReceipt(cred) ==
  [status |-> "success", method |-> cred.challenge.method,
   reference |-> cred.payment.id, challenge_id |-> cred.challenge.id]

\* 200 with the receipt; the payment-link server sends the bare reference.
LinkReceipt(cred) == Text(SuccessReceipt(cred).reference)

WithReceipt(cred) ==
  Response(200, <<>>, None,
           IF gate.front = "link" THEN LinkReceipt(cred)
           ELSE FormatReceipt(SuccessReceipt(cred)))

-----------------------------------------------------------------------------
(* The server: credentials. *)

\* The credential a request carries, or None.  Two of the servers look for
\* exactly "Payment " at the start of the field before they parse it.
StartsWithPayment(auth) == auth # <<>> /\ Head(auth).scheme = "Payment"

AxumCredential(auth) ==
  IF StartsWithPayment(auth) THEN ParseAuthorization(auth) ELSE None

LinkCredential(auth) ==
  IF StartsWithPayment(auth) THEN ParseAuthorization(auth) ELSE None

InteropCredential(auth) == ParseAuthorization(auth)

CredentialOf(auth) ==
  CASE gate.front = "axum" -> AxumCredential(auth)
    [] gate.front = "interop" -> InteropCredential(auth)
    [] gate.front = "link" -> LinkCredential(auth)

\* verify_credential_with_expected compares with the request of the route's own
\* challenge.
MatchesExpected(claimed, expected) ==
  /\ claimed.amount = expected.amount
  /\ claimed.currency = expected.currency
  /\ claimed.recipient = expected.recipient

\* verify, up to the settlement: the id, the expiry, the pinned fields.
IssuedHere(c) ==
  /\ c.id = ComputeChallengeId(gate.key, gate.realm, c)
  /\ ~IsExpired(c, now)
  /\ c.method = Text("solana") /\ c.intent = Text("charge") /\ c.realm = gate.realm
  /\ DecodeRequest(c.request).currency = gate.currency
  /\ DecodeRequest(c.request).recipient = gate.recipient

\* The transaction moves the amount the route asks for.
Pays(payment, expected) == payment.amount = ParseAmount(expected.amount)

MayBroadcast(cred, route) ==
  LET expected == DecodeRequest(ChargeWithOptions(route).request) IN
    /\ MatchesExpected(DecodeRequest(cred.challenge.request), expected)
    /\ IssuedHere(cred.challenge)
    /\ Pays(cred.payment, expected)

Refuse(challenge) ==
  /\ wire' = PaymentRequired(challenge)
  /\ UNCHANGED <<landed, consumed, served>>

\* The replay-protection store takes a key once.
PutIfAbsent(p) == p \notin consumed /\ consumed' = consumed \cup {p}

\* The transaction lands and its signature is consumed, once.  One that landed
\* unnoticed may still be accepted, if the node simulates it again.
Settle(cred, route, challenge) ==
  LET p == cred.payment.id IN
    \/ /\ PutIfAbsent(p)
       /\ landed' = landed \cup {p}
       /\ served' = Append(served, [route |-> route, payment |-> p,
                                    amount |-> cred.payment.amount])
       /\ wire' = WithReceipt(cred)
    \/ p \in landed /\ Refuse(challenge)

\* Mutant: the transaction is sent before the route and the expiry are checked.
HandleSendsFirst(route, auth) ==
  LET challenge == ChargeWithOptions(route)
      cred == CredentialOf(auth) IN
    /\ wire = None
    /\ IF cred = None \/ challenge = None THEN Refuse(challenge)
       ELSE IF MayBroadcast(cred, route) THEN Settle(cred, route, challenge)
       ELSE /\ landed' = landed \cup {cred.payment.id}
            /\ wire' = PaymentRequired(challenge)
            /\ UNCHANGED <<consumed, served>>
    /\ UNCHANGED <<gate, goal, now, wallet, doubtful, received>>

\* One request to the server.  The extractor makes the route's challenge before
\* it looks at the credential, the others when they need it; none goes on
\* without it.
Handle(route, auth) ==
  LET challenge == ChargeWithOptions(route)
      cred == CredentialOf(auth) IN
    /\ wire = None
    /\ IF cred = None \/ challenge = None THEN Refuse(challenge)
       ELSE IF MayBroadcast(cred, route) THEN Settle(cred, route, challenge)
       ELSE Refuse(challenge)
    /\ UNCHANGED <<gate, goal, now, wallet, doubtful, received>>

-----------------------------------------------------------------------------
(* The client. *)

\* The header fields as they arrive: the server's with something before and
\* after it in the same field, then fields of their own.
Arrives(via, headers) ==
  IF headers = <<>> THEN via.fields
  ELSE << via.before \o Head(headers) \o via.after >> \o via.fields

\* The first challenge the client supports among those it can read, for each way
\* the fields may have arrived; None if there is none.
FirstSupported(parsed) ==
  LET supported == {k \in DOMAIN parsed :
        IF parsed[k] = None THEN FALSE
        ELSE parsed[k].method = Text("solana") /\ parsed[k].intent = Text("charge")} IN
    IF supported = {} THEN None ELSE parsed[Min(supported)]

Offers ==
  {FirstSupported(parsed) :
     parsed \in {ParseWwwAuthenticateAll(Arrives(via, wire.headers)) :
                   via \in Paths[gate.path]}}

\* build_credential_header: a fresh transaction over the amount asked for.
BuildCredential(c) ==
  LET held == {wallet[i].payment.id : i \in DOMAIN wallet}
      id == Min(Payments \ (landed \cup held)) IN
    [challenge |-> ToEcho(c),
     payment |-> [id |-> id, amount |-> ParseAmount(DecodeRequest(c.request).amount)]]

Payable(offer) ==
  IF offer = None THEN FALSE
  ELSE ParseAmount(DecodeRequest(offer.request).amount) # Unparsable

Wanting == goal \notin received

Request ==
  /\ Wanting
  /\ wallet = <<>>
  /\ Handle(goal, <<>>)
  /\ UNCHANGED faults

\* A 402 is answered if the challenge the client picks can be paid.
Answer ==
  /\ Wanting
  /\ wire # None /\ wire.status = 402
  /\ \E offer \in Offers :
       /\ Payable(offer)
       /\ LET cred == BuildCredential(offer) IN
            wallet' = IF wallet = <<>> THEN <<cred>> ELSE <<cred, Head(wallet)>>
  /\ wire' = None
  /\ UNCHANGED <<gate, goal, now, landed, consumed, doubtful, served, received, faults>>

Present ==
  /\ Wanting
  /\ wallet # <<>>
  /\ Handle(goal, FormatAuthorization(Head(wallet)))
  /\ UNCHANGED faults

ReceiveResource ==
  /\ wire # None /\ wire.status = 200
  /\ received' = received \cup {Last(served).route}
  /\ wire' = None
  /\ UNCHANGED <<gate, goal, now, wallet, landed, consumed, doubtful, served, faults>>

\* A response the client cannot use.
Discard ==
  /\ wire # None /\ wire.status # 200
  /\ (Wanting /\ wire.status = 402) => \E offer \in Offers : ~Payable(offer)
  /\ wire' = None
  /\ UNCHANGED <<gate, goal, now, wallet, landed, consumed, doubtful, served,
                 received, faults>>

-----------------------------------------------------------------------------
(* What goes wrong, within the bound. *)

Fault == faults < MaxFaults /\ faults' = faults + 1

\* Clients also send an old credential, one for another route, a credential
\* behind another scheme or spelt differently, or one that does not decode.
StrayForms(cred) ==
  {FormatAuthorization(cred),
   <<[scheme |-> "payment", token |-> cred]>>,
   <<[scheme |-> "Bearer", token |-> None], [scheme |-> "Payment", token |-> cred]>>,
   <<[scheme |-> "Payment", token |-> None], [scheme |-> "Payment", token |-> cred]>>}

Stray ==
  /\ Fault
  /\ \E route \in Routes, k \in DOMAIN wallet :
       \E auth \in StrayForms(wallet[k]) : Handle(route, auth)

\* The node refuses the transaction, or takes it and does not confirm it in time;
\* or the store reports an error, with or without the signature in it.
BroadcastFails ==
  /\ Fault
  /\ Wanting
  /\ wire = None /\ wallet # <<>>
  /\ LET cred == Head(wallet) IN
       /\ ChargeWithOptions(goal) # None
       /\ cred.payment.id \notin consumed
       /\ MayBroadcast(cred, goal)
       /\ \/ UNCHANGED <<landed, doubtful, consumed>>
          \/ /\ landed' = landed \cup {cred.payment.id}
             /\ doubtful' = doubtful \cup {cred.payment.id}
             /\ consumed' \in {consumed, consumed \cup {cred.payment.id}}
  /\ wire' = PaymentRequired(ChargeWithOptions(goal))
  /\ UNCHANGED <<gate, goal, now, wallet, served, received>>

\* The response does not reach the client.
LoseReply ==
  /\ Fault
  /\ wire # None
  /\ wire' = None
  /\ UNCHANGED <<gate, goal, now, wallet, landed, consumed, doubtful, served, received>>

Tick ==
  /\ now < MaxTime
  /\ now' = now + 1
  /\ UNCHANGED <<gate, goal, wire, wallet, landed, consumed, doubtful, served,
                 received, faults>>

ClientStep == Request \/ Answer \/ Present \/ ReceiveResource \/ Discard

Next ==
  \/ ClientStep
  \/ Stray
  \/ BroadcastFails
  \/ LoseReply
  \/ Tick

Spec == Init /\ [][Next]_vars

\* A client that keeps at it; requests to the server end (RustCharge).  This is
\* weak fairness of ClientStep, written out because TLC cannot evaluate ENABLED of
\* a step that parses headers.  ClientStep is enabled when there is a response to
\* take in, or none to wait for and something still wanted; and its steps are those
\* that put a response on the wire or take it off without a fault.
ClientReady == wire # None \/ Wanting
ClientMoves == wire' # wire /\ faults' = faults

LiveSpec == Spec /\ ([]<>~ClientReady \/ []<><<ClientMoves>>_vars)

-----------------------------------------------------------------------------
(* Properties. *)

\* What arrives of a challenge: all but the description, which is not sent.  What
\* another scheme's challenge behind it in the same field brings (adds) is taken
\* for its own: a parameter it has already loses it, another one is mixed in.
ReadOn(via, challenge) ==
  LET sent == [challenge EXCEPT !.description = None]
      written == {key \in DOMAIN sent : sent[key] # None} IN
    IF written \cap DOMAIN via.adds # {} THEN None ELSE via.adds @@ sent

\* What a client reads from the header fields of a 402 are the challenges that
\* were written into them, each whole and in order, with the text in quotes (a
\* realm with commas, quotes, backslashes or the word Payment in it) left alone
\* and the challenges of other servers neither mixed in nor in the way, except that
\* parameters of another scheme behind a challenge spoil it as ReadOn says.
HeadersCarryChallenges ==
  IF wire = None THEN TRUE
  ELSE wire.status = 402 /\ wire.headers \notin {<<>>, << <<>> >>} =>
         \A via \in Paths[gate.path] :
           ParseWwwAuthenticateAll(Arrives(via, wire.headers))
             = via.first \o <<ReadOn(via, wire.body)>> \o via.last

\* Every response that was handed out has a payment of its own on the ledger, and
\* that payment is worth what the route's price, read as a decimal numeral, is
\* worth: credentials for a cheaper route and repeated ones buy nothing, and neither
\* does a price that is no numeral, except for a plus sign behind leading zeros,
\* which the code overlooks.  (Prices beyond 128 bits wrap, and are left out.)
ServedAtPrice ==
  \A i \in DOMAIN served :
    /\ served[i].payment \in landed
    /\ \A j \in DOMAIN served : served[i].payment = served[j].payment => i = j
    /\ LET amount == gate.amounts[served[i].route]
           price == UnitsOf(amount, Decimals) IN
         IF price = Unparsable THEN "+" \in Range(amount)
         ELSE price < U128 => served[i].amount = price

\* A client whose credential is refused has not paid, unless the server lost sight
\* of the transaction it had broadcast or its store failed: nothing is sent before
\* the credential is known to be good for this route now.
RefusedIsNotCharged ==
  landed \subseteq {served[i].payment : i \in DOMAIN served} \cup doubtful

\* A server whose price and realm can be written down, and whose challenges no
\* other scheme's parameters spoil on their way, serves every client that keeps
\* answering its challenges, whatever was lost, expired or went astray.
CanBePaid ==
  /\ \A via \in Paths[gate.path] : DOMAIN via.adds = {}
  /\ Range(gate.realm) \cap (LineBreaks \cup {NotAscii}) = {}
  /\ LET price == UnitsOf(gate.amounts[goal], Decimals) IN
       price # Unparsable /\ price < U64

ClientServed == CanBePaid ~> goal \in received

=============================================================================
