------------------------- MODULE ChargeServersProofs -------------------------
(***************************************************************************)
(* Proofs about ChargeServers, for any number of workers, payments,        *)
(* credentials and routes: whichever of the Go, Lua, Python and TypeScript *)
(* servers is deployed, a payment is honoured once and every receipt is    *)
(* paid for.  Each server's steps are shown to be one of six effects on    *)
(* the common state, and the effects keep one invariant.                   *)
(***************************************************************************)
EXTENDS ChargeServers, ChargeWorldProofs

\* The servers that put a key into the store before they settle.
Reserving == server \in {"go", "python"}

\* What the deployed server is shown.
Presented == IF server = "python" THEN OneForm ELSE Credentials

\* The key a credential stands for in the deployed server's store.
KeyOf(cred) ==
  IF server = "python" /\ cred.type = "transaction"
  THEN [form |-> cred.text, payment |-> cred.payment]
  ELSE SignatureKey(cred.payment)

\* The keys of the requests in flight.
KeysHeld == {KeyOf(task[w].cred) : w \in {v \in Workers : Busy(v)}}

\* A request the server may verify a payment against on this route.
Priced(request, route) ==
  /\ request.recipient = Recipient
  /\ request.currency = Currency
  /\ Expected[route] # None => request.amount = Expected[route].amount

\* Nothing else can spend this request's payment: its key is reserved, or it is
\* past the check that it was not spent, with no other request beside it.
Guarded(w) ==
  \/ Reserving
  \/ server = "typescript" /\ task[w].pc # "simulate"

\* What a request in flight may rely on.
RequestOK(w) ==
  Busy(w) =>
    LET t == task[w] IN
      /\ t.cred \in Presented
      /\ Priced(t.request, t.route)
      /\ t.pc = "consume" => t.cred.payment \in Landed /\ PaysFor(t.cred.payment, t.request)
      /\ Guarded(w) => honoured[t.cred.payment] = 0
      /\ Reserving => KeyOf(t.cred) \in consumed

\* What bought a receipt landed and is never released.
SpentIsKept ==
  /\ \A p \in Payments : honoured[p] > 0 => p \in Landed
  /\ \A cred \in Presented : honoured[cred.payment] > 0 => KeyOf(cred) \in consumed

\* No two requests can spend the same payment.
Exclusive ==
  /\ Reserving => \A v, w \in Workers :
       Busy(v) /\ Busy(w) /\ v # w => task[v].cred.payment # task[w].cred.payment
  /\ server = "typescript" => OneAtATime

\* A reserved key bought a receipt, is held by a request in flight or is stranded.
Accounted ==
  Reserving => \A key \in consumed :
    honoured[key.payment] > 0 \/ key \in KeysHeld \/ key \in stranded

IInv ==
  /\ TypeOK /\ server \in Servers
  /\ \A w \in Workers : RequestOK(w)
  /\ SpentIsKept
  /\ Exclusive
  /\ Accounted
  /\ HonouredOnce
  /\ GrantsArePaid

-----------------------------------------------------------------------------
(* The effects a server's step can have on the state all servers share. *)

\* A request is taken on; a reserving server reserves its key.
Starts(w) ==
  /\ ~Busy(w)
  /\ \E cred \in Presented, route \in Routes, request \in Request, pc \in Stages \ {"consume"} :
       /\ Priced(request, route)
       /\ Enter(w, pc, cred, request, route)
       /\ IF Reserving
          THEN KeyOf(cred) \notin consumed /\ consumed' = consumed \cup {KeyOf(cred)}
          ELSE UNCHANGED consumed
       /\ server = "typescript" => pc = "simulate" \/ KeyOf(cred) \notin consumed
  /\ UNCHANGED <<ledger, now, honoured, grants, stranded>>

\* A request goes on to another stage, or round its loop.
MovesOn(w) ==
  LET p == task[w].cred.payment IN
    /\ Busy(w) /\ Busy(w)'
    /\ task' \in [Workers -> Task]
    /\ \A v \in Workers : v # w => task'[v] = task[v]
    /\ task'[w].cred = task[w].cred
    /\ task'[w].request = task[w].request
    /\ task'[w].route = task[w].route
    /\ task'[w].pc = "consume" => p \in Landed /\ PaysFor(p, task[w].request)
    /\ server = "typescript" /\ task[w].pc = "simulate"
         => task'[w].pc = "simulate" \/ p \notin Landed
    /\ ledger' \in {ledger, AfterSend(p)}
    /\ UNCHANGED <<now, consumed, honoured, grants, stranded>>

\* A request ends without a receipt; a reserving server releases its key, or
\* leaves it stranded.
Fails(w) ==
  LET key == KeyOf(task[w].cred) IN
    /\ Busy(w)
    /\ Respond(w)
    /\ ledger' \in {ledger, AfterSend(task[w].cred.payment)}
    /\ \/ UNCHANGED <<consumed, stranded>> /\ ~Reserving
       \/ consumed' = consumed \ {key} /\ UNCHANGED stranded /\ Reserving
       \/ stranded' = stranded \cup {key} /\ UNCHANGED consumed /\ Reserving
    /\ UNCHANGED <<now, honoured, grants>>

\* A request ends with a receipt, and its payment's key is in the store.
Honours(w) ==
  LET p == task[w].cred.payment IN
    /\ Busy(w)
    /\ p \in Landed
    /\ PaysFor(p, task[w].request)
    /\ Receipt(w)
    /\ Respond(w)
    /\ \/ Reserving /\ UNCHANGED consumed
       \/ /\ server = "lua" => SignatureKey(p) \notin consumed
          /\ server = "typescript" => Guarded(w)
          /\ ~Reserving
          /\ consumed' = consumed \cup {SignatureKey(p)}
    /\ UNCHANGED <<ledger, now, stranded>>

\* The store reports an error before a request was taken on, or for one that ends
\* without its receipt; the key may be in the store.
LosesKey(w) ==
  /\ \E cred \in Presented : StoreFails(KeyOf(cred))
  /\ UNCHANGED task \/ (~Reserving /\ Busy(w) /\ Respond(w))
  /\ UNCHANGED <<ledger, now, honoured, grants>>

\* The process dies.
Dies == Restart(IF Reserving THEN KeysHeld ELSE {})

Effect ==
  \/ World
  \/ \E w \in Workers : Starts(w) \/ MovesOn(w) \/ Fails(w) \/ Honours(w) \/ LosesKey(w)
  \/ Dies

-----------------------------------------------------------------------------
(* Lemmas about credentials, keys and requests. *)

LEMMA CredentialTypes ==
  ASSUME NEW cred \in Credentials
  PROVE  /\ cred.payment \in Payments
         /\ cred.type \in {"transaction", "signature"} /\ cred.text \in Texts
         /\ cred.challenge.request \in Request
<1>1. cred \in Credential
  BY WorldAssumption
<1>2. /\ cred.payment \in Payments /\ cred.type \in {"transaction", "signature"}
      /\ cred.text \in Texts /\ cred.challenge \in Challenge
  BY <1>1 DEF Credential
<1>3. cred.challenge.request \in Request
  BY <1>2 DEF Challenge
<1> QED
  BY <1>2, <1>3

\* A credential's key names its payment, and the deployed server knows a payment
\* by one key only.
LEMMA KeyFacts ==
  ASSUME NEW cred \in Presented
  PROVE  /\ cred \in Credentials /\ cred.payment \in Payments
         /\ KeyOf(cred) \in Key
         /\ KeyOf(cred).payment = cred.payment
         /\ \A d \in Presented : d.payment = cred.payment => KeyOf(d) = KeyOf(cred)
<1>1. cred \in Credentials
  BY ServersAssumption DEF Presented
<1>2. /\ cred.payment \in Payments /\ cred.type \in {"transaction", "signature"}
      /\ cred.text \in Texts
  BY <1>1, CredentialTypes
<1>3. KeyOf(cred) \in Key /\ KeyOf(cred).payment = cred.payment
  BY <1>2 DEF KeyOf, Key, SignatureKey
<1>4. ASSUME NEW d \in Presented, d.payment = cred.payment
      PROVE  KeyOf(d) = KeyOf(cred)
  <2>1. CASE server = "python"
    <3>1. d.type = cred.type /\ d.text = cred.text
      BY <1>4, <2>1, ServersAssumption DEF Presented
    <3> QED
      BY <1>4, <2>1, <3>1 DEF KeyOf
  <2>2. CASE server # "python"
    BY <1>4, <2>2 DEF KeyOf
  <2> QED
    BY <2>1, <2>2
<1> QED
  BY <1>1, <1>2, <1>3, <1>4

LEMMA BusyTypes ==
  ASSUME IInv, NEW w \in Workers, Busy(w)
  PROVE  /\ task[w].cred \in Presented
         /\ task[w].cred.payment \in Payments
         /\ task[w].request \in Request
         /\ task[w].route \in Routes
         /\ task[w].pc \in Stages
<1>1. task[w] \in Active
  BY BusyIsActive DEF IInv
<1>2. /\ task[w].request \in Request /\ task[w].route \in Routes
      /\ task[w].pc \in Stages
  BY <1>1 DEF Active
<1>3. task[w].cred \in Presented
  BY DEF IInv, RequestOK
<1> QED
  BY <1>2, <1>3, KeyFacts

\* A request nobody touched may go on relying on what it relied on.
LEMMA Untouched ==
  ASSUME NEW w \in Workers, RequestOK(w), UNCHANGED server, task'[w] = task[w],
         Landed \subseteq Landed',
         Busy(w) /\ Guarded(w) => honoured'[task[w].cred.payment] = 0,
         Busy(w) /\ Reserving => KeyOf(task[w].cred) \in consumed'
  PROVE  RequestOK(w)'
BY DEF RequestOK, Busy, Guarded, Reserving, Presented, KeyOf, Priced, PaysFor

\* The server does not change what keys and credentials mean.
LEMMA SameServer ==
  ASSUME UNCHANGED server
  PROVE  /\ Reserving' = Reserving
         /\ Presented' = Presented
         /\ \A cred : KeyOf(cred)' = KeyOf(cred)
BY DEF Reserving, Presented, KeyOf

-----------------------------------------------------------------------------
(* Each effect keeps the invariant. *)

LEMMA WorldIInv ==
  ASSUME IInv, World, UNCHANGED server
  PROVE  IInv'
<1> USE DEF IInv
<1>1. /\ TypeOK'
      /\ UNCHANGED <<consumed, task, honoured, grants, stranded>>
      /\ Landed \subseteq Landed'
  BY WorldStep
<1>2. \A v \in Workers : RequestOK(v)'
  <2> SUFFICES ASSUME NEW v \in Workers PROVE RequestOK(v)'
    OBVIOUS
  <2>1. RequestOK(v) /\ task'[v] = task[v] /\ UNCHANGED <<honoured, consumed>>
    BY <1>1
  <2> QED
    BY <1>1, <2>1, Untouched DEF RequestOK
<1>3. SpentIsKept'
  BY <1>1, SameServer DEF SpentIsKept
<1>4. Exclusive' /\ HonouredOnce'
  BY <1>1 DEF Exclusive, HonouredOnce, Reserving, OneAtATime, Busy
<1>5. Accounted'
  BY <1>1 DEF Accounted, KeysHeld, KeyOf, Reserving, Busy
<1>6. GrantsArePaid'
  BY <1>1, GrantsKeep
<1> QED
  BY <1>1, <1>2, <1>3, <1>4, <1>5, <1>6

LEMMA StartsIInv ==
  ASSUME IInv, NEW w \in Workers, Starts(w), UNCHANGED server,
         server = "typescript" => OneAtATime'
  PROVE  IInv' /\ Landed' = Landed
<1> USE DEF IInv
<1>1. PICK cred \in Presented, route \in Routes, request \in Request,
           pc \in Stages \ {"consume"} :
        /\ Priced(request, route)
        /\ Enter(w, pc, cred, request, route)
        /\ IF Reserving
           THEN KeyOf(cred) \notin consumed /\ consumed' = consumed \cup {KeyOf(cred)}
           ELSE UNCHANGED consumed
        /\ server = "typescript" => pc = "simulate" \/ KeyOf(cred) \notin consumed
  BY DEF Starts
<1> DEFINE key == KeyOf(cred)
<1>2. /\ ~Busy(w)
      /\ UNCHANGED <<ledger, now, honoured, grants, stranded>>
  BY DEF Starts
<1>3. /\ cred \in Credentials /\ cred.payment \in Payments
      /\ key \in Key
      /\ \A d \in Presented : d.payment = cred.payment => KeyOf(d) = key
  BY KeyFacts
<1>4. /\ task' \in [Workers -> Task]
      /\ task'[w] = [pc |-> pc, cred |-> cred, request |-> request,
                     route |-> route, tries |-> 1]
      /\ \A v \in Workers : v # w => task'[v] = task[v]
  BY <1>1, <1>3, EnterTask
<1>5. /\ task'[w].pc = pc /\ task'[w].cred = cred
      /\ task'[w].request = request /\ task'[w].route = route
      /\ Busy(w)'
  BY <1>4 DEF Busy, Stages
<1>6. \/ Reserving /\ key \notin consumed /\ consumed' = consumed \cup {key}
      \/ ~Reserving /\ consumed' = consumed
  BY <1>1
<1> HIDE DEF key
<1>7. TypeOK' /\ Landed' = Landed
  BY <1>2, <1>3, <1>4, <1>6 DEF TypeOK, Landed
<1>8. key \notin consumed => honoured[cred.payment] = 0
  BY <1>3 DEF SpentIsKept, TypeOK, key
<1>9. \A v \in Workers : v # w => (Busy(v)' <=> Busy(v))
  BY <1>4 DEF Busy
<1>10. \A v \in Workers : RequestOK(v)'
  <2>1. RequestOK(w)'
    <3>1. Guarded(w)' => honoured'[cred.payment] = 0
      BY <1>1, <1>2, <1>5, <1>6, <1>8 DEF Guarded, Reserving, key
    <3>2. KeyOf(task[w].cred)' = key
      BY <1>5 DEF KeyOf, key
    <3>3. Reserving' => key \in consumed'
      BY <1>6, SameServer
    <3>4. cred \in Presented' /\ Priced(request, route)' /\ pc # "consume"
      BY <1>1, SameServer DEF Priced
    <3> QED
      BY <1>5, <3>1, <3>2, <3>3, <3>4 DEF RequestOK, KeyOf
  <2>2. ASSUME NEW v \in Workers, v # w
        PROVE  RequestOK(v)'
    BY <1>2, <1>4, <1>6, <1>7, <2>2, Untouched DEF RequestOK
  <2> QED
    BY <2>1, <2>2
<1>11. SpentIsKept'
  BY <1>2, <1>6, <1>7, SameServer DEF SpentIsKept
<1>12. Exclusive'
  <2>1. ASSUME Reserving, NEW v \in Workers, Busy(v)
        PROVE  task[v].cred.payment # cred.payment
    BY <2>1, <1>3, <1>6 DEF RequestOK
  <2>2. Reserving => \A v, u \in Workers :
          Busy(v)' /\ Busy(u)' /\ v # u => task'[v].cred.payment # task'[u].cred.payment
    BY <1>4, <1>5, <1>9, <2>1 DEF Exclusive
  <2> QED
    BY <2>2, SameServer DEF Exclusive
<1>13. Accounted'
  <2>1. CASE Reserving
    <3>1. KeyOf(task[w].cred)' = key
      BY <1>5 DEF KeyOf, key
    <3>2. KeysHeld' = KeysHeld \cup {key}
      BY <1>2, <1>4, <1>5, <1>9, <3>1 DEF KeysHeld, KeyOf
    <3> QED
      BY <1>2, <1>6, <2>1, <3>2 DEF Accounted
  <2>2. CASE ~Reserving
    BY <2>2, SameServer DEF Accounted
  <2> QED
    BY <2>1, <2>2
<1>14. HonouredOnce' /\ GrantsArePaid'
  BY <1>2, <1>7, GrantsKeep DEF HonouredOnce
<1> QED
  BY <1>7, <1>10, <1>11, <1>12, <1>13, <1>14

LEMMA MovesOnIInv ==
  ASSUME IInv, NEW w \in Workers, MovesOn(w), UNCHANGED server,
         server = "typescript" => OneAtATime'
  PROVE  IInv' /\ Landed' = Landed /\ UNCHANGED honoured
<1> USE DEF IInv
<1> DEFINE p == task[w].cred.payment
<1>1. /\ Busy(w) /\ Busy(w)'
      /\ task' \in [Workers -> Task]
      /\ \A v \in Workers : v # w => task'[v] = task[v]
      /\ task'[w].cred = task[w].cred
      /\ task'[w].request = task[w].request
      /\ task'[w].route = task[w].route
      /\ task'[w].pc = "consume" => p \in Landed /\ PaysFor(p, task[w].request)
      /\ server = "typescript" /\ task[w].pc = "simulate"
           => task'[w].pc = "simulate" \/ p \notin Landed
      /\ ledger' \in {ledger, AfterSend(p)}
      /\ UNCHANGED <<now, consumed, honoured, grants, stranded>>
  BY DEF MovesOn
<1>2. p \in Payments
  BY <1>1, BusyTypes
<1>3. TypeOK' /\ Landed' = Landed
  BY <1>1, <1>2, SendStep DEF TypeOK
<1>4. /\ \A v \in Workers : Busy(v)' <=> Busy(v)
      /\ \A v \in Workers : Busy(v) => task'[v].cred = task[v].cred
  BY <1>1 DEF Busy
<1>5. \A v \in Workers : RequestOK(v)'
  <2>1. RequestOK(w)'
    <3>1. Guarded(w)' => honoured'[p] = 0
      <4>1. CASE Guarded(w)
        BY <1>1, <4>1 DEF RequestOK
      <4>2. CASE ~Guarded(w) /\ p \notin Landed
        BY <1>1, <1>2, <4>2 DEF SpentIsKept, TypeOK
      <4>3. CASE ~Guarded(w) /\ p \in Landed
        BY <1>1, <4>3 DEF Guarded, Reserving
      <4> QED
        BY <4>1, <4>2, <4>3
    <3>2. /\ Priced(task[w].request, task[w].route)'
          /\ PaysFor(p, task[w].request)' = PaysFor(p, task[w].request)
      BY <1>1 DEF RequestOK, Priced, PaysFor
    <3> HIDE DEF p
    <3>3. task'[w].cred \in Presented' /\ (Reserving' => KeyOf(task[w].cred)' \in consumed')
      BY <1>1 DEF RequestOK, Presented, Reserving, KeyOf
    <3>4. task'[w].pc = "consume"
            => task'[w].cred.payment \in Landed' /\ PaysFor(task'[w].cred.payment, task'[w].request)
      BY <1>1, <1>3 DEF p, PaysFor
    <3>5. Guarded(w)' => honoured'[task'[w].cred.payment] = 0
      BY <1>1, <3>1 DEF p
    <3> QED
      BY <3>2, <3>3, <3>4, <3>5 DEF RequestOK, Priced, PaysFor, KeyOf
  <2>2. ASSUME NEW v \in Workers, v # w
        PROVE  RequestOK(v)'
    BY <1>1, <1>3, <2>2, Untouched DEF RequestOK
  <2> QED
    BY <2>1, <2>2
<1>6. SpentIsKept'
  BY <1>1, <1>3, SameServer DEF SpentIsKept
<1>7. Exclusive'
  BY <1>4, SameServer DEF Exclusive
<1>8. KeysHeld' = KeysHeld
  BY <1>4 DEF KeysHeld, KeyOf
<1>9. Accounted'
  BY <1>1, <1>8, SameServer DEF Accounted
<1>10. HonouredOnce' /\ GrantsArePaid'
  BY <1>1, <1>3, GrantsKeep DEF HonouredOnce
<1> QED
  BY <1>1, <1>3, <1>5, <1>6, <1>7, <1>9, <1>10

LEMMA FailsIInv ==
  ASSUME IInv, NEW w \in Workers, Fails(w), UNCHANGED server,
         server = "typescript" => OneAtATime'
  PROVE  IInv' /\ Landed' = Landed /\ UNCHANGED honoured
<1> USE DEF IInv
<1> DEFINE p == task[w].cred.payment
           key == KeyOf(task[w].cred)
<1>1. /\ Busy(w)
      /\ Respond(w)
      /\ ledger' \in {ledger, AfterSend(p)}
      /\ \/ UNCHANGED <<consumed, stranded>> /\ ~Reserving
         \/ consumed' = consumed \ {key} /\ UNCHANGED stranded /\ Reserving
         \/ stranded' = stranded \cup {key} /\ UNCHANGED consumed /\ Reserving
      /\ UNCHANGED <<now, honoured, grants>>
  BY DEF Fails
<1>2. p \in Payments /\ key \in Key /\ key.payment = p
  BY <1>1, BusyTypes, KeyFacts
<1>3. /\ task' \in [Workers -> Task]
      /\ ~Busy(w)'
      /\ \A v \in Workers : v # w => task'[v] = task[v]
  BY <1>1, RespondTask
<1>4. TypeOK' /\ Landed' = Landed
  BY <1>1, <1>2, <1>3, SendStep DEF TypeOK
<1>5. \A v \in Workers : v # w => (Busy(v)' <=> Busy(v))
  BY <1>3 DEF Busy
<1>6. Reserving => honoured[p] = 0
  BY <1>1 DEF RequestOK, Guarded
<1> HIDE DEF key, p
<1>7. ASSUME Reserving, NEW v \in Workers, Busy(v), v # w
      PROVE  KeyOf(task[v].cred) # key
  <2>1. task[v].cred.payment # p
    BY <1>1, <1>7 DEF Exclusive, p
  <2> QED
    BY <1>2, <1>7, <2>1, BusyTypes, KeyFacts
<1>8. \A v \in Workers : RequestOK(v)'
  <2>1. RequestOK(w)'
    BY <1>3 DEF RequestOK
  <2>2. ASSUME NEW v \in Workers, v # w
        PROVE  RequestOK(v)'
    <3>1. Busy(v) /\ Reserving => KeyOf(task[v].cred) \in consumed'
      BY <1>1, <1>7, <2>2 DEF RequestOK
    <3>2. Busy(v) /\ Guarded(v) => honoured'[task[v].cred.payment] = 0
      BY <1>1 DEF RequestOK
    <3> QED
      BY <1>3, <1>4, <2>2, <3>1, <3>2, Untouched
  <2> QED
    BY <2>1, <2>2
<1>9. SpentIsKept'
  <2>1. ASSUME NEW cred \in Presented, honoured[cred.payment] > 0
        PROVE  KeyOf(cred) \in consumed'
    <3>1. KeyOf(cred) \in consumed /\ KeyOf(cred).payment = cred.payment
      BY <2>1, KeyFacts DEF SpentIsKept
    <3>2. Reserving => KeyOf(cred) # key
      BY <1>2, <1>6, <2>1, <3>1
    <3> QED
      BY <1>1, <3>1, <3>2
  <2> QED
    BY <1>1, <1>4, <2>1, SameServer DEF SpentIsKept
<1>10. Exclusive'
  BY <1>3, <1>5, SameServer DEF Exclusive
<1>11. Accounted'
  <2>1. KeysHeld \subseteq KeysHeld' \cup {key}
    BY <1>3, <1>5 DEF KeysHeld, KeyOf, key
  <2>2. CASE Reserving
    BY <1>1, <2>1, <2>2 DEF Accounted
  <2>3. CASE ~Reserving
    BY <2>3, SameServer DEF Accounted
  <2> QED
    BY <2>2, <2>3
<1>12. HonouredOnce' /\ GrantsArePaid'
  BY <1>1, <1>4, GrantsKeep DEF HonouredOnce
<1> QED
  BY <1>1, <1>4, <1>8, <1>9, <1>10, <1>11, <1>12

LEMMA HonoursIInv ==
  ASSUME IInv, NEW w \in Workers, Honours(w), UNCHANGED server,
         server = "typescript" => OneAtATime'
  PROVE  /\ IInv' /\ Landed' = Landed
         /\ \E p \in Landed : /\ honoured[p] = 0
                              /\ honoured' = [honoured EXCEPT ![p] = 1]
<1> USE DEF IInv
<1> DEFINE p == task[w].cred.payment
           key == KeyOf(task[w].cred)
           g == [payment |-> p, request |-> task[w].request, route |-> task[w].route]
<1>1. /\ Busy(w)
      /\ p \in Landed
      /\ PaysFor(p, task[w].request)
      /\ Respond(w)
      /\ honoured' = [honoured EXCEPT ![p] = @ + 1]
      /\ grants' = grants \cup {g}
      /\ UNCHANGED <<ledger, now, stranded>>
  BY DEF Honours, Receipt
<1>2. /\ task[w].cred \in Presented /\ p \in Payments
      /\ key \in Key /\ key.payment = p /\ g \in Grant
      /\ \A d \in Presented : d.payment = p => KeyOf(d) = key
  BY <1>1, BusyTypes, KeyFacts DEF Grant
<1>3. \/ Reserving /\ consumed' = consumed /\ key \in consumed
      \/ ~Reserving /\ consumed' = consumed \cup {key}
  BY <1>1 DEF Honours, Reserving, KeyOf, RequestOK
<1>4. honoured \in [Payments -> Nat] /\ honoured[p] = 0
  <2>1. CASE Guarded(w)
    BY <1>1, <2>1 DEF RequestOK, TypeOK
  <2>2. CASE ~Guarded(w)
    <3>1. key = SignatureKey(p) /\ server \notin {"python", "go", "typescript"}
      BY <2>2, <1>1 DEF Guarded, Honours, Reserving, KeyOf
    <3>2. key \notin consumed
      BY <3>1, <2>2 DEF Honours, Guarded, Servers
    <3> QED
      BY <1>2, <3>2 DEF SpentIsKept, TypeOK
  <2> QED
    BY <2>1, <2>2
<1> HIDE DEF key, g
<1>5. honoured' = [honoured EXCEPT ![p] = 1]
  BY <1>1, <1>4
<1>6. /\ task' \in [Workers -> Task]
      /\ ~Busy(w)'
      /\ \A v \in Workers : v # w => task'[v] = task[v]
  BY <1>1, RespondTask
<1> HIDE DEF p
<1>7. TypeOK' /\ Landed' = Landed
  BY <1>1, <1>2, <1>3, <1>4, <1>5, <1>6 DEF TypeOK, Landed
<1>8. \A v \in Workers : v # w => (Busy(v)' <=> Busy(v))
  BY <1>6 DEF Busy
<1>9. consumed \subseteq consumed' /\ key \in consumed'
  BY <1>3
<1>10. \A v \in Workers : RequestOK(v)'
  <2>1. RequestOK(w)'
    BY <1>6 DEF RequestOK
  <2>2. ASSUME NEW v \in Workers, v # w
        PROVE  RequestOK(v)'
    <3>1. ASSUME Busy(v), Guarded(v)
          PROVE  honoured'[task[v].cred.payment] = 0
      <4>1. task[v].cred.payment # p
        <5>1. CASE Reserving
          BY <1>1, <2>2, <3>1, <5>1 DEF Exclusive, p
        <5>2. CASE ~Reserving
          BY <1>1, <2>2, <3>1, <5>2 DEF Exclusive, OneAtATime, Guarded
        <5> QED
          BY <5>1, <5>2
      <4>2. honoured[task[v].cred.payment] = 0 /\ task[v].cred.payment \in Payments
        BY <3>1, BusyTypes DEF RequestOK
      <4> QED
        BY <1>4, <1>5, <4>1, <4>2
    <3>2. Busy(v) /\ Reserving => KeyOf(task[v].cred) \in consumed'
      BY <1>9 DEF RequestOK
    <3> QED
      BY <1>6, <1>7, <2>2, <3>1, <3>2, Untouched
  <2> QED
    BY <2>1, <2>2
<1>11. \A q \in Payments : honoured'[q] = IF q = p THEN 1 ELSE honoured[q]
  BY <1>2, <1>4, <1>5
<1>12. SpentIsKept'
  <2>1. \A q \in Payments : honoured'[q] > 0 => q \in Landed'
    BY <1>1, <1>7, <1>11 DEF SpentIsKept
  <2>2. ASSUME NEW cred \in Presented, honoured'[cred.payment] > 0
        PROVE  KeyOf(cred) \in consumed'
    <3>1. cred.payment \in Payments
      BY KeyFacts
    <3>2. CASE cred.payment = p
      BY <1>2, <1>9, <3>2
    <3>3. CASE cred.payment # p
      BY <1>9, <1>11, <2>2, <3>1, <3>3 DEF SpentIsKept
    <3> QED
      BY <3>2, <3>3
  <2> QED
    BY <2>1, <2>2, SameServer DEF SpentIsKept
<1>13. Exclusive'
  BY <1>6, <1>8, SameServer DEF Exclusive
<1>14. Accounted'
  <2>1. CASE Reserving
    <3>1. KeysHeld \subseteq KeysHeld' \cup {key}
      BY <1>6, <1>8 DEF KeysHeld, KeyOf, key
    <3>2. ASSUME NEW k \in consumed'
          PROVE  honoured'[k.payment] > 0 \/ k \in KeysHeld' \/ k \in stranded'
      <4>1. k \in consumed /\ k.payment \in Payments
        BY <1>3, <2>1 DEF TypeOK, Key
      <4>2. honoured[k.payment] > 0 \/ k = key => honoured'[k.payment] > 0
        BY <1>2, <1>11, <4>1
      <4> QED
        BY <1>1, <2>1, <3>1, <4>1, <4>2 DEF Accounted
    <3> QED
      BY <3>2 DEF Accounted
  <2>2. CASE ~Reserving
    BY <2>2, SameServer DEF Accounted
  <2> QED
    BY <2>1, <2>2
<1>15. HonouredOnce'
  BY <1>11 DEF HonouredOnce
<1>16. GrantsArePaid'
  <2>1. ASSUME NEW h \in grants'
        PROVE  /\ ledger'[h.payment] = "landed"
               /\ PaysFor(h.payment, h.request)
               /\ Priced(h.request, h.route)
    <3>1. CASE h \in grants
      BY <1>1, <3>1 DEF GrantsArePaid, Priced, PaysFor
    <3>2. CASE h = g
      BY <1>1, <3>2 DEF RequestOK, Landed, g
    <3> QED
      BY <1>1, <3>1, <3>2
  <2> QED
    BY <2>1 DEF GrantsArePaid, PaysFor, Priced
<1> QED
  BY <1>1, <1>4, <1>5, <1>7, <1>10, <1>12, <1>13, <1>14, <1>15, <1>16

LEMMA LosesKeyIInv ==
  ASSUME IInv, NEW w \in Workers, LosesKey(w), UNCHANGED server,
         server = "typescript" => OneAtATime'
  PROVE  IInv' /\ Landed' = Landed /\ UNCHANGED honoured
<1> USE DEF IInv
<1>1. PICK cred \in Presented : StoreFails(KeyOf(cred))
  BY DEF LosesKey
<1> DEFINE key == KeyOf(cred)
<1>2. /\ UNCHANGED task \/ (~Reserving /\ Busy(w) /\ Respond(w))
      /\ UNCHANGED <<ledger, now, honoured, grants>>
  BY DEF LosesKey
<1>3. \/ UNCHANGED <<consumed, stranded>>
      \/ consumed' = consumed \cup {key} /\ stranded' = stranded \cup {key}
  BY <1>1 DEF StoreFails
<1>4. key \in Key
  BY KeyFacts
<1> HIDE DEF key
<1>5. task' \in [Workers -> Task]
  BY <1>2, RespondTask DEF TypeOK
<1>6. TypeOK' /\ Landed' = Landed
  BY <1>2, <1>3, <1>4, <1>5 DEF TypeOK, Landed
<1>7. \A v \in Workers : Busy(v)' => Busy(v) /\ task'[v] = task[v]
  BY <1>2, RespondTask DEF Busy
<1>8. consumed \subseteq consumed'
  BY <1>3
<1>9. \A v \in Workers : RequestOK(v)'
  <2>1. ASSUME NEW v \in Workers, ~Busy(v)'
        PROVE  RequestOK(v)'
    BY <2>1 DEF RequestOK
  <2>2. ASSUME NEW v \in Workers, Busy(v)'
        PROVE  RequestOK(v)'
    <3>1. Busy(v) /\ task'[v] = task[v] /\ RequestOK(v)
      BY <1>7, <2>2
    <3>2. Guarded(v) => honoured'[task[v].cred.payment] = 0
      BY <1>2, <3>1 DEF RequestOK
    <3>3. Reserving => KeyOf(task[v].cred) \in consumed'
      BY <1>8, <3>1 DEF RequestOK
    <3> QED
      BY <1>6, <3>1, <3>2, <3>3, Untouched
  <2> QED
    BY <2>1, <2>2
<1>10. SpentIsKept'
  BY <1>2, <1>6, <1>8, SameServer DEF SpentIsKept
<1>11. Exclusive'
  BY <1>7, SameServer DEF Exclusive
<1>12. Accounted'
  <2>1. CASE Reserving /\ UNCHANGED task
    <3>1. KeysHeld' = KeysHeld
      BY <2>1 DEF KeysHeld, KeyOf, Busy
    <3> QED
      BY <1>2, <1>3, <2>1, <3>1 DEF Accounted
  <2>2. CASE ~Reserving
    BY <2>2, SameServer DEF Accounted
  <2> QED
    BY <1>2, <2>1, <2>2
<1>13. HonouredOnce' /\ GrantsArePaid'
  BY <1>2, <1>6, GrantsKeep DEF HonouredOnce
<1> QED
  BY <1>2, <1>6, <1>9, <1>10, <1>11, <1>12, <1>13

LEMMA DiesIInv ==
  ASSUME IInv, Dies, UNCHANGED server
  PROVE  IInv' /\ UNCHANGED honoured /\ Landed' = Landed
<1> USE DEF IInv
<1>1. /\ task' = [w \in Workers |-> Idle]
      /\ stranded' = stranded \cup (IF Reserving THEN KeysHeld ELSE {})
      /\ UNCHANGED <<ledger, now, consumed, honoured, grants>>
  BY DEF Dies, Restart
<1>2. \A w \in Workers : ~Busy(w)'
  BY <1>1 DEF Busy, Idle
<1>3. KeysHeld \subseteq Key
  BY BusyTypes, KeyFacts DEF KeysHeld
<1>4. TypeOK' /\ Landed' = Landed
  BY <1>1, <1>3 DEF TypeOK, Task, Landed
<1>5. SpentIsKept'
  BY <1>1, <1>4, SameServer DEF SpentIsKept
<1>6. Exclusive' /\ \A w \in Workers : RequestOK(w)'
  BY <1>2 DEF Exclusive, OneAtATime, RequestOK
<1>7. Accounted'
  BY <1>1, SameServer DEF Accounted
<1>8. HonouredOnce' /\ GrantsArePaid'
  BY <1>1, <1>4, GrantsKeep DEF HonouredOnce
<1> QED
  BY <1>1, <1>4, <1>5, <1>6, <1>7, <1>8

-----------------------------------------------------------------------------
(* The steps of each server are effects. *)

\* A stage entered from another one keeps the request.
LEMMA AdvanceMoves ==
  ASSUME IInv, NEW w \in Workers, NEW pc \in Stages, Busy(w), Advance(w, pc),
         ledger' \in {ledger, AfterSend(task[w].cred.payment)},
         UNCHANGED <<now, consumed, honoured, grants, stranded>>,
         pc = "consume" => /\ task[w].cred.payment \in Landed
                           /\ PaysFor(task[w].cred.payment, task[w].request),
         server = "typescript" /\ task[w].pc = "simulate"
           => task[w].cred.payment \notin Landed
  PROVE  MovesOn(w)
<1>1. /\ task' \in [Workers -> Task]
      /\ task'[w] = [pc |-> pc, cred |-> task[w].cred, request |-> task[w].request,
                     route |-> task[w].route, tries |-> 1]
      /\ \A v \in Workers : v # w => task'[v] = task[v]
  BY AdvanceTask DEF IInv
<1>2. /\ task'[w].pc = pc /\ task'[w].cred = task[w].cred
      /\ task'[w].request = task[w].request /\ task'[w].route = task[w].route
      /\ Busy(w)'
  BY <1>1 DEF Busy, Stages
<1> QED
  BY <1>1, <1>2 DEF MovesOn

\* The request the deployed server verifies a credential against on a route.
Requested(cred, route) ==
  IF Expected[route] = None THEN cred.challenge.request ELSE Expected[route]

LEMMA RequestedType ==
  ASSUME NEW cred \in Credentials, NEW route \in Routes
  PROVE  Requested(cred, route) \in Request
BY CredentialTypes, WorldAssumption DEF Requested

LEMMA LuaEffect ==
  ASSUME IInv, server = "lua", Lua!Next
  PROVE  Effect
<1> USE DEF IInv
<1>1. CASE Lua!World
  BY <1>1 DEF Effect, World, ClientSends, Execute, Drop, Tick,
     Lua!World, Lua!ClientSends, Lua!Execute, Lua!Drop, Lua!Tick
<1>2. ASSUME NEW w \in Workers, NEW cred \in Credentials, NEW route \in Routes,
             Lua!VerifyCredential(w, cred, route)
      PROVE  Starts(w)
  <2> DEFINE request == Requested(cred, route)
             pc == IF cred.type = "transaction" THEN "send" ELSE "fetch"
  <2>1. request \in Request /\ cred \in Presented /\ pc \in Stages \ {"consume"}
    BY RequestedType DEF Presented, Stages
  <2>2. Priced(request, route)
    BY <1>2 DEF Lua!VerifyCredential, Lua!VerifyChallengeAndDecode, Lua!VerifyPinnedFields,
       Lua!MatchesExpected, Lua!RequestFor, Priced, Requested
  <2>3. /\ ~Busy(w) /\ Enter(w, pc, cred, request, route)
        /\ UNCHANGED <<ledger, now, consumed, honoured, grants, stranded>>
    BY <1>2 DEF Lua!VerifyCredential, Lua!RequestFor, Lua!Busy, Lua!Enter, Busy, Enter,
       Requested
  <2> HIDE DEF request, pc
  <2> QED
    BY <2>1, <2>2, <2>3 DEF Starts, Reserving
<1>3. ASSUME NEW w \in Workers, Lua!SendTransaction(w)
      PROVE  MovesOn(w) \/ Fails(w)
  <2>1. task[w].pc = "send" /\ UNCHANGED <<now, consumed, honoured, grants, stranded>>
    BY <1>3 DEF Lua!SendTransaction
  <2>2. Busy(w) /\ "fetch" \in Stages
    BY <2>1, BusyIsActive DEF Stages
  <2>3. ledger' \in {ledger, AfterSend(task[w].cred.payment)}
    BY <1>3 DEF Lua!SendTransaction, Lua!AfterSend, AfterSend
  <2>4. Advance(w, "fetch") \/ Respond(w)
    BY <1>3 DEF Lua!SendTransaction, Lua!Advance, Lua!Enter, Lua!Respond, Lua!Idle,
       Advance, Enter, Respond, Idle
  <2>5. CASE Advance(w, "fetch")
    BY <2>1, <2>2, <2>3, <2>5, AdvanceMoves
  <2>6. CASE Respond(w)
    BY <2>1, <2>2, <2>3, <2>6 DEF Fails, Reserving
  <2> QED
    BY <2>4, <2>5, <2>6
<1>4. ASSUME NEW w \in Workers, Lua!VerifyConfirmedTransaction(w)
      PROVE  MovesOn(w) \/ Fails(w)
  <2>1. task[w].pc = "fetch" /\ UNCHANGED <<ledger, now, consumed, honoured, grants, stranded>>
    BY <1>4 DEF Lua!VerifyConfirmedTransaction
  <2>2. Busy(w) /\ "consume" \in Stages
    BY <2>1, BusyIsActive DEF Stages
  <2>3. \/ /\ ledger[task[w].cred.payment] = "landed"
           /\ PaysFor(task[w].cred.payment, task[w].request)
           /\ Advance(w, "consume")
        \/ Respond(w)
    BY <1>4 DEF Lua!VerifyConfirmedTransaction, Lua!Advance, Lua!Enter, Lua!Respond, Lua!Idle,
       Lua!PaysFor, Advance, Enter, Respond, Idle, PaysFor
  <2>4. CASE Respond(w)
    BY <2>1, <2>2, <2>4 DEF Fails, Reserving
  <2>5. CASE ~Respond(w)
    <3>1. task[w].cred.payment \in Landed
      BY <2>2, <2>3, <2>5, BusyTypes DEF Landed
    <3> QED
      BY <2>1, <2>2, <2>3, <2>5, <3>1, AdvanceMoves
  <2> QED
    BY <2>4, <2>5
<1>5. ASSUME NEW w \in Workers, Lua!FinalizeVerification(w)
      PROVE  Honours(w) \/ Fails(w) \/ LosesKey(w)
  <2>1. task[w].pc = "consume" /\ Respond(w) /\ UNCHANGED <<ledger, now>>
    BY <1>5 DEF Lua!FinalizeVerification, Lua!Respond, Lua!Idle, Respond, Idle
  <2>2. Busy(w)
    BY <2>1, BusyIsActive DEF Stages
  <2>3. \/ /\ SignatureKey(task[w].cred.payment) \notin consumed
           /\ consumed' = consumed \cup {SignatureKey(task[w].cred.payment)}
           /\ Receipt(w) /\ UNCHANGED stranded
        \/ UNCHANGED <<consumed, honoured, grants, stranded>>
        \/ StoreFails(SignatureKey(task[w].cred.payment)) /\ UNCHANGED <<honoured, grants>>
    BY <1>5 DEF Lua!FinalizeVerification, Lua!SignatureKey, Lua!Receipt, Lua!StoreFails,
       SignatureKey, Receipt, StoreFails
  <2>4. /\ task[w].cred.payment \in Landed
        /\ PaysFor(task[w].cred.payment, task[w].request)
    BY <2>1, <2>2 DEF RequestOK
  <2>5. ~Reserving
    BY DEF Reserving
  <2>6. KeyOf(task[w].cred) = SignatureKey(task[w].cred.payment) /\ task[w].cred \in Presented
    BY <2>2, BusyTypes DEF KeyOf
  <2>7. CASE /\ StoreFails(SignatureKey(task[w].cred.payment))
             /\ UNCHANGED <<honoured, grants>>
    BY <2>1, <2>2, <2>5, <2>6, <2>7 DEF LosesKey
  <2> QED
    BY <2>1, <2>2, <2>3, <2>4, <2>5, <2>7 DEF Honours, Fails
<1>6. CASE Lua!ServerRestart
  BY <1>6 DEF Lua!ServerRestart, Lua!Restart, Lua!Idle, Effect, Dies, Restart, Idle, Reserving
<1> QED
  BY <1>1, <1>2, <1>3, <1>4, <1>5, <1>6 DEF Lua!Next, Lua!Settle, Effect

LEMMA GoEffect ==
  ASSUME IInv, server = "go", Go!Next
  PROVE  Effect
<1> USE DEF IInv
<1>r. Reserving /\ \A cred : KeyOf(cred) = SignatureKey(cred.payment)
  BY DEF Reserving, KeyOf
<1>1. CASE Go!World
  BY <1>1 DEF Effect, World, ClientSends, Execute, Drop, Tick,
     Go!World, Go!ClientSends, Go!Execute, Go!Drop, Go!Tick
<1>2. ASSUME NEW w \in Workers, NEW cred \in Credentials, NEW route \in Routes,
             Go!VerifyTransaction(w, cred, route) \/ Go!VerifySignature(w, cred, route)
      PROVE  Starts(w) \/ LosesKey(w)
  <2> DEFINE request == Requested(cred, route)
  <2>1. request \in Request /\ cred \in Presented
    BY RequestedType DEF Presented
  <2>2. Go!Admits(cred, route)
    BY <1>2 DEF Go!VerifyTransaction, Go!VerifySignature
  <2>3. Priced(request, route)
    BY <2>2 DEF Go!Admits, Go!VerifyChallengeAndDecode, Go!VerifyPinnedFields,
       Go!MatchesExpected, Go!RequestFor, Priced, Requested
  <2>4. PICK pc \in {"simulate", "fetch"} : Go!Reserve(w, pc, cred, route)
    BY <1>2 DEF Go!VerifyTransaction, Go!VerifySignature
  <2>5. ~Busy(w) /\ UNCHANGED <<ledger, now, honoured, grants>>
    BY <1>2 DEF Go!VerifyTransaction, Go!VerifySignature, Go!Busy, Busy
  <2>6. \/ /\ Enter(w, pc, cred, request, route)
           /\ SignatureKey(cred.payment) \notin consumed
           /\ consumed' = consumed \cup {SignatureKey(cred.payment)}
           /\ UNCHANGED stranded
        \/ StoreFails(SignatureKey(cred.payment)) /\ UNCHANGED task
    BY <2>4 DEF Go!Reserve, Go!RequestFor, Go!Enter, Go!SignatureKey, Go!StoreFails,
       Enter, SignatureKey, StoreFails, Requested
  <2>7. pc \in Stages \ {"consume"}
    BY <2>4 DEF Stages
  <2> HIDE DEF request
  <2>8. CASE StoreFails(SignatureKey(cred.payment)) /\ UNCHANGED task
    BY <1>r, <2>1, <2>5, <2>8 DEF LosesKey
  <2> QED
    BY <1>r, <2>1, <2>3, <2>5, <2>6, <2>7, <2>8 DEF Starts
<1>3. ASSUME NEW w \in Workers, Busy(w), Go!GiveUp(w), UNCHANGED <<now, honoured, grants>>,
             ledger' \in {ledger, AfterSend(task[w].cred.payment)}
      PROVE  Fails(w)
  <2>1. /\ Respond(w)
        /\ \/ /\ consumed' = consumed \ {SignatureKey(task[w].cred.payment)}
              /\ UNCHANGED stranded
           \/ /\ stranded' = stranded \cup {SignatureKey(task[w].cred.payment)}
              /\ UNCHANGED consumed
    BY <1>3 DEF Go!GiveUp, Go!Respond, Go!Idle, Go!SignatureKey, Respond, Idle, SignatureKey
  <2> QED
    BY <1>r, <1>3, <2>1 DEF Fails
<1>4. ASSUME NEW w \in Workers, NEW pc \in Stages, Busy(w), Go!Advance(w, pc),
             pc # "consume", UNCHANGED <<now, consumed, honoured, grants, stranded>>,
             ledger' \in {ledger, AfterSend(task[w].cred.payment)}
      PROVE  MovesOn(w)
  <2>1. Advance(w, pc)
    BY <1>4 DEF Go!Advance, Go!Enter, Advance, Enter
  <2> QED
    BY <1>4, <2>1, AdvanceMoves
<1>5. {"simulate", "send", "confirm", "fetch"} \subseteq Stages \ {"consume"}
  BY DEF Stages
<1>6. \A w \in Workers : task[w].pc \in {"simulate", "send", "confirm", "fetch"} => Busy(w)
  BY <1>5, BusyIsActive
<1>7. ASSUME NEW w \in Workers,
             Go!SimulateTransaction(w) \/ Go!WaitForConfirmation(w) \/ Go!ContextDone(w)
      PROVE  MovesOn(w) \/ Fails(w)
  <2>1. UNCHANGED <<ledger, now, honoured, grants>> /\ Busy(w)
    BY <1>6, <1>7 DEF Go!SimulateTransaction, Go!WaitForConfirmation, Go!ContextDone
  <2>2. \/ (Go!Advance(w, "send") \/ Go!Advance(w, "fetch")) /\ UNCHANGED <<consumed, stranded>>
        \/ Go!GiveUp(w)
    BY <1>7 DEF Go!SimulateTransaction, Go!WaitForConfirmation, Go!ContextDone
  <2> QED
    BY <1>3, <1>4, <1>5, <2>1, <2>2
<1>8. ASSUME NEW w \in Workers, Go!SendTransaction(w)
      PROVE  MovesOn(w) \/ Fails(w)
  <2>1. UNCHANGED <<now, honoured, grants>> /\ Busy(w)
    BY <1>6, <1>8 DEF Go!SendTransaction
  <2>2. ledger' \in {ledger, AfterSend(task[w].cred.payment)}
    BY <1>8 DEF Go!SendTransaction, Go!AfterSend, AfterSend
  <2>3. (Go!Advance(w, "confirm") /\ UNCHANGED <<consumed, stranded>>) \/ Go!GiveUp(w)
    BY <1>8 DEF Go!SendTransaction
  <2> QED
    BY <1>3, <1>4, <1>5, <2>1, <2>2, <2>3
<1>9. ASSUME NEW w \in Workers, Go!VerifyOnChain(w)
      PROVE  Honours(w) \/ Fails(w)
  <2>1. UNCHANGED <<ledger, now>> /\ Busy(w)
    BY <1>6, <1>9 DEF Go!VerifyOnChain
  <2>2. CASE Go!GiveUp(w) /\ UNCHANGED <<honoured, grants>>
    BY <1>3, <2>1, <2>2
  <2>3. CASE ~(Go!GiveUp(w) /\ UNCHANGED <<honoured, grants>>)
    <3>1. /\ ledger[task[w].cred.payment] = "landed"
          /\ PaysFor(task[w].cred.payment, task[w].request)
          /\ Receipt(w) /\ Respond(w) /\ UNCHANGED <<consumed, stranded>>
      BY <1>9, <2>3 DEF Go!VerifyOnChain, Go!PaysFor, Go!Receipt, Go!Respond, Go!Idle,
         PaysFor, Receipt, Respond, Idle
    <3>2. task[w].cred.payment \in Landed
      BY <2>1, <3>1, BusyTypes DEF Landed
    <3> QED
      BY <1>r, <2>1, <3>1, <3>2 DEF Honours
  <2> QED
    BY <2>2, <2>3
<1>10. CASE Go!ServerRestart
  <2>1. Go!Held = KeysHeld
    BY <1>r DEF Go!Held, Go!Busy, Go!SignatureKey, KeysHeld, Busy, SignatureKey
  <2>2. Go!Restart(KeysHeld)
    BY <1>10, <2>1 DEF Go!ServerRestart
  <2>3. Restart(KeysHeld)
    BY <2>2 DEF Go!Restart, Go!Idle, Restart, Idle
  <2> QED
    BY <1>r, <2>3 DEF Effect, Dies
<1> QED
  BY <1>1, <1>2, <1>7, <1>8, <1>9, <1>10 DEF Go!Next, Go!Settle, Effect

\* The key the Python server takes.
LEMMA PythonKeys ==
  ASSUME server = "python", NEW cred \in Presented
  PROVE  KeyOf(cred) = Python!ConsumedKey(cred)
<1>1. cred.type \in {"transaction", "signature"}
  BY KeyFacts, CredentialTypes
<1> QED
  BY <1>1 DEF KeyOf, SignatureKey, Python!ConsumedKey

LEMMA PythonEffect ==
  ASSUME IInv, server = "python", Python!Next
  PROVE  Effect
<1> USE DEF IInv
<1>r. Reserving /\ \A cred \in Presented : KeyOf(cred) = Python!ConsumedKey(cred)
  BY PythonKeys DEF Reserving
<1>1. CASE Python!World
  BY <1>1 DEF Effect, World, ClientSends, Execute, Drop, Tick,
     Python!World, Python!ClientSends, Python!Execute, Python!Drop, Python!Tick
<1>2. ASSUME NEW w \in Workers, NEW cred \in OneForm, NEW route \in Routes,
             Python!VerifyTransaction(w, cred, route) \/ Python!VerifySignature(w, cred, route)
      PROVE  Starts(w) \/ LosesKey(w)
  <2> DEFINE request == Requested(cred, route)
  <2>1. cred \in Presented /\ cred \in Credentials
    BY ServersAssumption DEF Presented
  <2>2. request \in Request
    BY <2>1, RequestedType
  <2>3. Python!VerifyPayload(cred, route)
    BY <1>2 DEF Python!VerifyTransaction, Python!VerifySignature
  <2>4. Priced(request, route)
    BY <2>3 DEF Python!VerifyPayload, Python!VerifyChallengeAndDecode,
       Python!VerifyPinnedFields, Python!MatchesExpected, Python!RequestFor, Priced, Requested
  <2>5. PICK pc \in {"send", "fetch"} : Python!Reserve(w, pc, cred, route)
    BY <1>2 DEF Python!VerifyTransaction, Python!VerifySignature
  <2>6. ~Busy(w) /\ UNCHANGED <<ledger, now, honoured, grants>>
    BY <1>2 DEF Python!VerifyTransaction, Python!VerifySignature, Python!Busy, Busy
  <2>7. \/ /\ Enter(w, pc, cred, request, route)
           /\ Python!ConsumedKey(cred) \notin consumed
           /\ consumed' = consumed \cup {Python!ConsumedKey(cred)}
           /\ UNCHANGED stranded
        \/ StoreFails(Python!ConsumedKey(cred)) /\ UNCHANGED task
    BY <2>5 DEF Python!Reserve, Python!RequestFor, Python!Enter, Python!StoreFails,
       Enter, StoreFails, Requested
  <2>8. pc \in Stages \ {"consume"}
    BY <2>5 DEF Stages
  <2> HIDE DEF request
  <2>9. CASE StoreFails(Python!ConsumedKey(cred)) /\ UNCHANGED task
    BY <1>r, <2>1, <2>6, <2>9 DEF LosesKey
  <2> QED
    BY <1>r, <2>1, <2>2, <2>4, <2>6, <2>7, <2>8, <2>9 DEF Starts
<1>3. ASSUME NEW w \in Workers, Busy(w), UNCHANGED <<now, honoured, grants>>,
             ledger' \in {ledger, AfterSend(task[w].cred.payment)},
             Respond(w),
             LET key == Python!ConsumedKey(task[w].cred) IN
               \/ consumed' = consumed \ {key} /\ UNCHANGED stranded
               \/ stranded' = stranded \cup {key} /\ UNCHANGED consumed
      PROVE  Fails(w)
  BY <1>r, <1>3, BusyTypes DEF Fails
<1>4. ASSUME NEW w \in Workers, Busy(w), Python!Raise(w), UNCHANGED <<now, honoured, grants>>,
             ledger' \in {ledger, AfterSend(task[w].cred.payment)}
      PROVE  Fails(w)
  <2>1. Respond(w)
    BY <1>4 DEF Python!Raise, Python!Respond, Python!Idle, Respond, Idle
  <2> QED
    BY <1>3, <1>4, <2>1 DEF Python!Raise
<1>5. ASSUME NEW w \in Workers, NEW pc \in Stages, Busy(w), Python!Advance(w, pc),
             pc # "consume", UNCHANGED <<now, consumed, honoured, grants, stranded>>,
             ledger' \in {ledger, AfterSend(task[w].cred.payment)}
      PROVE  MovesOn(w)
  <2>1. Advance(w, pc)
    BY <1>5 DEF Python!Advance, Python!Enter, Advance, Enter
  <2> QED
    BY <1>5, <2>1, AdvanceMoves
<1>6. {"send", "confirm", "fetch"} \subseteq Stages \ {"consume"}
  BY DEF Stages
<1>7. \A w \in Workers : task[w].pc \in {"send", "confirm", "fetch"} => Busy(w)
  BY <1>6, BusyIsActive
<1>8. ASSUME NEW w \in Workers, Python!ConfirmTransaction(w)
      PROVE  MovesOn(w) \/ Fails(w)
  <2>1. UNCHANGED <<ledger, now, honoured, grants>> /\ Busy(w)
    BY <1>7, <1>8 DEF Python!ConfirmTransaction
  <2>2. (Python!Advance(w, "fetch") /\ UNCHANGED <<consumed, stranded>>) \/ Python!Raise(w)
    BY <1>8 DEF Python!ConfirmTransaction
  <2> QED
    BY <1>4, <1>5, <1>6, <2>1, <2>2
<1>9. ASSUME NEW w \in Workers, Python!SendRawTransaction(w)
      PROVE  MovesOn(w) \/ Fails(w)
  <2>1. UNCHANGED <<now, honoured, grants>> /\ Busy(w)
    BY <1>7, <1>9 DEF Python!SendRawTransaction
  <2>2. ledger' \in {ledger, AfterSend(task[w].cred.payment)}
    BY <1>9 DEF Python!SendRawTransaction, Python!AfterSend, AfterSend
  <2>3. (Python!Advance(w, "confirm") /\ UNCHANGED <<consumed, stranded>>) \/ Python!Raise(w)
    BY <1>9 DEF Python!SendRawTransaction
  <2> QED
    BY <1>4, <1>5, <1>6, <2>1, <2>2, <2>3
<1>10. ASSUME NEW w \in Workers, Python!VerifyConfirmedTransaction(w)
       PROVE  Honours(w) \/ Fails(w)
  <2>1. UNCHANGED <<ledger, now>> /\ Busy(w)
    BY <1>7, <1>10 DEF Python!VerifyConfirmedTransaction
  <2>2. CASE Python!Raise(w) /\ UNCHANGED <<honoured, grants>>
    BY <1>4, <2>1, <2>2
  <2>3. CASE ~(Python!Raise(w) /\ UNCHANGED <<honoured, grants>>)
    <3>1. /\ ledger[task[w].cred.payment] = "landed"
          /\ PaysFor(task[w].cred.payment, task[w].request)
          /\ Receipt(w) /\ Respond(w) /\ UNCHANGED <<consumed, stranded>>
      BY <1>10, <2>3 DEF Python!VerifyConfirmedTransaction, Python!PaysFor, Python!Receipt,
         Python!Respond, Python!Idle, PaysFor, Receipt, Respond, Idle
    <3>2. task[w].cred.payment \in Landed
      BY <2>1, <3>1, BusyTypes DEF Landed
    <3> QED
      BY <1>r, <2>1, <3>1, <3>2 DEF Honours
  <2> QED
    BY <2>2, <2>3
<1>11. ASSUME NEW w \in Workers, Python!Cancel(w)
       PROVE  Fails(w)
  <2>1. /\ Busy(w) /\ Respond(w) /\ UNCHANGED <<ledger, now, consumed, honoured, grants>>
        /\ stranded' = stranded \cup {Python!ConsumedKey(task[w].cred)}
    BY <1>11 DEF Python!Cancel, Python!Busy, Python!Respond, Python!Idle, Busy, Respond, Idle
  <2> QED
    BY <1>3, <2>1
<1>12. CASE Python!ServerRestart
  <2>1. Python!Held = KeysHeld
    BY <1>r, BusyTypes DEF Python!Held, Python!Busy, KeysHeld, Busy
  <2>2. Python!Restart(KeysHeld)
    BY <1>12, <2>1 DEF Python!ServerRestart
  <2>3. Restart(KeysHeld)
    BY <2>2 DEF Python!Restart, Python!Idle, Restart, Idle
  <2> QED
    BY <1>r, <2>3 DEF Effect, Dies
<1> QED
  BY <1>1, <1>2, <1>8, <1>9, <1>10, <1>11, <1>12 DEF Python!Next, Python!Settle, Effect

LEMMA TypeScriptEffect ==
  ASSUME IInv, server = "typescript", TypeScript!Next
  PROVE  Effect
<1> USE DEF IInv
<1>r. ~Reserving /\ \A cred : KeyOf(cred) = SignatureKey(cred.payment)
  BY DEF Reserving, KeyOf
<1>1. CASE TypeScript!World
  BY <1>1 DEF Effect, World, ClientSends, Execute, Drop, Tick, TypeScript!World,
     TypeScript!ClientSends, TypeScript!Execute, TypeScript!Drop, TypeScript!Tick
<1>2. ASSUME NEW w \in Workers, NEW cred \in Credentials, NEW route \in Routes,
             \/ TypeScript!VerifyTransaction(w, cred, route)
             \/ TypeScript!VerifySignature(w, cred, route)
      PROVE  Starts(w)
  <2> DEFINE request == cred.challenge.request
  <2>1. request \in Request /\ cred \in Presented
    BY CredentialTypes DEF Presented
  <2>2. request = RoutePrices[route]
    BY <1>2 DEF TypeScript!VerifyTransaction, TypeScript!VerifySignature,
       TypeScript!FrameworkAdmits
  <2>3. Priced(request, route)
    BY <2>2, ServersAssumption DEF Priced
  <2>4. /\ ~Busy(w)
        /\ UNCHANGED <<ledger, now, consumed, honoured, grants, stranded>>
    BY <1>2 DEF TypeScript!VerifyTransaction, TypeScript!VerifySignature,
       TypeScript!Busy, Busy
  <2>5. \/ Enter(w, "simulate", cred, request, route)
        \/ /\ Enter(w, "fetch", cred, request, route)
           /\ SignatureKey(cred.payment) \notin consumed
    BY <1>2 DEF TypeScript!VerifyTransaction, TypeScript!VerifySignature,
       TypeScript!Enter, TypeScript!SignatureKey, Enter, SignatureKey
  <2>6. {"simulate", "fetch"} \subseteq Stages \ {"consume"}
    BY DEF Stages
  <2> HIDE DEF request
  <2> QED
    BY <1>r, <2>1, <2>3, <2>4, <2>5, <2>6 DEF Starts
<1>3. ASSUME NEW w \in Workers, Busy(w), Respond(w),
             UNCHANGED <<now, consumed, honoured, grants, stranded>>,
             ledger' \in {ledger, AfterSend(task[w].cred.payment)}
      PROVE  Fails(w)
  BY <1>r, <1>3 DEF Fails
<1>4. {"simulate", "send", "confirm", "fetch", "consume"} \subseteq Stages
  BY DEF Stages
<1>5. \A w \in Workers : task[w].pc \in Stages => Busy(w)
  BY BusyIsActive
<1>6. ASSUME NEW w \in Workers, TypeScript!SimulateTransaction(w)
      PROVE  MovesOn(w) \/ Fails(w)
  <2>1. task[w].pc = "simulate" /\ UNCHANGED <<ledger, now, consumed, honoured, grants, stranded>>
    BY <1>6 DEF TypeScript!SimulateTransaction
  <2>2. Busy(w)
    BY <1>4, <1>5, <2>1
  <2>3. \/ /\ ledger[task[w].cred.payment] \in {"unsent", "pending"}
           /\ Advance(w, "send")
        \/ Respond(w)
    BY <1>6 DEF TypeScript!SimulateTransaction, TypeScript!MaySimulate, TypeScript!Advance,
       TypeScript!Enter, TypeScript!Respond, TypeScript!Idle, Advance, Enter, Respond, Idle
  <2>4. CASE Respond(w)
    BY <1>3, <2>1, <2>2, <2>4
  <2>5. CASE ~Respond(w)
    <3>1. task[w].cred.payment \notin Landed
      BY <2>3, <2>5 DEF Landed
    <3> QED
      BY <1>4, <2>1, <2>2, <2>3, <2>5, <3>1, AdvanceMoves
  <2> QED
    BY <2>4, <2>5
<1>7. ASSUME NEW w \in Workers, TypeScript!BroadcastTransaction(w)
      PROVE  MovesOn(w) \/ Fails(w)
  <2>1. task[w].pc = "send" /\ UNCHANGED <<now, consumed, honoured, grants, stranded>>
    BY <1>7 DEF TypeScript!BroadcastTransaction
  <2>2. Busy(w)
    BY <1>4, <1>5, <2>1
  <2>3. ledger' \in {ledger, AfterSend(task[w].cred.payment)}
    BY <1>7 DEF TypeScript!BroadcastTransaction, TypeScript!AfterSend, AfterSend
  <2>4. Advance(w, "confirm") \/ Respond(w)
    BY <1>7 DEF TypeScript!BroadcastTransaction, TypeScript!Advance, TypeScript!Enter,
       TypeScript!Respond, TypeScript!Idle, Advance, Enter, Respond, Idle
  <2>5. CASE Respond(w)
    BY <1>3, <2>1, <2>2, <2>3, <2>5
  <2>6. CASE Advance(w, "confirm")
    BY <1>4, <2>1, <2>2, <2>3, <2>6, AdvanceMoves
  <2> QED
    BY <2>4, <2>5, <2>6
<1>8. ASSUME NEW w \in Workers, TypeScript!WaitForConfirmation(w)
      PROVE  MovesOn(w) \/ Fails(w)
  <2>1. task[w].pc = "confirm" /\ UNCHANGED <<ledger, now, consumed, honoured, grants, stranded>>
    BY <1>8 DEF TypeScript!WaitForConfirmation
  <2>2. Busy(w)
    BY <1>4, <1>5, <2>1
  <2>3. Advance(w, "fetch") \/ Retry(w, PollAttempts) \/ Respond(w)
    BY <1>8 DEF TypeScript!WaitForConfirmation, TypeScript!Advance, TypeScript!Enter,
       TypeScript!Retry, TypeScript!Respond, TypeScript!Idle,
       Advance, Enter, Retry, Respond, Idle
  <2>4. CASE Respond(w)
    BY <1>3, <2>1, <2>2, <2>4
  <2>5. CASE Advance(w, "fetch")
    BY <1>4, <2>1, <2>2, <2>5, AdvanceMoves
  <2>6. CASE Retry(w, PollAttempts)
    BY <2>1, <2>2, <2>6, RetryTask DEF MovesOn
  <2> QED
    BY <2>3, <2>4, <2>5, <2>6
<1>9. ASSUME NEW w \in Workers, TypeScript!VerifyOnChain(w)
      PROVE  MovesOn(w) \/ Fails(w)
  <2>1. task[w].pc = "fetch" /\ UNCHANGED <<ledger, now, consumed, honoured, grants, stranded>>
    BY <1>9 DEF TypeScript!VerifyOnChain
  <2>2. Busy(w)
    BY <1>4, <1>5, <2>1
  <2>3. \/ /\ ledger[task[w].cred.payment] = "landed"
           /\ PaysFor(task[w].cred.payment, task[w].request)
           /\ Advance(w, "consume")
        \/ Respond(w)
    BY <1>9 DEF TypeScript!VerifyOnChain, TypeScript!PaysFor, TypeScript!Advance,
       TypeScript!Enter, TypeScript!Respond, TypeScript!Idle,
       PaysFor, Advance, Enter, Respond, Idle
  <2>4. CASE Respond(w)
    BY <1>3, <2>1, <2>2, <2>4
  <2>5. CASE ~Respond(w)
    <3>1. task[w].cred.payment \in Landed
      BY <2>2, <2>3, <2>5, BusyTypes DEF Landed
    <3> QED
      BY <1>4, <2>1, <2>2, <2>3, <2>5, <3>1, AdvanceMoves
  <2> QED
    BY <2>4, <2>5
<1>10. ASSUME NEW w \in Workers, TypeScript!MarkConsumed(w)
       PROVE  Honours(w) \/ LosesKey(w)
  <2>1. /\ task[w].pc = "consume" /\ Respond(w) /\ UNCHANGED <<ledger, now>>
        /\ \/ /\ consumed' = consumed \cup {SignatureKey(task[w].cred.payment)}
              /\ Receipt(w) /\ UNCHANGED stranded
           \/ /\ StoreFails(SignatureKey(task[w].cred.payment))
              /\ UNCHANGED <<honoured, grants>>
    BY <1>10 DEF TypeScript!MarkConsumed, TypeScript!SignatureKey, TypeScript!Receipt,
       TypeScript!Respond, TypeScript!Idle, TypeScript!StoreFails,
       SignatureKey, Receipt, Respond, Idle, StoreFails
  <2>2. Busy(w)
    BY <1>4, <1>5, <2>1
  <2>3. /\ task[w].cred.payment \in Landed
        /\ PaysFor(task[w].cred.payment, task[w].request)
    BY <2>1, <2>2 DEF RequestOK
  <2>4. Guarded(w)
    BY <2>1 DEF Guarded
  <2>5. CASE /\ StoreFails(SignatureKey(task[w].cred.payment))
             /\ UNCHANGED <<honoured, grants>>
    BY <1>r, <2>1, <2>2, <2>5, BusyTypes DEF LosesKey
  <2> QED
    BY <1>r, <2>1, <2>2, <2>3, <2>4, <2>5 DEF Honours
<1>11. CASE TypeScript!ServerRestart
  BY <1>r, <1>11 DEF TypeScript!ServerRestart, TypeScript!Restart, TypeScript!Idle,
     Effect, Dies, Restart, Idle
<1> QED
  BY <1>1, <1>2, <1>6, <1>7, <1>8, <1>9, <1>10, <1>11
     DEF TypeScript!Next, TypeScript!Settle, Effect

-----------------------------------------------------------------------------
(* Theorems. *)

\* A step of the deployed server is an effect, and the TypeScript server takes one
\* request at a time.
LEMMA DeployedEffect ==
  ASSUME IInv, Deployed
  PROVE  Effect /\ (server = "typescript" => OneAtATime')
BY GoEffect, LuaEffect, PythonEffect, TypeScriptEffect DEF Deployed

LEMMA InitIInv == Init /\ server \in Servers => IInv
<1> SUFFICES ASSUME Init, server \in Servers PROVE IInv
  OBVIOUS
<1>1. TypeOK
  BY WorldAssumption DEF Init, TypeOK, LedgerStatus, Task
<1>2. \A w \in Workers : ~Busy(w)
  BY DEF Init, Busy, Idle
<1>3. HonouredOnce /\ GrantsArePaid
  BY DEF Init, HonouredOnce, GrantsArePaid
<1>4. SpentIsKept
  BY KeyFacts DEF Init, SpentIsKept
<1>5. Exclusive /\ Accounted /\ \A w \in Workers : RequestOK(w)
  BY <1>2 DEF Exclusive, OneAtATime, Accounted, RequestOK, Init
<1> QED
  BY <1>1, <1>3, <1>4, <1>5 DEF IInv

LEMMA StutterIInv ==
  ASSUME IInv, UNCHANGED allVars
  PROVE  IInv'
<1> USE DEF IInv
<1>1. UNCHANGED <<ledger, now, consumed, task, honoured, grants, stranded, server>>
  BY DEF allVars, vars
<1>2. TypeOK' /\ Landed' = Landed /\ server' \in Servers
  BY <1>1 DEF TypeOK, Landed
<1>3. \A v \in Workers : RequestOK(v)'
  BY <1>1, <1>2, Untouched DEF RequestOK
<1>4. SpentIsKept'
  BY <1>1, <1>2, SameServer DEF SpentIsKept
<1>5. Exclusive' /\ HonouredOnce'
  BY <1>1 DEF Exclusive, HonouredOnce, Reserving, OneAtATime, Busy
<1>6. Accounted'
  BY <1>1 DEF Accounted, KeysHeld, KeyOf, Reserving, Busy
<1>7. GrantsArePaid'
  BY <1>1, <1>2, GrantsKeep
<1> QED
  BY <1>2, <1>3, <1>4, <1>5, <1>6, <1>7

LEMMA NextIInv == IInv /\ [Deployed /\ UNCHANGED server]_allVars => IInv'
<1> SUFFICES ASSUME IInv, Deployed, UNCHANGED server PROVE IInv'
  BY StutterIInv
<1>1. Effect /\ (server = "typescript" => OneAtATime')
  BY DeployedEffect
<1> QED
  BY <1>1, WorldIInv, StartsIInv, MovesOnIInv, FailsIInv, HonoursIInv, LosesKeyIInv,
     DiesIInv DEF Effect

\* Whichever server is deployed: a request that can still buy a receipt holds a
\* payment nothing else can spend, what bought a receipt landed and stays in the
\* store, and a reserved key is spent, held or stranded.
THEOREM ServersInvariance == Spec => []IInv
<1>1. Init /\ server \in Servers => IInv
  BY InitIInv
<1>2. IInv /\ [Deployed /\ UNCHANGED server]_allVars => IInv'
  BY NextIInv
<1> QED
  BY <1>1, <1>2, PTL DEF Spec

\* Every receipt of the Go, Lua, Python and TypeScript servers is covered by a
\* landed payment for the price of the route.
THEOREM ServersGrantsTheorem == Spec => []GrantsArePaid
<1>1. IInv => GrantsArePaid
  BY DEF IInv
<1> QED
  BY <1>1, ServersInvariance, PTL

\* The servers that reserve before they settle lose no payment: a key in the Go or
\* the Python server's store is spent, held by one request in flight, or was left
\* behind by a dead process, a cancelled request or a failed insertion or delete.
THEOREM ServersConsumedTheorem == Spec => []ConsumedIsHonoured
<1>1. IInv => ConsumedIsHonoured
  <2> SUFFICES ASSUME IInv PROVE ConsumedIsHonoured
    OBVIOUS
  <2>1. ASSUME server = "go" PROVE Go!ConsumedIsHonoured
    <3>1. Reserving /\ KeysHeld = Go!Held
      BY <2>1 DEF Reserving, KeysHeld, KeyOf, Busy, SignatureKey,
         Go!Held, Go!Busy, Go!SignatureKey
    <3> QED
      BY <3>1 DEF IInv, Accounted, Exclusive, Busy, Go!ConsumedIsHonoured, Go!Busy
  <2>2. ASSUME server = "python" PROVE Python!ConsumedIsHonoured
    <3>1. Reserving /\ KeysHeld = Python!Held
      BY <2>2, PythonKeys, BusyTypes DEF Reserving, KeysHeld, Busy, Python!Held, Python!Busy
    <3>2. \A v, w \in Workers :
            Busy(v) /\ Busy(w) /\ v # w
              => Python!ConsumedKey(task[v].cred) # Python!ConsumedKey(task[w].cred)
      BY <3>1 DEF IInv, Exclusive, Python!ConsumedKey
    <3> QED
      BY <3>1, <3>2 DEF IInv, Accounted, Busy, Python!ConsumedIsHonoured, Python!Busy
  <2> QED
    BY <2>1, <2>2 DEF ConsumedIsHonoured
<1> QED
  BY <1>1, ServersInvariance, PTL

\* The Go, Lua, Python and TypeScript servers implement Redemption: a payment is
\* honoured at most once and only after it landed.
THEOREM ServersRefinement == Spec => ImplementsRedemption
<1>1. Init => Promise!Init
  BY DEF Init, Promise!Init, Landed
<1>2. IInv /\ [Deployed /\ UNCHANGED server]_allVars => [Promise!Next]_<<Landed, honoured>>
  <2> SUFFICES ASSUME IInv, [Deployed /\ UNCHANGED server]_allVars
               PROVE  Promise!Next \/ UNCHANGED <<Landed, honoured>>
    OBVIOUS
  <2>1. CASE UNCHANGED allVars
    BY <2>1 DEF allVars, vars, Landed
  <2>2. CASE Deployed /\ UNCHANGED server
    <3>1. Effect /\ (server = "typescript" => OneAtATime')
      BY <2>2, DeployedEffect
    <3>2. CASE World
      BY <3>2, WorldRefines DEF IInv
    <3>3. ASSUME NEW w \in Workers, Starts(w)
          PROVE  UNCHANGED <<Landed, honoured>>
      BY <2>2, <3>1, <3>3, StartsIInv DEF Starts
    <3>4. ASSUME NEW w \in Workers, MovesOn(w) \/ Fails(w) \/ LosesKey(w)
          PROVE  UNCHANGED <<Landed, honoured>>
      BY <2>2, <3>1, <3>4, MovesOnIInv, FailsIInv, LosesKeyIInv
    <3>5. ASSUME NEW w \in Workers, Honours(w)
          PROVE  Promise!Next
      <4>1. PICK p \in Landed : honoured[p] = 0 /\ honoured' = [honoured EXCEPT ![p] = 1]
        BY <2>2, <3>1, <3>5, HonoursIInv
      <4>2. p \in Payments /\ Landed' = Landed
        BY <2>2, <3>1, <3>5, HonoursIInv DEF Landed
      <4> QED
        BY <4>1, <4>2 DEF Promise!Next, Promise!Honour
    <3>6. CASE Dies
      BY <2>2, <3>6, DiesIInv
    <3> QED
      BY <3>1, <3>2, <3>3, <3>4, <3>5, <3>6 DEF Effect
  <2> QED
    BY <2>1, <2>2
<1> QED
  BY <1>1, <1>2, ServersInvariance, PTL DEF Spec, ImplementsRedemption, Promise!Spec

=============================================================================
