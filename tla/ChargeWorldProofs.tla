-------------------------- MODULE ChargeWorldProofs --------------------------
(* Facts about ChargeWorld that the proofs about each charge server share. *)
EXTENDS ChargeWorld, TLAPS

\* A worker that is not idle runs a well-formed request; an idle one does not.
LEMMA BusyIsActive ==
  ASSUME TypeOK, NEW w \in Workers
  PROVE  /\ Busy(w) => task[w] \in Active
         /\ ~Busy(w) => task[w] = Idle
         /\ task[w].pc \in Stages => Busy(w)
<1>1. task[w] \in Task
  BY DEF TypeOK
<1>2. CASE task[w] = Idle
  BY <1>2 DEF Idle, Busy, Stages
<1>3. CASE task[w] \in Active
  BY <1>3 DEF Active, Busy, Stages
<1> QED
  BY <1>1, <1>2, <1>3 DEF Task

\* Entering, advancing, retrying and answering keep the requests well formed and
\* touch one worker's request only.
LEMMA EnterTask ==
  ASSUME TypeOK, NEW w \in Workers, NEW pc \in Stages, NEW cred \in Credentials,
         NEW request \in Request, NEW route \in Routes,
         Enter(w, pc, cred, request, route)
  PROVE  /\ task' \in [Workers -> Task]
         /\ task'[w] = [pc |-> pc, cred |-> cred, request |-> request,
                        route |-> route, tries |-> 1]
         /\ \A v \in Workers : v # w => task'[v] = task[v]
<1> DEFINE t == [pc |-> pc, cred |-> cred, request |-> request,
                 route |-> route, tries |-> 1]
<1>1. t \in Task
  BY DEF Task, Active
<1>2. task \in [Workers -> Task] /\ task' = [task EXCEPT ![w] = t]
  BY DEF TypeOK, Enter
<1> HIDE DEF t
<1>3. /\ task' \in [Workers -> Task]
      /\ task'[w] = t
      /\ \A v \in Workers : v # w => task'[v] = task[v]
  BY <1>1, <1>2
<1> QED
  BY <1>3 DEF t

LEMMA AdvanceTask ==
  ASSUME TypeOK, NEW w \in Workers, NEW pc \in Stages, Busy(w), Advance(w, pc)
  PROVE  /\ task' \in [Workers -> Task]
         /\ task'[w] = [pc |-> pc, cred |-> task[w].cred, request |-> task[w].request,
                        route |-> task[w].route, tries |-> 1]
         /\ \A v \in Workers : v # w => task'[v] = task[v]
<1>1. task[w] \in Active
  BY BusyIsActive
<1>2. /\ task[w].cred \in Credentials
      /\ task[w].request \in Request
      /\ task[w].route \in Routes
  BY <1>1 DEF Active
<1>3. Enter(w, pc, task[w].cred, task[w].request, task[w].route)
  BY DEF Advance
<1> QED
  BY <1>2, <1>3, EnterTask

LEMMA RetryTask ==
  ASSUME TypeOK, NEW w \in Workers, NEW max, Busy(w), Retry(w, max)
  PROVE  /\ task' \in [Workers -> Task]
         /\ Busy(w)'
         /\ task'[w].pc = task[w].pc
         /\ task'[w].cred = task[w].cred
         /\ task'[w].request = task[w].request
         /\ task'[w].route = task[w].route
         /\ \A v \in Workers : v # w => task'[v] = task[v]
<1> DEFINE t == [task[w] EXCEPT !.tries = @ + 1]
<1>1. task[w] \in Active
  BY BusyIsActive
<1>2. /\ t \in Task /\ t.pc = task[w].pc /\ t.cred = task[w].cred
      /\ t.request = task[w].request /\ t.route = task[w].route
  BY <1>1 DEF Active, Task
<1>3. task \in [Workers -> Task] /\ task' = [task EXCEPT ![w] = t]
  BY DEF TypeOK, Retry
<1> HIDE DEF t
<1>4. /\ task' \in [Workers -> Task]
      /\ task'[w] = t
      /\ \A v \in Workers : v # w => task'[v] = task[v]
  BY <1>2, <1>3
<1> QED
  BY <1>2, <1>4 DEF Busy

LEMMA RespondTask ==
  ASSUME TypeOK, NEW w \in Workers, Respond(w)
  PROVE  /\ task' \in [Workers -> Task]
         /\ ~Busy(w)'
         /\ task'[w] = Idle
         /\ \A v \in Workers : v # w => task'[v] = task[v]
BY DEF TypeOK, Respond, Task, Idle, Busy

\* What the ledger and the clock do leaves the server's state alone, keeps the
\* types, and takes nothing back that landed.
LEMMA WorldStep ==
  ASSUME TypeOK, World
  PROVE  /\ TypeOK'
         /\ UNCHANGED <<consumed, task, honoured, grants, stranded>>
         /\ Landed \subseteq Landed'
<1>1. ASSUME NEW p \in Payments, ClientSends(p) \/ Execute(p) \/ Drop(p),
             UNCHANGED <<now, consumed, task, honoured, grants, stranded>>
      PROVE  /\ TypeOK'
             /\ UNCHANGED <<consumed, task, honoured, grants, stranded>>
             /\ Landed \subseteq Landed'
  BY <1>1 DEF TypeOK, ClientSends, Execute, Drop, LedgerStatus, Landed
<1>2. CASE Tick
  BY <1>2, WorldAssumption DEF TypeOK, Tick, Landed
<1> QED
  BY <1>1, <1>2 DEF World

\* Sending a transaction, accepted or not, keeps the type of the ledger and what
\* landed.
LEMMA SendStep ==
  ASSUME TypeOK, NEW p \in Payments, ledger' \in {ledger, AfterSend(p)}
  PROVE  /\ ledger' \in [Payments -> LedgerStatus]
         /\ Landed' = Landed
BY DEF TypeOK, AfterSend, LedgerStatus, Landed

\* Receipts already given stay covered while nothing that landed is taken back.
LEMMA GrantsKeep ==
  ASSUME TypeOK, GrantsArePaid, UNCHANGED grants, Landed \subseteq Landed'
  PROVE  GrantsArePaid'
BY DEF GrantsArePaid, TypeOK, Grant, PaysFor, Landed

\* Ledger steps of the world are landings or invisible to Redemption.
LEMMA WorldRefines ==
  ASSUME TypeOK, World
  PROVE  Promise!Next \/ UNCHANGED <<Landed, honoured>>
<1>1. ASSUME NEW p \in Payments, ClientSends(p) \/ Execute(p) \/ Drop(p),
             UNCHANGED <<now, consumed, task, honoured, grants, stranded>>
      PROVE  Promise!Next \/ UNCHANGED <<Landed, honoured>>
  <2>1. CASE ledger[p] = "pending" /\ ledger' = [ledger EXCEPT ![p] = "landed"]
    <3>1. p \notin Landed /\ Landed' = Landed \cup {p}
      BY <2>1 DEF TypeOK, Landed
    <3>2. Promise!Land(p)
      BY <3>1, <1>1 DEF Promise!Land
    <3> QED
      BY <3>2 DEF Promise!Next
  <2>2. CASE \E s \in {"pending", "failed", "dropped"} :
               ledger[p] # "landed" /\ ledger' = [ledger EXCEPT ![p] = s]
    BY <2>2, <1>1 DEF TypeOK, Landed
  <2> QED
    BY <1>1, <2>1, <2>2 DEF ClientSends, Execute, Drop
<1>2. CASE Tick
  BY <1>2 DEF Tick, Landed
<1> QED
  BY <1>1, <1>2 DEF World

=============================================================================
