---------------------------- MODULE ChargeServers ----------------------------
(***************************************************************************)
(* The Go, Lua, Python and TypeScript charge servers side by side: one of  *)
(* them, whichever a host deploys, faces the world of ChargeWorld, and all *)
(* of them are held to the same promise.  Two are held to it only within   *)
(* the limits the other runs show to be needed: Python sees each payment   *)
(* in one form and one spelling, TypeScript one request at a time and an   *)
(* RPC node that does not lag.                                             *)
(***************************************************************************)
EXTENDS ChargeWorld

CONSTANTS
  PollAttempts,  \* polls of the TypeScript server's confirmation loop
  OneForm,       \* credentials that present each payment in one form, spelt one way
  RoutePrices    \* the requests the TypeScript framework compares with

\* What "one form" means, and that the framework's request for a route is built
\* from the route's amount and the server's currency and recipient.
ASSUME ServersAssumption ==
  /\ OneForm \subseteq Credentials
  /\ \A c, d \in OneForm :
       c.payment = d.payment => c.type = d.type /\ c.text = d.text
  /\ RoutePrices \in [Routes -> Request]
  /\ \A route \in Routes :
       /\ RoutePrices[route].currency = Currency
       /\ RoutePrices[route].recipient = Recipient
       /\ Expected[route] # None => RoutePrices[route].amount = Expected[route].amount

VARIABLE server  \* which of the servers is deployed

Go == INSTANCE GoCharge
Lua == INSTANCE LuaCharge
Python == INSTANCE PythonCharge WITH Credentials <- OneForm
TypeScript == INSTANCE TypeScriptCharge WITH Expected <- RoutePrices, RpcMayLag <- FALSE

allVars == <<vars, server>>

Servers == {"go", "lua", "python", "typescript"}

OneAtATime == \A v, w \in Workers : Busy(v) /\ Busy(w) => v = w

Deployed ==
  \/ server = "go" /\ Go!Next
  \/ server = "lua" /\ Lua!Next
  \/ server = "python" /\ Python!Next
  \/ server = "typescript" /\ TypeScript!Next /\ OneAtATime'

\* A request goes on.
Proceeds(w) ==
  \/ server = "go" /\ Go!Settle(w)
  \/ server = "lua" /\ Lua!Settle(w)
  \/ server = "python" /\ Python!Settle(w)
  \/ server = "typescript" /\ TypeScript!Settle(w)

Spec == Init /\ server \in Servers /\ [][Deployed /\ UNCHANGED server]_allVars

\* Every runtime resumes a request whose call returned or failed.
LiveSpec == Spec /\ \A w \in Workers : WF_allVars(Proceeds(w) /\ UNCHANGED server)

-----------------------------------------------------------------------------
(* Properties, besides those of ChargeWorld. *)

\* For the servers that reserve a key before they settle: a key in the store
\* bought a receipt, is held by one request in flight, or was left behind by a dead
\* process, a cancelled request or a failed insertion or delete.  No other failure
\* on the way costs a client a landed payment.
ConsumedIsHonoured ==
  /\ server = "go" => Go!ConsumedIsHonoured
  /\ server = "python" => Python!ConsumedIsHonoured

\* Every request whose transaction the ledger decided is answered, and outside Go,
\* whose polling loop has no deadline of its own, so is every other request.
DecidedIsAnswered ==
  \A w \in Workers :
    (Busy(w) /\ (server # "go" \/ ledger[task[w].cred.payment] \in {"landed", "failed"}))
      ~> ~Busy(w)

=============================================================================
