---------------------------- MODULE MultiDelegate ----------------------------
(***************************************************************************)
(* Setting up a delegated-token session: the server reads the delegation   *)
(* of a (client, operator) pair, assess_multi_delegate_setup decides which *)
(* pre-signed transaction to submit (rust/src/program/multi_delegator.rs,  *)
(* rust/src/client/multi_delegate.rs), and the session opens when that     *)
(* transaction has landed.  Sessions of one client set up concurrently     *)
(* over the same accounts.  The multi-delegator program is external: an    *)
(* init fails when its accounts exist; an update of an existing delegation *)
(* fails or raises its cap, as the SDK's documentation says it may.        *)
(***************************************************************************)
EXTENDS Integers, Sequences, FiniteSets

CONSTANTS
  NoCap,      \* existing_delegation_cap = None
  Setups,     \* sessions being set up
  CapOf,      \* the delegation amount each needs
  NonceOf,    \* the nonce its client signed for
  HasInit,    \* sessions whose open carries initMultiDelegateTx
  HasUpdate   \* sessions whose open carries updateDelegationTx

ASSUME DelegateAssumption ==
  /\ CapOf \in [Setups -> Nat]
  /\ DOMAIN NonceOf = Setups
  /\ NoCap \notin Nat

VARIABLES
  delegate,     \* the MultiDelegate account exists
  delegations,  \* nonce -> cap, for the FixedDelegation accounts that exist
  setup         \* per session: what was read, decided and done

delegateVars == <<delegate, delegations, setup>>

-----------------------------------------------------------------------------

\* Mutant: an existing delegation is taken for a sufficient one.
AssessExisting(state, required, hasInit, hasUpdate) ==
  IF ~state.exists THEN IF hasInit THEN "SubmitInit" ELSE "MissingPayload"
  ELSE IF state.cap # NoCap THEN "AlreadySufficient"
       ELSE IF hasUpdate THEN "SubmitUpdate" ELSE "MissingPayload"

AssessMultiDelegateSetup(state, required, hasInit, hasUpdate) ==
  IF ~state.exists THEN IF hasInit THEN "SubmitInit" ELSE "MissingPayload"
  ELSE IF state.cap # NoCap /\ state.cap >= required THEN "AlreadySufficient"
       ELSE IF hasUpdate THEN "SubmitUpdate" ELSE "MissingPayload"

\* The instructions, by the accounts they leave behind.
InitMultiDelegate == delegate' = TRUE

CreateFixedDelegation(nonce, cap) ==
  delegations' = [n \in DOMAIN delegations \cup {nonce} |->
                    IF n = nonce THEN cap ELSE delegations[n]]

\* An initMultiDelegateTx has both: both accounts are new.
InitLands(nonce) == ~delegate /\ nonce \notin DOMAIN delegations

\* An updateDelegationTx has CreateFixedDelegation alone.
UpdateLands(nonce, cap) == delegate /\ (nonce \in DOMAIN delegations => cap >= delegations[nonce])

CapAt(nonce) == IF nonce \in DOMAIN delegations THEN delegations[nonce] ELSE NoCap

-----------------------------------------------------------------------------

\* The server reads the accounts and decides; both may be stale when it acts.
Assess(s) ==
  /\ setup[s].action = "none"
  /\ LET state == [exists |-> delegate, cap |-> CapAt(NonceOf[s])] IN
       setup' = [setup EXCEPT ![s].action =
                   AssessMultiDelegateSetup(state, CapOf[s], s \in HasInit, s \in HasUpdate)]
  /\ UNCHANGED <<delegate, delegations>>

SubmitInit(s) ==
  /\ setup[s].action = "SubmitInit"
  /\ IF InitLands(NonceOf[s])
       THEN /\ InitMultiDelegate
            /\ CreateFixedDelegation(NonceOf[s], CapOf[s])
            /\ setup' = [setup EXCEPT ![s].action = "opened"]
       ELSE /\ setup' = [setup EXCEPT ![s].action = "refused"]
            /\ UNCHANGED <<delegate, delegations>>

SubmitUpdate(s) ==
  /\ setup[s].action = "SubmitUpdate"
  /\ \/ /\ UpdateLands(NonceOf[s], CapOf[s])
        /\ CreateFixedDelegation(NonceOf[s], CapOf[s])
        /\ setup' = [setup EXCEPT ![s].action = "opened"]
     \/ /\ NonceOf[s] \in DOMAIN delegations
        /\ setup' = [setup EXCEPT ![s].action = "refused"]
        /\ UNCHANGED delegations
  /\ UNCHANGED delegate

OpenAtOnce(s) ==
  /\ setup[s].action \in {"AlreadySufficient", "MissingPayload"}
  /\ setup' = [setup EXCEPT ![s].action =
                 IF @ = "AlreadySufficient" THEN "opened" ELSE "refused"]
  /\ UNCHANGED <<delegate, delegations>>

\* A client whose open was refused comes back.
Retry(s) ==
  /\ setup[s].action = "refused" /\ setup[s].retries = 0
  /\ setup' = [setup EXCEPT ![s] = [action |-> "none", retries |-> 1]]
  /\ UNCHANGED <<delegate, delegations>>

DelegateInit ==
  /\ delegate \in BOOLEAN
  /\ delegations = << >>
  /\ setup = [s \in Setups |-> [action |-> "none", retries |-> 0]]

DelegateNext ==
  \E s \in Setups :
    Assess(s) \/ SubmitInit(s) \/ SubmitUpdate(s) \/ OpenAtOnce(s) \/ Retry(s)

DelegateSpec == DelegateInit /\ [][DelegateNext]_delegateVars

-----------------------------------------------------------------------------

\* A session opens only over a delegation that covers it, even when another
\* session of the same client changed the accounts between the server's reading
\* them and its transaction's landing.
OpenedIsCovered ==
  \A s \in Setups :
    setup[s].action = "opened" =>
      delegate /\ CapAt(NonceOf[s]) # NoCap /\ CapAt(NonceOf[s]) >= CapOf[s]

=============================================================================
