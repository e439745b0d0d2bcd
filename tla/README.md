# A TLA+ model of the Solana MPP SDK

The SDK lets an HTTP server ask for a payment with a 402 response and lets a
client answer with a Solana payment. There are two intents:

* **charge**: one payment for one response. The server issues an HMAC-bound
  challenge. The client answers with a signed transaction, which the server
  broadcasts ("pull"), or with the signature of a transaction it sent itself
  ("push"). The server settles and verifies the payment on the ledger and returns
  a receipt. The servers in Rust, Go, Python, TypeScript and Lua are independent
  implementations, and each orders these steps differently.
* **session**: pay as you go. A channel is opened with a deposit, and the client
  signs vouchers whose amount is cumulative. The server keeps the highest one and
  settles it when the session is closed. Only the Rust SDK has the server side.

Both intents are concurrent programs around a key-value store and a remote
ledger, and what can go wrong in them is a matter of ordering. The modules keep
every guard, early return and store access in the code's order. They abstract the
data: a signature is the record of what it signs, a challenge id is the record of
the fields its HMAC covers, and a transaction is the list of what it does.

## Inventory

| Part | State | Operations | Hard because | What makes it correct |
|---|---|---|---|---|
| Session server (`rust/src/server/session.rs`) on a `ChannelStore` (`rust/src/store.rs`) | one `ChannelState` per session id: signer, deposit, watermark, highest voucher, close and finalize marks, pending and committed deliveries | `process_open`, `verify_voucher`, `process_topup`, `begin_delivery`, `process_commit`, `process_close`, `finalize_params`, `mark_finalized` | checks are made on a snapshot and the write comes after an await; retries; a close races with vouchers in flight; u64 arithmetic | what was acknowledged is what settlement redeems; a delivery is paid once; a closed channel is frozen |
| Session client (`rust/src/client/session.rs`, `session_consumer.rs`) | the client's watermark and expiry | open, sign an increment, accept a directive, prepare, commit, record, top up, close | a lost reply says nothing about what the server did; requests are repeated and reordered | never ahead of the server; a retry replays; served deliveries get paid |
| Streams (`rust/src/client/http_stream.rs`) | line buffer, current event, directive, final usage, pending messages | read a chunk, next message, ack, commit | chunks end anywhere; events of other deliveries; the stream breaks off | messages once and in order; the commit is for what was used |
| Payment channels (`rust/src/client/payment_channels.rs`, `server/session.rs`, `program/*.rs`, `rust/payment_channels_client/`, `client/multi_delegate.rs`) | the channel account, the server's record, delegations on chain | derive, build and recognise the open; top up, settle, finalize, distribute, close, withdraw; assess and submit delegations | the payload and the transaction are written by the client; the payer may close alone; several set-ups race | what a server whose host looks at the chain recorded is what the chain holds, and can be cashed |
| Charge servers (`rust/src/server/charge.rs`, `go/server/server.go`, `python/.../server/mpp.py`, `typescript/.../server/Charge.ts`, `lua/mpp/server/init.lua`) | the consumed-signature store; nothing about challenges | issue a challenge, verify a credential (pull or push), settle, consume | concurrent requests with one payment; RPC replies lost or late; crash or failure between reserving a key and the receipt; polling | a payment buys at most one receipt, only after it landed and only for the route's price; a failed request does not burn it unless the store fails too; requests end |
| Charge client and instruction verifiers (`rust/src/client/charge.rs`, the verifiers in `rust/src/server/charge.rs`) | none | select a challenge, build the transaction; verify before broadcast (pull) and as landed (push) | splits, duplicates, memos, sponsors, token accounts; two verifiers of one rule | client and verifiers agree; what is accepted pays everyone what is owed |
| HTTP exchange (`protocol/core/headers.rs`, `challenge.rs`, `server/axum.rs`, the interop server and client in `bin/`, `examples/payment_link_server.rs`), amounts (`protocol/intents/mod.rs`, `protocol/intents/charge.rs`) | the server's key; the client's wallet | write, fold, split and parse headers; 402, credential, receipt; decimal prices to base units | quoting, folding by intermediaries, expiry, lost replies, rounding and width | headers arrive whole; sold at the price; a persistent client is served |
| TypeScript session client; the Go, Python and TypeScript middleware and clients; Lua and Python amounts; payment pages; demo | queues and timers in `SessionFetch.ts`; otherwise none | - | timers, re-open with commits in flight | not modelled |

Servers call the RPC node and the store, and clients call servers. The only state
that requests share is the store and the ledger. `PROJECT.json` lists the hazards
at their lines, with the property that covers each one or the reason none does.

## Modules

| Module | Models |
|---|---|
| `SessionServer` | the Rust session server over one channel |
| `SessionClient` | `EXTENDS SessionServer`: the Rust session client composed with it over a transport that loses, delays and repeats |
| `HttpStream` | the Rust client's metered response stream |
| `Redemption` | abstract specification of a charge server: a payment lands; a landed payment is honoured once |
| `ChargeWorld` | what the charge servers share: ledger, RPC node, clock, credentials, replay store, requests in flight, restarts, and the common properties |
| `RustCharge`, `GoCharge`, `PythonCharge`, `TypeScriptCharge`, `LuaCharge` | one server each, `EXTENDS ChargeWorld` |
| `ChargeServers` | Go, Lua, Python and TypeScript side by side (`INSTANCE`), held to one promise |
| `ChargeTransaction` | the Rust client's choice and construction of a transaction, and the server's two verifiers |
| `PaymentChannels`, `MultiDelegate` | session set-up and settlement against the on-chain programs |
| `PaymentHeaders`, `ChargeAmounts` | header and amount text as operators |
| `HttpGate` | the 402 exchange over them: three HTTP servers, intermediaries, a client |
| `MC...` | instances for TLC |
| `SessionProofs` | proofs about the session server, about its sums, and about client, transport and server together |
| `SessionSetupProofs` | proofs about `PaymentChannels` and `MultiDelegate` |
| `ChargeWorldProofs`, `RustChargeProofs`, `GoChargeProofs`, `ChargeServersProofs` | proofs about the charge servers |
| `ChargeTransactionProofs` | proofs about the choice of a challenge, the construction and the two verifiers |
| `HttpProofs` | proofs about prices, the 402 exchange and the metered stream |

### SessionServer and the code

The store holds one record per session id and each handler touches one id, so one channel is
modelled; `opens = 0` means it is not stored. A voucher carries the channel id it is bound
to, and its signature covers that id. `verify_voucher` and `process_commit` look up the
channel the voucher names (`Finds`), so a voucher of another channel is another record's
business. `process_close` looks up the payload's channel and never compares the two ids, so
there such a voucher is accepted. `ch` is `ChannelState` with the code's field names. A
handler that reads with `get_channel` and writes with `update_channel` is two actions of a
worker: `VerifyVoucherCheck` and `VerifyVoucherApply`, `ProcessCommitCheck` and
`ProcessCommitApply`. Anything may happen in between. `process_close` updates first and
reads the settlement parameters afterwards (`ProcessClose`, `ProcessCloseReply`). A closure
given to `update_channel` runs under the store's mutex and is one step. Handlers that return
early from the snapshot (`VerifyVoucherReplay`, `ProcessCommitReplay`) or make one store
access (`ProcessOpen`, `ProcessTopup`, `BeginDelivery`, `MarkFinalized`) are one action.
`acks`, `receipts` and `finals` record what clients and the host were told since the last
open. A refused request changes nothing and is not an action, unless it ends a request in
flight. u64 addition is modulo the constant `U64` in `begin_delivery`, where the code adds
without a check.

### SessionClient and the code

`session` is `ActiveSession` without its nonce, which no signature covers and no server
reads. `SessionConsumer` takes `&mut self`, so `call` holds at most one commit in flight.
`wire` keeps every request ever sent: one that is never handled was lost, one handled twice
was repeated, one handled after a later one was reordered. That goes for the open as well,
which the client sends once: handled again, it overwrites the record (`HandleOpen`).
`CommitReply` records the voucher, `CommitFails` reports an error and says nothing about the
server. `acked`, `doubt`, `strayed` and `increments` are history: deliveries acknowledged,
deliveries whose last commit failed, whether the application went on to other vouchers while
an outcome was in doubt, and what was signed directly. Server steps are the actions of
`SessionServer`, fed from `wire`.

### HttpStream and the code

Bytes are atoms (a field name, a piece of a value, half of a character, CR, LF), and
`ReadChunk(n)` takes any number of them. `buffer` and `current` are `SseDecoder`, `state` is
`MeteredStreamState`, `pending` the messages decoded but not returned. `Ack` drains the
stream and `Commit` posts the amount. The server's script of events is rendered to atoms by
`Render`, and the properties compare what the client made of them with the script.
`StreamAssumption` says what a script is: lines hold no line ends, an event says what its
kind stands for (whatever name and layout the server chose), only the last event may lack
its blank line, and where every event is well formed, usages are of the delivery announced
before them. An event of kind `bare` is a frame without data that `dispatch_current`
dispatches all the same, because it has an id, a retry time (`SetsField`) or a name that is
parsed as JSON; a frame with none of these is dropped or ignored and is of kind `other`. An
error that `next` returns leaves the stream usable, so a later `ack` may still succeed; an
error that `ack` meets ends it.

### The charge servers and the code

A request is a worker's `task`, whose `pc` names the RPC or store call it waits
for. Admission (`Verify...`, `Admits`, `FrameworkAdmits`) is one step because
the code awaits nothing there. Every later call is an action that may also fail:
a lost reply of `sendTransaction` leaves the transaction pending and the request
failed. With `RpcMayLag`, an RPC node may simulate and accept a transaction that
has already been processed. The servers differ in where the consumed key is taken:

| Server | Key | When |
|---|---|---|
| Rust | signature | `put_if_absent` after the payment was verified (`Consume`) |
| Go | signature | `PutIfAbsent` before broadcast or fetch (`Reserve`), deleted again on failure (`GiveUp`) |
| Python | first 64 characters of the transaction text as the client wrote it (pull) or the signature (push) | `put_if_absent` first, deleted in `except Exception` (`Raise`), kept on cancellation (`Cancel`) |
| TypeScript | signature | push: `get` first, `put` last; pull: `put` last and no `get` |
| Lua | the verifier's reference | `put_if_absent` after verification (`FinalizeVerification`) |

The `Store` is modelled as durable: `ServerRestart` loses requests and keeps keys. The
in-memory stores of the SDKs do not survive a restart, and with them replay protection lasts
as long as the process. An insertion may also report an error, and the key may be in the
store all the same (`StoreFails`): the request ends without a receipt, in Go and Python
before it took the payment on. `stranded` collects the keys of requests that died with their
process, were cancelled, or whose delete or insertion failed. A Python credential has a
`text`, the spelling of its transaction: the base64 decoder is lenient, so several texts
decode to one transaction, and each has a key of its own. In these modules, what a
transaction moves is one record (`PaysFor`); the instructions themselves are the subject of
`ChargeTransaction`.

### ChargeTransaction and the code

`Select` is `select_charge_challenge`, `Build` is `build_charge_transaction`: memos,
compute budget, splits, token accounts and payer, instruction by instruction. `Edit`
stands for another client that removes, repeats or adds instructions, changes the
payer or adds lookup tables. `Land` executes under the programs' rules and yields
the parsed instructions, inner ones included. `VerifyPreBroadcast` and
`VerifyOnChain` are the two verifiers. Both walk the expected transfers and memos in
order and mark the instructions they used (`MatchInOrder`); what is left over must
be on the allowlist.

### PaymentChannels, MultiDelegate and the code

`request`, `sent`, `record` and `chan` are the challenge, the open payload with its
transaction, the server's `ChannelState` and the channel account. Addresses are tuples of
their seeds, hashes and messages tuples of what they cover. `ClientOpens` and
`ServerOpenedClient` are the two openers, `AlterPayload` changes one field of the payload,
before the channel opens or after, and the open lands through the host
(`HostBroadcastsOpen`) or without it (`ClientBroadcastsOpen`). `ProcessOpen` and
`ProcessTopup` have the guards of the code and no others: a record may be made of any
payload, also where no channel is, may be overwritten, and may be told of a top-up that
never landed. The documentation leaves it to the host to look at the chain first; the
auxiliary variables `landed`, `verified` and `opens` remember which open created the
channel, whether the host did so for every open and top-up recorded, and how often a record
was made. Vouchers (`AcceptVoucher`), commits of reservations (`AcceptCommit`), the final
voucher, top-up, settlement, close, distribution and the payer's own way out follow. Each
instruction is built by the SDK's builder and judged by the program's rules (`Program...`),
which are external and taken from the generated client and its error codes. Here a handler
of the session server is one step; its interleavings are `SessionServer`'s subject. In
`MultiDelegate` set-ups assess the on-chain state, then submit, so an assessment may be
stale (`Assess`, `SubmitInit`, `SubmitUpdate`, `OpenAtOnce`, `Retry`).

### HttpGate and the code

Text that matters to parsing is a sequence of characters `C(x)`; a base64 body is one
opaque piece `V(x)` that decodes to what was encoded. `PaymentHeaders` writes
and reads `WWW-Authenticate`, `Authorization` and `Payment-Receipt`;
`ChargeAmounts` has `parse_units` and `parse_amount` on digits, points and signs.
`Handle` is the whole request handler of each front: the axum extractor, the interop
server and the payment-link server. The client's steps are `Request`, `Answer`,
`Present`, `ReceiveResource` and `Discard`. The surroundings are `Stray` (a credential
of another route, or damaged), `BroadcastFails` (the RPC node or the store reports an error for
a payment that may have landed), `LoseReply` and `Tick`. `Paths` are the sets of intermediaries
between server and client; a `via` says what it puts in front of and behind the challenge, and
`adds` the parameters a client will take for the challenge's own (`ReadOn`). Settlement is
one step here; its races belong to `RustCharge`.

## Runs

| Run | Shows |
|---|---|
| `session_channel` | the stored voucher is redeemable (`SettlementRedeemable`), except a final voucher bound to another channel; acknowledged amounts are covered by watermark and settlement (`AcknowledgedIsSettled`); no delivery paid twice (`DeliveriesPaidOnce`); retries get the recorded receipt (`ReceiptsMatchRecord`); vouchers alone stay in the deposit (`VouchersStayInDeposit`); reservations and exposure bounded (`ExposureBounded`); `WatermarkMonotone`; `ClosedIsFrozen`; `TypeOK` |
| `session_client` | while the open is handled once, the client's watermark is one the server stored (`NotAheadOfServer`) and a lost receipt can be fetched again (`RetryReplays`); retries never add up (`NeverOverauthorized`); what was served is paid or still reserved (`ServedIsPaidOrReserved`); payable deliveries are acknowledged in the end (`DeliveriesSettle`) |
| `sse_stream` | `MessagesAsSent`; the commit is for the usage reported, or the reservation (`CommitsWhatWasUsed`), of this delivery (`UsageOfThisDelivery`); only a chunk that cuts a character or a frame without data fails a well-formed stream (`OnlySplitsAndBareFramesFail`); `AckReturns` |
| `rust_charge` | honoured payments landed and cost what the route asks (`GrantsArePaid`); no key without a receipt but those of an insertion that reported an error, and those never buy one (`ConsumedIsHonoured`); `ImplementsRedemption`; every admitted request is answered (`RequestsAnswered`); with fee sponsorship; `TypeOK` |
| `charge_servers` | the same for Go, Lua, Python and TypeScript, with the reserving servers' form of `ConsumedIsHonoured`, and `DecidedIsAnswered` |
| `charge_transaction` | `ServerTakesClientTransaction`, `AcceptedPaysWhatIsOwed`, `PushTakesWhatPullTakes`, `PreferenceHonoured` |
| `payment_channels` | for a host that verified what it recorded, the record is what the chain holds (`RecordMatchesChannel`) and an accepted voucher can be cashed, but for commits past the deposit and final vouchers of another channel (`AcceptedVoucherSettles`); for any host, finalizing pays what was accepted (`FinalizedPaysAccepted`); a session opens over a delegation that covers it (`OpenedIsCovered`) |
| `http_exchange` | challenges arrive whole and in order, except where a parameter of another scheme stands behind one (`HeadersCarryChallenges`); `ServedAtPrice`, `RefusedIsNotCharged`, `ClientServed` |
| `session_deposit_cap` | violation of `DepositCap`: reserve, pay the deposit by voucher, commit the reservation |
| `session_signer` | violation of `StoredVoucherBySigner`: a voucher in flight across a second open |
| `python_two_forms` | violation of `HonouredOnce`: one payment as transaction and as signature |
| `ts_concurrent` | violation of `HonouredOnce`: both requests read before either writes |

The four violations are reported, with the lines they contradict, under "findings" in
`PROJECT.json`. In `charge_servers`, Python sees each payment in one form and one spelling
(`OneForm`), and TypeScript one request at a time and an RPC node that does not lag
(`OneAtATime`): those are the conditions under which the two keep the promise, and the
violation runs lift them. That the TypeScript pull path honours a payment once rests on the
RPC node refusing a transaction that was processed before, because that path never reads the
store.

**Limits the properties state.** Some disagreements are part of a
property instead of a finding, because no line of the repository denies them. A charge with an
empty memo, a sponsor without a key, or the client as its own sponsor is built by the
client and refused by the server (`Unpayable`). Push mode refuses a landed transaction
that created a token account, whose inner instructions are on no allowlist, and one
over a Token-2022 mint the SDK does not know when the challenge leaves the token
program open. A plus sign behind leading zeros passes as a price. A chunk that ends
inside a UTF-8 character fails the stream, and so does a frame with an id or a retry time
and no data (`http_stream.rs:119-135`), which readers of event streams ignore.

* *Final voucher of another channel.* `process_close` verifies the final voucher over the
  channel id it names itself and does not compare that id with the payload's
  (`session.rs:876-912`). The voucher it stores is then not redeemable for this channel, and
  has replaced one that was. `SettlementRedeemable` and `AcceptedVoucherSettles` name the case.
* *Commits past the deposit.* The watermark that `session_deposit_cap` takes past the
  deposit is one the program refuses to settle: the second case `AcceptedVoucherSettles` names.
* *The host's duty.* `process_topup` stores any deposit up to the cap, and `process_open` asks
  at most whether some signature is confirmed. The module documentation (`session.rs:17-21`)
  says so. What the record is worth therefore depends on the host (`verified`).
* *A repeated open* resets the server's watermark and reservations; the client is then ahead of
  it. `NotAheadOfServer`, `RetryReplays` and `DeliveriesSettle` are about sessions whose open
  is handled once; `NeverOverauthorized` holds either way.
* *Store errors* after an insertion burn a landed payment in every language, since the key
  refuses each retry (`charge.rs:547-551`).
* *Python's key* is text the client writes (`mpp.py:666`), decoded leniently (`:672`): one
  transaction in two spellings has two keys, as one payment in two forms has.
* *Folded challenges.* A challenge of another scheme behind a Payment challenge in one field
  belongs to its chunk (`headers.rs:80-125`): a parameter of the same name is a duplicate and
  loses the challenge (`:338-340`), another one is mixed into it.
* *Usage above the reservation* is not refused by the client, although
  `intents/session.rs:556-557` asks it of the reporting server.

Two more were met while reading and have no run of their own: `min_voucher_delta` is
compared with the snapshot only (`session.rs:525`; the documentation at `:423` states it of
every voucher), and the u64 sum in `begin_delivery` (`session.rs:629`) wraps in a release
build.

**Bounds.** Two workers are enough for a race between a check and a write, since
each race in the code is between one request's two accesses and one other
request. Two payments distinguish "this payment" from "another".

* `session_channel`: two workers, two signers, deposits, cumulatives and expiries 1-2, clock
  0-1, `MaxOpens` 2, `MaxSequence` 2. Amounts 1 and 2 give equal, lower and higher; the
  clock's two values put an expiry before or after each step. Besides the signed vouchers
  there are altered ones, ones of another channel, and such a one with this channel's id
  written into it.
* `session_client`: one worker and one key, since the races of the server's
  handlers are `session_channel`'s; deposits 1 and 3, `MaxSequence` 2,
  `MaxRequests` 3 different requests, the open among them (in push mode or as a delegation),
  each handled any number of times, the open up to `MaxOpens` 2.
* `sse_stream`: eleven scripts (the usual order; usage before its directive, behind the end marker,
  of another delivery, or zero; garbled data; no directive; no final blank line; frames with an
  id, a retry time or a name and no data), both line ends, and every way to cut them into chunks.
* `rust_charge`, `charge_servers`: two workers, two payments, four challenges (two of them
  not the server's), in `charge_servers` two spellings of a transaction, `MaxTime` 1,
  `PollAttempts` and `SimulationMaxAttempts` 2.
* `charge_transaction`: 26 charges and three lists of offers under twelve preferences, two
  ledgers, `MaxEdits` 2: one edit to break a transaction and one to compensate. `U64` is
  16, so that sums of splits wrap.
* `payment_channels`: deposits up to `MaxDeposit` 2 and payloads around a cap of 2, amounts 1 and 2,
  one alteration of a payload, `MaxOpens` 2 records, `MaxTime` 2 and a grace period of 1, so
  that a voucher may expire before, during and after it; three
  delegation set-ups, two of which share a nonce.
* `http_exchange`: `Decimals` 1, with `U64` 100 and `U128` 1000, so that two and three
  digits overflow them; three fronts and three realms that are hard to quote; three
  intermediaries on the clear path, which put other challenges in front of the server's and,
  with parameters a client does not read, behind it, and two on the spoilt one, which put a
  parameter the challenge has, and one it has not, right behind it; `MaxFaults` 2, so that a
  retry may itself fail; challenges of `Validity` 1 on a clock of `MaxTime` 1.

Workers are interchangeable in the session and Python runs (symmetry); the runs with
liveness use none. Deadlock is not checked: with clock, requests and amounts at their
bounds, a system with nothing left to do stops.

**Fairness.** `LiveSpec` of the charge servers asserts weak fairness of each request's
own steps: the async runtimes run what is ready, and an RPC call returns or fails.
Nothing is assumed of the ledger, of clients or of restarts. Outside Go every request
ends. Go's `WaitForConfirmation` loops until its caller's context is done, and a
caller may pass one that never is, so there only a request whose transaction has landed
or failed is promised an answer (`DecidedIsAnswered`); `ContextDone` gets no fairness.
`SessionFairness` makes the transport not hopeless: a commit that is sent again and
again is handled in the end, and so does a reply come back (strong fairness). It also
lets the server's handlers proceed, and the application retry a doubtful delivery before
it goes on, which is how `SessionConsumer` is meant to be used. `HttpStream` gives weak
fairness to what `ack` awaits. In `HttpGate` the client keeps at it; that is weak
fairness of `ClientStep`, written out because TLC cannot evaluate `ENABLED` of a step
that parses headers.

**External.** The ledger and RPC node, the payment-channels and multi-delegator
programs, the host around the session server, the mppx framework that authenticates
TypeScript challenges, and HTTP intermediaries are not in this repository. They are
modelled from how the code uses them and marked external in the map.

## Proofs

TLAPS checks the following for every value of the constants that satisfies the
named assumptions: any number of workers, signers, vouchers, payments, routes.
The assumptions give the constants their types and are evaluated by TLC on the
instances of the runs; the few that say more are named below. Each inductive
invariant also holds of a small instance under TLC.

**The session server** (`SessionProofs`, from `ConstantsAssumption`).
`TypeCorrect`, `SettlementTheorem`, `AcknowledgedTheorem`, `DeliveriesTheorem`,
`ReceiptsTheorem`, `DepositTheorem`, `MonotoneTheorem`, `FrozenTheorem`. The
invariants are not inductive alone. `IInv` adds `TaskInv` (what a handler's
first step established that still holds at its second: the voucher is signed
over its own data and this channel's id, and while the channel was opened once, by its signer and
within the deposit), `SequenceInv` (reservations are numbered below the
counter, and nothing is recorded before the first) and `FinalsInv` (only a
closed channel has handed out settlement parameters). One lemma per action
shows that `IInv` is preserved.

**Its reservations** (`SessionProofs`). `ExposureTheorem` states
`NoWrap => (Spec => []ExposureBounded)`: what is reserved fits the deposit, and what
is owed and reserved fits it twice. `NoWrap` says that twice the largest deposit plus
one delivery's amount is below `U64`, the model's 2^64. The comparison in `begin_delivery`
(`session.rs:629`) needs such a condition, because its sum is not checked and wraps
beyond 2^64. The totals are folds over sets. The provers cannot instantiate the
library's induction theorems, whose hypothesis is an operator, so the lemmas about
totals go by the smallest counterexample in a set of numbers (`NatSets`), which is
first-order. `ExposureInv` adds that the pending deliveries are finite and the
deposit within the cap.

**Client, transport and server together** (`SessionProofs`, from `ClientAssumption` and
`OpeningsAssumption`). `SessionRefinement` proves that the composition implements the
server's specification: every step of the client or of the transport is a step of a server
handler or invisible to it. All the theorems above therefore hold of the composition. On top
of that: `NotAheadTheorem` and `RetryTheorem` for sessions whose open is handled once, and,
however often it is handled, `OverauthorizedTheorem` and `ServedTheorem` (its part about
payment in full again for one open). The inductive invariant `ClientInv` adds to the
properties what they silently rest on: `Books` (a commit on the wire is for a delivery that
is acknowledged, in doubt or being committed), `OneAtATime` (while the application resolves
one delivery before the next, a commit without a receipt carries the voucher a retry would
sign now), `FromTheWire` (a commit that a handler works on or the server recorded was sent,
and, while the open is handled once, a reply answers one the server recorded) and
`Authorized` (the client's watermark is at most what it acknowledged and signed directly).
`ServedInv` adds that without direct vouchers only commits move the server's watermark, and
that the server, if opened once, is then at most one commit in doubt ahead of the client.
The proof first classifies the steps by their effect on client and server, and then has one
lemma per conjunct. `ClientAssumption` also says that every amount a delivery may ask for
fits u64, as its type does.

**Session set-up and settlement** (`SessionSetupProofs`, from `ChannelAssumption` and
`DelegateAssumption`). `RecordTheorem`, `SettlesTheorem`, `FinalizedTheorem`,
`CoveredTheorem`. The first two are about a server whose host verified what it recorded,
`FinalizedTheorem` about any server that opened the channel once. `ChannelInv` ties the
account to the open that created it, if that was the expected one (`OpenedIsLanded`,
`LandedIsOpen`, `ChannelMatchesPayload`), the stored voucher to the message its signature
covers (`StoredVoucherSigned`: the channel in it is the record's unless a close brought it),
and what was settled to what was recorded (`SettledWithinRecord`, `UnrecordedIsUnsettled`,
`FinalizedByPayee`). `DelegateInv` says that a delegation found sufficient stays so until
the session opens.

**The Rust charge server** (`RustChargeProofs`, from `WorldAssumption` and
`AttemptsAssumption`). `RustTypes`, `RustGrantsTheorem`, `RustConsumedTheorem`, and
`RustRefinement`, which shows that the Rust server implements `Redemption`.
`RequestOK` records what a request has established at its stage: the pinned fields,
that the payment matches once checked, and that it landed once confirmed.
`RustConsumedTheorem` says that the store holds the keys that bought a receipt (`Spent`) and
those whose insertion reported an error, and that these two sets stay apart.

**The Go charge server alone** (`GoChargeProofs`, from `WorldAssumption`).
`GoGrantsTheorem`, `GoConsumedTheorem`, `GoRefinement`. `RequestOK` here says that a
running request owns its reserved key and that its payment is not honoured yet;
`SpentStaysReserved` says that what bought a receipt is never released.

**Go, Lua, Python and TypeScript side by side** (`ChargeServersProofs`, from
`WorldAssumption` and `ServersAssumption`). `ServersGrantsTheorem`, `ServersConsumedTheorem`
and `ServersRefinement`, for whichever server is deployed. One lemma per server shows that
each of its steps is one of a few effects on the common state (`Starts`, `MovesOn`, `Fails`,
`Honours`, `LosesKey`, `Dies`, or a step of the world), and one lemma per effect shows that
it keeps `IInv`. The invariant says when a request may still buy a receipt (`Guarded`): its
key is reserved (Go, Python), or it passed the check that its payment is unspent and runs
alone (TypeScript). Lua needs neither, because `put_if_absent` decides at the end.
`ServersAssumption` is where the limits of the run enter: `OneForm` presents each payment in
one form, spelt one way, and the TypeScript framework's request for a route has the server's
currency and recipient, as `charge.request` builds it, and the price the route is expected
to have. That TypeScript takes one request at a time and its node does not lag is in
`ChargeServers!Deployed`. The runs `python_two_forms` and `ts_concurrent` show that neither
limit can be dropped.

`ChargeWorldProofs` holds the lemmas that all charge servers use.

**Charge transactions** (`ChargeTransactionProofs`, from `TransactionAssumption` and
`OffersAssumption`). All four invariants of the run are proved, for every list of
challenges, splits, memos, instructions, edits and every `U64`: `PreferenceHonouredHolds`,
`AcceptedPaysWhatIsOwedHolds`, `PushTakesWhatPullTakesHolds` and
`ServerTakesClientTransactionHolds`. The assumptions say that an amount which parses
fits u64, that challenges and splits come in lists, that a program belongs to one kind,
and that an absent memo is neither a wallet nor an empty or overlong text. The state
needs little strengthening: `ChoiceInv` (the charge is the choice among the offer),
`TransactionInv` (a transaction has the form the verifier reads), `LandedInv` (what landed
is what was sent, possibly with inner instructions, and ran under the programs' rules)
and `BuiltInv` (until somebody edits it, the transaction is the one the client built).
The work is in the operators, all of which are folds over lists.

* *Folds.* Lemmas such as `PrefixFold`, `BuiltSteps` and `MemoSteps` turn a fold into a
  sequence of partial results with one equation per step; statements about it go by the
  smallest counterexample (`NatSets`), as for the sums of the session server.
* *The choice* is the least pair of currency and position (`LeastPair`), so a preference
  that any challenge could meet is met.
* *What an accepted transaction pays.* `MatchInOrder` gives each expected transfer an
  instruction of its own. What is left over is on the allowlist and moves nothing. The
  total to a wallet is therefore the sum of what it is owed, and the sums do not wrap
  because the verifier checks them.
* *Push and pull.* A landed instruction that ran is judged alike by both verifiers,
  except for the two limits that the property names.
* *What the client builds* is laid out by induction over the splits: `Laid` says at which
  places transfers, account creations and memos stand, and that every instruction is one
  of these. Matching is greedy, so it must be shown that no demand takes another's
  place: a demand may be satisfied by the transfer of an equal one, but then the
  first free place is its own (`Standing`, `MatchTakesPlaces`). Memos go the same
  way, behind their transfers (`Thinned`). The three kinds of `Unpayable` charges are
  shown to be refused, so that the property is an equivalence.

**The 402 exchange** (`HttpProofs`, from `GateAssumption`). `GateInvariance`,
`RefusedTheorem` and `ServedAtPriceTheorem`, for every price text, every number of
decimals and any widths `U64 <= U128`. `GateInv` adds to the properties what the client
can send (`WalletInv`) and what each response was sold for (`ServedInv`): the amount the
server wrote into its challenge. That this amount is the price, read as a decimal numeral, is
a statement about text. `parse_units` and `parse_amount` scan digits and may wrap or
fail; the reference `UnitsOf` is a sum of digits times powers of ten. The proof follows the running
value of the digits read so far, and shows what padding with zeros and dropping the point do to
it.

**The metered stream** (`HttpProofs`, from `StreamAssumption`). `MessagesAsSentTheorem`,
`CommitsWhatWasUsedTheorem`, `OnlySplitsAndBareFramesFailTheorem` and
`UsageOfThisDeliveryTheorem`, for every script, layout, line end and way to cut the
bytes into chunks. `StreamInv` says that a stream that has not failed is `Midway` or has
`Ended`: there are atoms `before` the rest which together are what the server rendered,
`buffer`, `current` and the events dispatched are what the decoder makes of `before`, and
`state` and the messages are what `apply_event` makes of those events. None of
`before` is kept in the program, so the invariant has to bring it back (`Follows`).
`PaidIsOwed` ties a receipt to the state.

* *Decoding* is a relation along the atoms (`Runs`) instead of a fold, so that reading
  two chunks is reading their concatenation (`RunsOn`) and where they are cut does not
  matter.
* *What is decoded.* The decoder takes a rendered event back to the event it renders,
  for either line end and any number of data lines. The events dispatched midway are
  therefore those of some first events of the script.
* *What is understood.* What `apply_event` makes of those events is the messages, the last
  directive and the last usage of the same part of the script, and `Paired` says that
  a usage that came behind its directive was compared with it (`apply_event` does not
  compare one that came before).
* `UsageOfThisDelivery` is proved as long as nothing failed. After an error the stream
  may go on with pieces of different events in one buffer, of which the JSON reader may
  make anything; there the property stays with TLC.

**Only model-checked.**

* Every liveness property: `DeliveriesSettle`, `AckReturns`, `RequestsAnswered`,
  `DecidedIsAnswered`, `ClientServed`. Fairness is out of the prover's reach.
* `HttpStream!UsageOfThisDelivery` after a read has failed, as said above.
* `HttpGate!HeadersCarryChallenges`: that every text in quotes survives writing,
  folding, splitting and parsing, and what is spoilt is what `ReadOn` says, an induction over the
  states of two scanners at once.
* The four violations, which are counterexamples.

## Not modelled, and why

* The TypeScript session client (`SessionFetch.ts`, `SessionUsageMeter`): a usage queue
  with timers and a re-open path, a component of its own beside `SessionClient`.
* The Go, Python and TypeScript clients and HTTP middleware, and the instruction
  verifiers of those languages, which restate the Rust ones over other libraries; the
  charge-server modules abstract them to `PaysFor`.
* Lua's decimal-string arithmetic and Python's amount parser.
* Byte layouts (base58, base64url, canonical JSON, Borsh) and the MAC itself.
* Payment pages, service worker, demo and examples: presentation, or uses of the SDK.
* A host's own `verify_payment` in Lua is arbitrary code.

## Plan

1. Done: the session server and client, streams, payment channels, the five charge
   servers, charge transactions, the HTTP exchange; proofs for the session server, its
   sums, client and server together, session set-up, the five charge servers, charge
   transactions, the exchange and streams. No module declares a `RECURSIVE` operator, so each
   can be proved about.
2. A proof of `HttpGate!HeadersCarryChallenges`.
3. TypeScript `SessionFetch` and `SessionUsageMeter`: commit queue, trailing timer
   and close.
4. Lua's `uint` arithmetic and Python's amounts against `UnitsOf`.
