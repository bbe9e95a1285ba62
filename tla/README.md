# A TLA+ model of the P2P.me SDK

`p2pdotme-sdk` is a client library for a peer-to-peer fiat/USDC exchange. It
keeps almost no state of its own: orders live in the *Diamond* contract, reads
come from the chain and from a subgraph that lags it, and what the SDK itself
adds is the way the promises, timers, callbacks and retries of a page
interleave with each other and with the outside, and the texts (payment ids, QR
codes) that one user stores and another pays by. Both are modelled here.

Contents: [inventory](#inventory), [modules](#modules), [runs](#runs),
[fairness](#fairness), [proofs](#proofs), [disagreements](#disagreements),
[what is not modelled](#what-is-not-modelled), [plan](#plan).
Paths below are relative to `src/src/` of the repository.

## Inventory

Everything runs in one JavaScript event loop per page. Code between two
`await`s (or two neverthrow continuations) is atomic; at each of them anything
else may run. Several pages, wallets, the chain, the subgraph and the services
run beside it.

| Component | State it keeps | Operations | Used by / talks to | What is hard | What makes it correct |
|---|---|---|---|---|---|
| Relay identity (`orders/relay-identity`) | `pending` (store object -> promise), the persisted entry | `resolveRelayIdentity`, the two stores | `placeOrder`, `setSellOrderUpiWithFiat`; localStorage | parallel resolutions, a `set` that fails after it took effect, restarts, damaged payloads | a key pair once handed out stays the one that is stored |
| Circle routing (`orders/internal/routing`) | the pool, attempts left | `selectCircle` | `placeOrder`; subgraph, Diamond | a retry loop over a shrinking pool, reads that fail | it answers with an accepted circle, or gives up only when refused; no circle twice |
| Subgraph client (`lib/subgraph.ts`) | attempt, timer | `querySubgraph` | routing, order reads | outages, timeouts that cover the body, pauses | bounded time, short outages are not seen, refusals are final |
| Write actions (`orders/actions`, `stake/actions`, `orders/tx.ts`, `stake/tx.ts`) | none | `prepare`, `execute` of twelve actions | wallet, chain | identity and circle in parallel, ambiguous failures | an error code says the truth about the transaction |
| SELL/PAY life cycle (`orders/README.md`, `approveUsdc`, `getOrder`, `setSellOrderUpiWithFiat`) | none; the Diamond and the allowance | the documented sequence | Diamond, USDC | overlapping orders, fee changes, torn reads, bundled receipts | the hand-off is funded; the reported id is one's own |
| Order reads (`orders/client.ts`, `orders/subgraph`, `orders/normalize.ts`) | none | `getOrder`, `getOrders`, `getPlacementLimits` | subgraph, Diamond | pages that shift, rows that fail a page, caps and day keys, the lag | a list is whole, limits speak for the contract |
| Placement limits hook (`react/use-placement-limits.ts`) | limits, error, `requestIdRef`, timers | refresh, poll, midnight | order reads | late answers, another wallet, effects after renders, a refresh kept from an older render, UTC rollover | one's own counts, never older, not yesterday's |
| Order events (`orders/watch-events.ts`, `react/use-watch-orders.ts`) | five watchers, callback refs | subscribe, clean up | viem, provider | re-subscription, effects after renders, callbacks that throw | every event, once, in order, to its user |
| React provider (`react/sdk-provider.tsx`) | memoised modules | render | all modules | object identity of dependencies | a render changes nothing |
| Fraud engine (`fraud-engine/client.ts`) | per-call closure | `processBuyOrder`, `checkBuyOrder`, `linkOrder`, `init`, `logFingerprint` | backend, the page's callback | fail-open, un-awaited link, overlap | a heard rejection stops the order, links join one call |
| Fingerprint (`fraud-engine/fingerprint.ts`, `fraud-engine/react/use-fingerprint.ts`) | a page-wide agent and result | load, read, the hook's runs | FingerprintJS, fraud engine | readers that share one cache, a timer that races a read, `enabled` changing during either | the hook shows its newest run, its spinner stops |
| Reclaim flow (`zkkyc/orchestrators/reclaim.ts`) | `aborted`, the loop | start, abort | Reclaim | endless polling, abort in flight | patient until a proof is out of reach, quiet after abort, ends |
| ZK Passport flow (`zkkyc/orchestrators/zk-passport.ts`) | proof, `aborted`, the result promise | six callbacks, abort | phone | callbacks after abort, uncaught errors | success is earned, an answer settles |
| Hosted sessions (`zkkyc/orchestrators/{simple-kyc,liveness,bvn}.ts`) | none; tokens and one-time codes at the service | create, resume; five BVN steps | services | overlapping calls, an answer lost after the code was spent, dead tokens | what was spent is held, a restart is asked for only when nothing else helps |
| Verification on chain (`zkkyc/client.ts`, `contracts/reputation-manager/writes.ts`) | none | five `prepare...` | the flows above; the contract | three attestations of one shape | what goes on chain was earned and goes to the function that judges it |
| Country catalogue (`country/`) | tables, stored ids | fields, validators, pack/unpack, display, PAY payload of 17 currencies | seller's form, buyer's app | positional ids, separators that are also empty fields, older formats, twin functions | accepted exactly when complete; saving and opening loses nothing |
| QR parsers and validator (`qr-parsers/`, `country/qr-validator.ts`) | none | twelve parsers, TLV, two CRC-16, amounts | scanner, form | checksums, boundaries, a proxy that may not answer | the amount is the one asked for, a misread is refused |
| Prices, profile, stake reads, `contracts/*` | none | single reads, encoding | chain | - | not modelled |
| ABIs, error tables, validation, logging, cryptography | none | tables, schemas | - | - | not modelled |

The hazards of this code, each at its line, are in `PROJECT.json`, with the
properties that cover it or the reason why none does.

## Modules

An app has four places, each a composition whose parts have modules of their
own; a place follows one part per behaviour, since the parts share no state.
`Payments` extends its two parts, the others instantiate theirs.

| Composition | Parts | Chosen by |
|---|---|---|
| `OrdersClient` | `SellOrders`, `OrderReads` (list, form) | `screen` |
| `AppPage` | `PlacementLimitsHook`, `WatchOrders`, `FraudEngine`, `Fingerprint` | `feature` |
| `Verification` | `ReclaimFlow`, `ZkPassportFlow`, `HostedSession`, then on chain | `method` |
| `Payments` | `PaymentPage` (over `PaymentIds`, `QrCodes`, `Countries`), `EmvCode` | `screen` |
| `OrderRouter` | `SubgraphQuery`, then `CircleRouting`: a real composition, the one starts the other | - |

| Module | Models | State and actions |
|---|---|---|
| `RelayIdentity` | `relay-identity/resolve.ts`, `stores.ts` | `entry` is what is persisted, `flight` the promise `pending` holds for a store object, `call` the callers. One action per stretch between awaits: `Resolve` joins or starts a flight, `Found` / `FoundCorrupt` / `Mint` / `GetThrows` are the continuations of `store.get`, `SetReturns` / `SetThrows` of `store.set` (either may follow a write that took effect), `Settle` is `finally` and the callers' continuation. `Restart` and `Damage` are the environment. |
| `IdentityCell` | what `resolve.ts:63-70` promises | The abstract specification: a cell per entry, filled at most once; each answer is its content. `RelayIdentity!ImplementsCell` is the refinement. |
| `CircleRouting` | `routing/routing.ts`, `routing/subgraph/index.ts` | `circles` is what the subgraph answered, one of `Lists`. `attempt`'s recursion with `remaining` and `attemptsLeft`; `verdict` remembers what the chain said. `selectCircle` is an operator: the set of circles some draw can return, from the three branches and the weights in exact integers (percent for `Math.random()`, tenths for scores). |
| `SubgraphQuery` | `lib/subgraph.ts` | `fetchWithRetry` over a clock of ticks. `Catch` is the catch of the loop, `TimesOut` the AbortController, `Tick` lets time pass only until a timer is due; `up`, `upSince`, `steady` are the subgraph's. |
| `OrderRouter` | `routing/client.ts` | Composes the two: the query runs, then its result or error starts the selection. |
| `OrderCalls` | all `execute()`s of orders and stake | A call is an intent and its try number. `stage` is where its promise chain stands, `circle` the parallel selection, `chain` the transaction's real fate, which `error` may hide. Wallet and chain are external: `Broadcast` and `Mined` also happen to transactions the SDK has given up. |
| `SellOrders` | the SELL/PAY recipe of `orders/README.md` | The application's steps over `placeOrder`, `getOrder` (one multicall or two reads), `approveUsdc`, `setSellOrderUpiWithFiat`; transactions are mined in nonce order against the Diamond and an ERC-20 allowance, both external. `Accounts` says how a placement gets on chain: alone, bundled with another user's, or bundled and under an address that is not the wallet's (`"behind"`, `Sender`); so a receipt holds the own event, another user's before or after it, or only the other's. |
| `OrderReads` | `orders/subgraph/index.ts`, `normalize.ts` | `ledger` is the chain (orders and caps set), `indexed` how much of it the subgraph has. `ReadPage` asks for one page by `skip` (the orders of the ranks it holds, newest first: `Newer` is the order of rows, `Nth` the one of a rank), and fails as a whole on a row of an unknown type; `ReadQuota` reads the caps and the user's counts for the caller's day. |
| `PlacementLimitsHook` | `react/use-placement-limits.ts` | A request carries whether it is still the newest (`requestId`). A render and its effects are two steps: `effects` says which of the last render's are still to run (`InputsChange` then `InputsEffects`; counts that are shown, then `ShownEffect`), and until then the hook returns what it had. `armed` is the user whose `refresh` the timers hold, `handed` those whose `refresh` the page was given and may call later (`RefreshCalled`). Days are relative: counts have an age, and the first second of a day is told apart because the timer is set one second late. |
| `WatchOrders` | `react/use-watch-orders.ts`, `orders/watch-events.ts`, the memo of `sdk-provider.tsx` | `Render` changes the refs, `Effect` the subscription; each watcher has its own place in the chain and takes a batch of the log (`Poll`), which is delivered in order (`InOrder`) and which the page's `onEvent` may cut short. |
| `FraudEngine` | `fraud-engine/client.ts` | One record per call of stage, decision heard, decision made, and order; link requests fly on their own. |
| `Fingerprint` | `fraud-engine/fingerprint.ts`, `react/use-fingerprint.ts`, `init` and `logFingerprint` of the client | `agent` and `cachedResult` are the module's variables, `reading` the place of each reader in `getFingerprint`: loading the agent, about to ask, in the race of the read and its timer, sending. `run` is the hook's newest effect run, `cancelled` those whose clean-up has run. |
| `ReclaimFlow`, `ZkPassportFlow` | the two orchestrators | The polling loop with abort and signal; the six callbacks on one promise, which the caller's `onStatus` may throw out of (`lost`: out of the answer's). |
| `HostedSession` | `simple-kyc.ts`, `liveness.ts`, `bvn.ts` | `stage` is what the service knows of each session, `holds` what the page kept, `call` the requests on their way with their answers. `Serve`, `Refuse`, `RejectToken` are the service, `Hear` the SDK's reading of an answer and the page's next step, `Lose` a request or an answer that never arrives, `Reload` and `WizardReturns` the page. |
| `Verification` | a page with any of the flows, and what it encodes | Runs the flow chosen at the start; `Prepare` is the client's `prepare...`, from the schema to the contract function (`Function`). |
| `Countries` | `country/currencies/*.ts` | A text is its shape (`form`), its digits and its length. The 17 field tables, every rule, and the options as records of functions of the currency. |
| `PaymentIds` | `country/validators.ts`, and the older functions of `pen.ts`, `ven.ts`, `idr.ts` | A stored id is the sequence of the texts between its `\|`, so the separator `\|\|` is an empty text inside, exactly the ambiguity the code has to resolve (`Gaps` are the places of such texts). Tokens in no position are given to fields one after the other by a recursive function (`Claim`). |
| `QrCodes` | `qr-parsers/parsers/*.ts`, `qr-parser.ts`, `qr-validator.ts` | Codes in outline: which tags are there and what is at the checksum. Each parser returns a success with an address and a *set* of possible amounts (none or one; the proxy's answer for PIX), or its error code. |
| `PaymentPage` | a form, and a scanner | Fill in, upload, save, open again, open an id of an earlier version; scan, read, place a PAY order. Four assumptions say what texts there are: ids are sequences of texts; in Bolivia and Venezuela a code is uploaded, never typed, and stands first in an id of an earlier version; a phone in a Cuban code is digits; an Indonesian id is a number, or a provider and a number. `OldIdsAreWellLaid` says more of an id of an earlier version, that it is laid out as one of the forms laid it out; one theorem needs it, and TLC evaluates it of the run's ids. |
| `EmvCode` | `qr-parsers/utils/{crc16,tlv}.ts`, `country/qr-validator.ts` | The two CRC-16 on 16-bit registers (a byte is mixed in by `Mix`, shifted by `EightTimes`, a text `Fed` byte by byte), the walk over the tags, and both checks, character by character (`...Text`: what `QrCodes` has of the same names is over outlines); a code is printed object by object and then read right, with one character wrong, or cut off. |
| `MC*` | - | Values of constants for TLC. |
| `*Proofs` | - | Theorems, see [proofs](#proofs). |

Errors keep the SDK's codes; messages, logging, calldata, encryption and the
wording of contexts are data and left out. In every module operators called
`Mut...` are *mutants*: a definition with a plausible bug, used to show that
the property next to it notices (`PROJECT.json`, "mutants"). No action uses one.

## Runs

`tlc -config <run>.cfg <module>`; seven pass and five show a disagreement.

| Run | Module | Distinct states | Shows |
|---|---|---|---|
| `identity_one_object` | MCRelayIdentity | 29 k | Three callers share one durable store object (one of them was given an identity), a fourth uses an in-memory store; stores fail, pages restart, a payload is damaged. |
| `order_router` | MCOrderRouter | 721 078 | Seven circles (two active, one bootstrap above the weight cap, one paused, one of score 0, one of another currency, one without merchants), or lists with three, two and none that are eligible, three attempts, every chain answer; the query before it with every outage and reply. |
| `order_calls` | MCOrderCalls | 121 k | A placement that waits for its receipt, a hand-off with a wallet that is not connected, a claim that does not wait; two tries each. |
| `orders_client` | OrdersClient | 3.5 M | Two SELL orders made one after the other, or with an unlimited approval, under a changing fee, with another user's placement in the same receipt, under the wallet's address or another, with and without multicall; the user's list, page by page, over a lagging subgraph while orders arrive; the limits over changing caps and midnight. |
| `app_page` | AppPage | 115 k | Two wallets and none, with and without polling, across midnights, with effects that run late and a `refresh` kept from an older render; two kinds of events, two owners, a page that shows its user or everyone; two `processBuyOrder` calls and one by `checkBuyOrder` and `linkOrder`; the fingerprint hook's effect run twice beside a log and a preload. |
| `verification` | Verification | 339 k | Reclaim with `start()` twice; ZK Passport with one flow aborted for the next; hosted sessions with two calls at once; each taken on chain. |
| `payments` | MCPayments | 11 k | Drafts of every mix of right, wrong and neighbouring texts in each of 17 currencies, saved and opened again, older ids opened and saved, every shape of code scanned and stored; codes of up to three objects against both checksum checks. |
| `limits_midnight` | PlacementLimitsHook | violation | A request in flight at midnight. |
| `sell_two_orders` | SellOrders | violation | The documented recipe with two orders open. |
| `watch_inline_store` | WatchOrders | violation | The provider as `architecture.md` shows it. |
| `zkpassport_abort` | ZkPassportFlow | violation | The result after `abort()`. |
| `payments_6304` | MCPayments | violation | A genuine code whose checksum is 6304, on upload. |

What the passing runs establish, property by property, is said above each
property in its module. The properties relate two pieces of state or two
moments: an answer and the entry it came from (`ResolvedIsPersisted`), an error
code and the real transaction (`HonestErrors`), two tries of one intent
(`OneEffect`), a reported circle and all the chain has said
(`AnswerIsAccepted`), an outage and the attempts (`RidesOutOutage`), the rows
read and what the subgraph had at the first page (`ListIsWhole`), the limits
shown and what the contract would say (`QuotaSpeaksForContract`), a rejection
and what was heard of it (`RejectionStops`), a spent code and the page
(`SpentIsHeld`), a draft as a form and as a string (`AcceptsExactly`), a form
before and after it was stored (`SavedComesBack`, `ReloadKeepsAccepted`), two
implementations of one rule (`TwinsAgree`, `ChecksumsAgree`).

### Bounds, and why they are enough

* `RelayIdentity`: two callers race, a third comes after; as many key pairs as
  callers may mint. The proofs lift the bound.
* `OrderRouter`: `MaxAttempts` is the code's 3, and the subgraph lists five
  eligible circles (the attempts run out first), two (the circles do), three
  (the last attempt meets the last circle) or none; each branch of
  `selectCircle` has circles of its own. `Timeout = 2` and `BACKOFF = 1` keep a timeout apart
  from the pause (in the code 10 s and 0.5 s; the proofs hold for all values).
  `SubgraphQuery` needs no bound on time, since time passes only until a timer
  is due.
* `OrderCalls`: `MaxTries = 2` is the least at which an intent can take effect
  twice; the proof is for any number.
* `SellOrders`: two orders are the least that share an allowance, `Fees` has
  two values so that a read may be of another fee, one foreign order may be
  bundled, before, behind or instead of an own one (`Accounts` = bundled and
  behind; alone is a bundle of which nobody makes use). `Unlimited` is larger than all that is pulled.
* `OrderReads`: `PageSize = 2` and `MaxLedger = 4` let a list have two pages
  and change between them; the caps 0 and 2 are the special value and one that
  orders can reach; `MaxDay = 1` is one midnight, with the caller's clock on
  either side of it.
* `PlacementLimitsHook`: `MaxMoves = 2` bounds only what the page does on its
  own (a render with other inputs, a refresh), the least in which a `refresh`
  of one render is called in another; polls, timers, answers, effects and days
  are not bounded. `MaxAge = 1` tells today from before, which is all that the
  hook (`msUntilReset <= 0`) and the properties of the run tell.
* `WatchOrders`: `MaxLog = 2` events give two of one kind or one of each,
  `MaxOrders = 1` one change of the `Orders` object.
* `FraudEngine`: two automatic calls, the least in which a link could join two
  calls, and a manual one.
* `Fingerprint`: two runs of the effect, the least in which an old run can
  answer a new one; one log and one preload fill the cache behind their backs.
* `Verification`: `Poll` has two `start()`s, `Flow` two flows, `Call` two
  overlapping requests, over two sessions, so that an answer of the old one
  can come while the page holds the new one. The proofs lift these bounds.
* `Payments`: for every rule a text it accepts, one it refuses and ones that
  pass a neighbour's rule; `MaxObjects = 3` with an object that contains `6304`
  and two that were found by search to make the checksum 6304; a wrong
  character is a digit or a letter that occurs in the tag.

Symmetry is not used: most runs check liveness, under which it is unsound.

`CHECK_DEADLOCK FALSE` stands where the system may really stop: every promise
settled, the page unmounted, the application done.

## Fairness

Weak fairness is given only to what the platform or the SDK must do:

* the event loop runs the continuations of settled promises, and React the
  effects of a commit (`Fair(s)` of a store's flight, `EffectFair`,
  `InputsEffects` and `ShownEffect` of the hook, `Choosing` of a selection);
* timers fire and time passes (`Tick`, `TimesOut`, `Retry` of the query,
  `PollFair(p)` of Reclaim's loop, `LimitsFair` of the hook's midnight timer
  and interval, `WatcherFair(k)` of a watcher's poll);
* a request settles where something bounds it: `querySubgraph` by its timer,
  viem's reads and receipt waits by their own timeouts (`Fair(c)` of a write
  action). Of the hook's requests only the newest is owed an end
  (`NewestRequestSettles`): the others are settled for nobody. A Reclaim poll, a fraud check and its IP lookup have no timeout;
  `PollingEnds` and `CallSettles` *assume*, with `PollFair(p)` and
  `CallFair(b)`, that they settle.
* the newest run of the fingerprint hook goes on (`DeviceFair`):
  `FingerprintJS.load` comes to an end, which nothing in the SDK bounds, and
  its read is raced by a timer, so nothing is owed by the read itself.

Nothing is owed by users (connecting, signing, proving, aborting), by the
wallet, by the backends' decisions, or by miners. In `OrderRouter` the subgraph
need not come up; it must answer in time only while it stays up. The orders
client, the payments and the hosted sessions have no liveness: every step there
is the user's, the chain's or a service's.

## Proofs

`tlapm <module>`; eight modules, all for every value of the constants that the
named assumptions allow.

Six theorems are of liveness (`PreparationsEnd`, `PollsEnd`, `EventsArrive`,
`DeviceSpinnerStops` and two `CallsSettle`). Each has the form *fair
specification and* `[]...CanGoOn` *imply the property* (`WatchersCanPoll` of the
events; here `...CanGoOn` stands for all of them). `...CanGoOn` says that
the actions weak fairness is given to are `ENABLED` in the states where their
guards hold, which tlapm cannot see from their definitions. It is no condition
on the code: each is read off the action (the comment above it says how), and it
was evaluated by TLC as an invariant of the run's instance and holds there. What the
theorems add to the runs is the rest, for any number of calls, watchers and
events: that while the obligation stands nothing can take the guard away but a
step that meets it, and that the fair step meets it. For each the safety
invariant of the same module carries the argument.

* **`RelayIdentityProofs`**: `TypeCorrect`; and, under `OneObjectPerEntry` (an
  entry is reached through one store object) and `NeverBlanked` (no other
  program empties the payload), `HandedOutIsPersisted`,
  `IdentityNeverOverwritten` and the refinement `ResolutionImplementsCell`. The
  two conditions are exactly what `resolve.ts:63-70` leaves unsaid (see
  disagreements). `ResolvedIsPersisted` is not inductive: a flight about to
  hand out an identity must already hold the entry's. `IInv` adds `EntryShape`
  (an absent entry has no identity, none is blank), `FlightShape` (a flight
  that writes found the entry empty and it still is, one that settles well
  carries the entry's identity) and `AnswerShape` (a call has an identity
  exactly when it succeeded). One object per entry is what makes "still empty"
  stable: no other flight writes there. `CallsSettle` needs neither condition:
  a caller that waits is always among those its store's flight will answer
  (`CallsAreAwaited`), also one that joined a flight it did not start, and the
  flight goes through at most reading, writing and settling.
* **`OrderRouterProofs`**, the selection: `TypeCorrect`, `RefusalIsJustified`,
  `SelectionIsAccepted`, `AskedAtMostOnce`. The loop invariant `Running` says
  that the eligible circles are split into those asked, all refused, and those
  remaining, and that each refusal cost one attempt; `Checking` that the circle
  being validated is still among the remaining; `Starting` that nothing was
  asked before the fetch. `DrawFromPool` shows that no branch of the draw leaves its pool.
  The query: `QueryInTime`, `OutageRiddenOut`, `RefusalFinal`. `Clock` bounds the time elapsed by the attempts made and, from below, by the
  pauses taken; `Outage` that a last attempt which may still fail, and
  a transient failure reported, saw the subgraph down at or after the pauses.
  The router: the composition implements each of its halves
  (`ImplementsSelection`, `ImplementsQuery`: every step of the router is a step
  of the half or leaves it unchanged), so all that was proved of the halves
  holds of the router (`RouterTypeCorrect`, `RouterChoosesWell`,
  `RouterWaitsWell`).
* **`OrderCallsProofs`**: `TypeCorrect`, `ErrorsAreHonest`, `SuccessesAreReal`,
  `SentIsRouted`, and, when the application tries again only on unambiguous
  codes, `EffectAtMostOnce` for any number of tries. `Coherent` says what each
  stage implies about the transaction and the circle; `TriesInOrder` that a try
  has begun only if all before it failed with a code to try again on. Two
  effects of one intent would be an earlier try that landed and yet failed
  unambiguously. `PreparationsEnd`: a placement that prepares waits for its
  identity, its circle or its encryption, and whichever of the two parallel ones
  comes last hands it on.
* **`OrdersClientProofs`**: `PlacementsAreOwn`, `HandOffsAreFunded`,
  `LimitsSpeak`, `ListsAreWhole`, `ClientIsTyped`.
  `SellInv` says that a receipt is one a placement can have
  (`LogsAreReceipts`), that nothing is known or read before a placement has
  returned (`NothingYet`), and that an application goes on only with its own
  order's id or the stranger's (`GoneOnKnows`), as does every hand-off in the
  pool (`HandedKnows`). `ReportedOrderIsOwn` also needs that an id once
  reported stays justified: no receipt changes after its placement has returned
  (`Reported`, from `PlacedOnce`); `EnrichedIsOwn` goes through the five
  receipts. `HandOffNeverCancels`, of an order handed off by its own id, is
  proved of every application but the one that follows the documented recipe for
  several orders at once (`"documented" \notin Policies`, see
  `sell_two_orders`).
  `FundInv` says that an amount read is still what an open order asks for
  (`ViewIsActual`, since a placement is mined once and before anything is read
  of it: `PlacedOnce`, `HasReceipt`), and that, one order at a time, a hand-off
  in the pool stands right behind its own approval or at the head with the
  allowance already there (`OneFunded`: nonce order is what makes the approval,
  for which nobody waits, arrive first); with unlimited approvals, that one of
  them is before every hand-off (`AllFunded`). `QuotaInv` says that a quota is
  what the part of the ledger it was read from says; that part never changes
  (`PrefixStays`), so what was counted and capped there stays true, and both
  halves of `QuotaSpeaksForContract` are then arithmetic on the counts.
  `LargestExists` (a set of numbers up to n has a largest) is what the latest
  cap rests on. `ListsAreWhole` says that pages asked for one after the other
  miss no order the subgraph had at the first: rows only move to higher ranks
  as orders arrive, so an order not read yet is at a rank not asked for yet.
  Its invariant speaks of ranks, which is why `Page` is defined by them.
* **`AppPageProofs`**: `CountsAreOwn`, `CountsGetNoOlder`, `RejectionsStop`,
  `LinksAreOwn`, `PlacedOrdersAreTraced`, `NewestRunIsShown`,
  `EventsOnceInOrder`, `StrangersOnlyInGap`, `AppIsTyped`; and `CallsSettle`,
  `DeviceSpinnerStops`, `EventsArrive`. For the two on
  events, what a subscription has delivered is what lies between the place it
  began at and the place it has come to, so the next batch comes after all of
  it, and a callback is the wrong user's only between the render that changed
  the user and its effect. `HookInv` adds
  that there is at most one newest request, and that its answer is no older than
  what it will replace (`NewestIsOwn`); what is on screen and what is on its way
  are the user's whose `refresh` the timers hold, unless the page has called one
  kept from another render (`stray`), and that user is the shown one but for the
  gap before the effects.
  `FraudInv` says what the activity log of a call, its stage and what its page
  was told imply about the backend's decision (`LogIsOwn`, `PlacingIsAllowed`,
  `ToldIsTrue`, ...): a log in a closure is of that closure's own approved
  check. `DeviceInv` adds that every run but the newest is cancelled and that
  none began later (`OthersAreOver`), so no other can touch what is shown.
  The parts of the page do not disturb each other's liveness
  (`OthersAreUnstarted`). `EventsArrive` says that an event due is always ahead
  of some watcher of its kind that passes it (`DueIsWatched`), and that this
  watcher's next batch contains it. It is of a page whose store is not made in
  the JSX (`~InlineStore`; `watch_inline_store` shows the loss otherwise) and of
  at most five kinds, which is how many `watch-events.ts:64-128` has: one fair
  watcher per kind is one conjunct each. `DeviceSpinnerStops` is the
  fingerprint's half of `SpinnersStop`: the newest run moves through loading,
  asking and getting, whatever the cancelled runs do.
* **`VerificationProofs`**: `PageTypes`, `PollingIsPatient`, `AbortIsQuiet`,
  `PhoneAnswerSettles`, `PhoneSuccessIsEarned`, `RestartIsJustified`,
  `CodesAreHeld`, `EarnedOnChain`, `PollsEnd`. `PollInv` says what Reclaim's session must
  have become for a `start()` to end as it did; `PhoneInv` what a settled
  result rests on; `HostedInv` where every answer comes from and what has
  become of its session since (`AnswersHaveOrigin`: an attestation on its way
  belongs to a code that was spent, a rejected token to a session that died;
  `OnlyTokensDie`), which is what makes `SpentIsHeld` and
  `RestartsOnlyWhenDead` inductive when calls overlap. `PageInv` adds that what
  was prepared is of a flow that succeeded, and that a success stays one.
  `PollsEnd`: a loop of a flow that is over passes through its sleep, its top
  and at most one request, since none of the three begins again once the flow
  is aborted or the session settled.

* **`PaymentPageProofs`**, for every typed text, code, inherited id, price and
  answer: `DraftsAreJudged`, `SavedFormsComeBack`, `AmountsAreStated`,
  `ScansAreUsable`, `TwinsAlwaysAgree`, `AcceptedIdsSurvive`. `ScanInv` says that what was read is what the currency's
  reader makes of the code that was scanned; the two theorems on scans are then
  case analyses over the seventeen readers (`ReadersState`, `CodeIsKept`,
  `CardAndPhoneFit`). `DraftInv` says that a form's values are typed texts or
  what an id, opened, was taken apart into, and that a saved form's id is the
  packing of both. Three lemmas carry it: `Packed` (the separator of a packed
  id is its first empty text inside, since a code is never empty),
  `OpensAsForm` (what is taken apart, by position or token by token, are again
  texts of the form; `Recursion` is that `Claim` is what its recursion says)
  and `DraftIsJudged` (the packed string passes exactly when the form does).
  `TwinsAlwaysAgree` sets the older functions of Peru, Venezuela and Indonesia
  beside the catalogue's: `PeruTwins` takes a stored id through `pen.ts` and
  back (phones and accounts are told apart by their digits, `PeruvianKeys`),
  `VenezuelanTwins` through `ven.ts`, and `WalletTwins` compares the two ways
  of reading a wallet's number, one of which lets the first fitting text claim
  the field (`ClaimSteps`, `ClaimOfTwo`).
  `AcceptedIdsSurvive` (`ReloadKeepsAccepted`) is of ids the form saved and of
  inherited ones that are `OldIdsAreWellLaid`: all fields, or the first of them
  without a gap, or an Indonesian provider before its number, alone or behind a
  code. `MCPaymentPage` has TLC evaluate that of every id the run inherits.
  Without it the property is false: an Indonesian `12345|67890` or an Egyptian
  `+20|1012345678`, which no version wrote, is accepted and changed by opening
  and saving. `LoadInv` says from which id a loaded form was read;
  `AcceptedIsRead` that an accepted id is read as right texts, each in its
  field; `ReadFits` and `HydratedFits` that such texts are a complete draft
  again; and `TextsAreSavedAsRead`, `CodeIsSavedAsRead` that saving packs
  what was read back into an id that reads the same. `SavedIsWellLaid` brings
  the form's own ids under the same argument.
* **`EmvCodeProofs`**, for codes of any length and ASCII characters:
  `ChecksumsAlwaysAgree` and `ReaderTellsMisreads` (`ReaderTells`: the
  reader's check passes a code as printed and refuses it with any one
  character wrong). That the two CRC-16 agree is a fact about one bit (`Steps`)
  used eight times a byte (`Run`, `FedRuns`). A wrong character is noticed
  because eight steps lose nothing: two registers that differ still do after
  them (`Tables`, `OneWrong`). `EmvInv` says that a text read is the printed
  one, or the printed one with one character another, or a part of it.
  `GenuineIsAlwaysRead` and `GenuineOrAlwaysRefused` are of codes printed from
  whole objects (`CodesAreObjects`, `WellFormed`: a tag, its length and as
  many characters), so that the walk over the tags finds every object and the
  checksum's tag behind the last. The first says that genuine codes pass, at the
  reader's check always and at the catalogue's unless the checksum is 6304. The
  second adds that both checks refuse a misread, when what was read holds `6304`
  at most where the checksum's tag was printed: behind it a text cut off is too
  short for a checksum. Without that condition it is false: cut after a value
  that holds `6304` and the four matching characters, a text is a code as
  somebody prints it, and no check can tell. (The reader's refusal of one wrong
  character needs no condition, `ReaderTellsMisreads`.)

Proved, and not repeated in a run (the proofs say more): type correctness,
`NeverOverwritten`, `InTime`, `RefusalIsFinal`, `NeverAskedTwice`,
`SuccessIsReal`, `OnlyRoutedIsSent`, `NeverOlder`, `PlacedIsTraced`,
`ReaderTells`.

Model-checked only:

* `SelectionEnds`, `YesterdayGoes` and the limits' half of `SpinnersStop`
  (`LoadingEnds`). Each ends because something is used up: the attempts and the
  ticks of a query, the age of the counts, the requests that may be renewed. For
  any bound that is an induction over a number under `~>`, which the prover
  does not have;
* that the fair actions are enabled where their guards say so (`...CanGoOn`).

The model's recursive functions (`Fed`, `Claim`) are reasoned about through
what their recursion says at each step, by a least counterexample (`WFMin`).

## Disagreements

Five have a run that shows them (`PROJECT.json`, "findings"):

* **`limits_midnight`**: counts that expire while their request is in flight
  arm no timer (`use-placement-limits.ts:94`) and stay on screen;
  `use-placement-limits.ts:24-25` promises a refetch once the day rolls over.
* **`sell_two_orders`**: `approve` replaces the allowance, so the recipe of
  `orders/README.md:159-160`, followed for two open orders, cancels one of
  them. One at a time, or an unlimited approval, is safe (`orders_client`).
* **`zkpassport_abort`**: `zkkyc/orchestrators/types.ts:137` says the result
  promise rejects with `ZK_PASSPORT_ABORTED`; nothing ever settles it.
* **`watch_inline_store`**: `relayIdentityStore` is a dependency of the
  provider's memo (`sdk-provider.tsx:100`), so the inline store of
  `architecture.md:122` makes new `Orders` on each render and loses events,
  against "object refs are captured once" (`architecture.md:109`).
* **`payments_6304`**: `lastIndexOf("6304")` (`qr-validator.ts:57`) finds the
  checksum's own value when that is 6304, and a genuine code is refused on
  upload that the scanner's check (`crc16.ts:41`) reads. `GenuineIsAlwaysRead`
  proves that it is the only such case.

Others were met while modelling and have no run of their own.

Orders, identity and events:

* The relay identity is guarded per store *object*. Two objects over one
  localStorage key (two calls of `createLocalStorageRelayStore`, two tabs) may
  both mint, and the later write replaces an identity already published,
  against "can never overwrite" (`resolve.ts:63-70`). Run `RelayIdentity` with
  `KeyOf <- MCTwoObjects`; `OneObjectPerEntry` in the proofs excludes it.
* A payload that reads as empty or `null` counts as absent and is replaced
  (`stores.ts:47`, with `Damages <- MCBlanked`), while any other unreadable one
  is reported as corrupt.
* Exploration has 25 % of the draws only while there is a bootstrap circle to
  take the first 10 %; without one it has 35 % (`routing.ts:99`), and
  exploitation 65 %, where `routing/README.md:14-15` says 25 % and 75 %. Its
  "retries up to 3x" (`:10`) are three attempts, two of them retries
  (`routing.ts:191`).
* When no event of a receipt has the wallet's address, the first `OrderPlaced`
  is reported, whoever's (`place-order.ts:39`, against `:24-26`): in a bundle, a
  stranger's before that of a smart account whose key the wallet is, or a
  stranger's alone when the own operation failed. `SellOrders` has both, and
  `ReportedOrderIsOwn` exempts exactly these receipts (`Misleads`); an
  application that goes on reads, approves for and hands off the stranger's
  order, which the contract refuses.
* A PAY hand-off with `updatedFiatAmount` (`set-sell-order-upi-with-fiat.ts:95`)
  is charged the fee of the moment it is mined, which nothing read before can
  tell.
* A row whose id or amount is no integer makes `BigInt` throw inside `.map`
  (`normalize.ts:118`): the promise of `getOrders` rejects instead of
  resolving to an error.
* Pages asked for one after the other miss nothing (`ListIsWhole`); asked for
  in parallel they may. Without multicall the four values of `getFeeConfig` are
  read from as many blocks (`contracts/order-processor/index.ts:130`).

React:

* Between a render for another wallet and its effects the hook returns the
  previous wallet's counts, with `isLoading` false and no error: `refresh` runs
  in the effect (`use-placement-limits.ts:49-59`, `:78-80`, `:99`). And a
  `refresh` kept from a render for another wallet, called by a handler that
  awaited something, brings that wallet's counts on screen, or starts a request
  when none is connected, against `:8`. `ShowsOwnCounts` exempts these two
  (`AskedForAnother`) and no other.
* After a change of wallet and a failed request the previous wallet's counts
  stay on screen, with an error (`use-placement-limits.ts:59`, `:70`; compare
  `orders/README.md:127-128`). `ShowsOwnCounts` therefore excludes it.
* Between a render for another user and its effect, an event of the old user
  reaches the new callbacks (`use-watch-orders.ts:21`, against `:8-9`).
  `OnlyInGap` confines it to that gap.
* Without a configured store the relay identity lives as long as the `Orders`
  object, which any changed primitive of the provider replaces
  (`sdk-provider.tsx:72`).
* A fingerprint hook disabled while it loads keeps `isLoading` up
  (`use-fingerprint.ts:38`); `FingerprintJS.load` has no timeout
  (`fingerprint.ts:8`), and neither have the fraud check (`client.ts:143`) and
  its IP lookup (`device.ts:43`).

Verification:

* An `onStatus` that throws in `onResult` or `onReject` leaves the result
  pending for ever (`zk-passport.ts:79`, `:112`): the phone has answered, and
  what would have settled the promise is not reached. `AnswerSettles` exempts
  such flows (`lost`).
* One failed poll ends Reclaim's `start()` (`reclaim.ts:118`), where
  `types.ts:90` speaks of polling until the proof is there.
* `createSimpleKycFlow` and `createLivenessFlow` take any answer that is an
  object for a success and hand on a missing `widget_url`; `getAttestor` of BVN
  does so with a missing address.
* A 401 in answer to `onboard` is told as `BVN_SESSION_EXPIRED` (`bvn.ts:46`),
  before there is a session to expire.

Payment ids and codes (the properties name each exception they make):

* `assignPaymentIdToFieldValues` looks for a QR pack in currencies that have
  none (`validators.ts:166`): a three-part Kenyan id `phone||` loses its phone.
  A typed value that contains `|` does not come back.
* The Indonesian form refuses a bank's `Provider|number` of 8, or of 13 and
  more, digits that `validateIndonesianStoredPaymentId` accepts; `TwinsAgree`
  speaks of wallets only. `||phone|rif|bank` and swapped `cci|phone` are read
  differently by the catalogue and by `ven.ts` and `pen.ts`; a phone filled in
  from a code stays when another code is uploaded (`validators.ts:377`).
* Peru and Bolivia accept text after a code's checksum on upload, `verifyCRC16`
  does not. `getPayQrPayload` would cut a PHP or INR code at a `||`.
* An unreadable amount is dropped without a word in Brazil and Colombia, and is
  an error elsewhere. Venezuela's validators strip whatever is no digit.
* On a text that is not ASCII the two CRC-16 differ: `crc16.ts:9` takes its
  UTF-8 bytes, `qr-validator.ts:19` its UTF-16 units (`CodesAreAscii`).
* UPI ids with dots after the `@` are read by `parseUPI`
  (`qr-parsers/parsers/inr.ts:7`) and refused by `validateUPIId`
  (`currencies/inr.ts:14`).
* `country/README.md:76` calls COP disabled, `cop.ts:52` does not; likewise
  the table's rows of EUR, USD and MEX, and VEN's alpha flag.

## What is not modelled

* *Wording*: error texts, labels, flags, locales and links of the countries,
  messages of schemas. Validation appears as the step that may fail, or as the
  difference between an answer and a malformed one. ABIs and the tables of
  error selectors (`contracts/errors.ts`, `error-messages.ts`) are data too.
* *Cryptography* (ECIES, AES, signatures): a step that succeeds or fails.
* *Floating point*: `weightedRandomChoice`'s fallback to the last circle when
  rounding leaves a rest is not told apart from a draw of that circle; decimal
  amounts are in hundredths.
* *The Diamond, USDC, viem, the backends, the phone, FingerprintJS*: external,
  from how the SDK uses them and what its docs say.
* *Single reads* (prices, profile, stake, fee configuration): no state, no
  order of steps.
* *SEON and device details*: data of a fraud check; clearing SEON's keys has no
  effect the model could see.
* *The provider's other modules*: which of them a render makes anew is
  modelled for `Orders` only, since only its watchers and its in-memory
  identity have state to lose.
* *BUY orders with disputes* as a life cycle, and PAY's `updatedFiatAmount`:
  each call is in `OrderCalls`, but what the Diamond makes of them is not in the
  SDK.
* `prepareSubmitAnonAadharProof` takes a proof that no flow of the SDK makes.

## Plan

Done, in this order: the identity (module, promise, proofs), routing and query
with their composition and proofs, the write actions with proofs, the SELL
cycle, the hook, the watcher, the fraud engine, the verification flows; then
the hosted sessions and what goes on chain, the order reads, the fingerprint,
the catalogue and the QR codes, the four compositions, and the proofs of the
orders client, the app page and the verification page; the proofs of the lists,
the events, the payment page and the checksums; last the proofs of what is
misread or cut off, of opening and saving stored ids, and of liveness.

What could follow, the most important first:

1. `OrderCalls` with `RelayIdentity` and `OrderRouter` in place of the answers
   it assumes, shown by refinement.
2. `SdkProvider` as a module of its own: every memoised part, and the relay
   identity that goes with an in-memory store.
3. BUY orders with disputes, once the contract's side can be read.
