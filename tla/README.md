# Verification of the Nyx dark pool

TLA+ specifications of the Nyx dark pool, the TLC configurations that model-check
them, and theorems about them proved with TLAPS.

Nyx is a dark pool for full-fill trades. A client seals an order (price, volume,
salt) in the browser behind a Poseidon commitment and posts it to a Go engine. The
engine keeps orders in PostgreSQL (the private values encrypted), pairs an ask with a
bid that crosses it and has the same volume, proves with a circom/Groth16 circuit that
the two commitments hide such a pair, and has a Soroban contract verify the proof and
record the settlement. What makes this hard is not any single function. It is that
the facts "these two orders are matched", "the match is proven", "the match is
settled" live in three places (database, ledger, memory of a process) that change
separately, that several goroutines and several processes act on them, and that any
call may fail, time out, succeed without telling, or be cut off by a crash.

## 1. The system

| Component | Source | State | Operations | Talks to |
|---|---|---|---|---|
| Poll loop | `engine/internal/matcher` (`Run`, `tick`) | `inflight`, `failures`, the `jobs` channel | match cycle, scan, dispatch, close and drain | store, workers |
| Workers | `matcher` (`proveAndSettle`, `settleOnchain`) | the id in hand | prove, store the proof, ask the contract, submit, record, release | store, prover, contract |
| Match cycle | `matcher` (`matchOnce`, `pairOrders`) | the plan of the cycle | read pairs, read orders, pair greedily, create matches | store |
| Store | `engine/internal/store` | tables `orders`, `matches` | `InsertOrder`, `OpenPairs`, `OpenOrdersByPair`, `CreateMatch`, `Un{proven,settled}MatchIDs`, `MatchOrders`, `SetProof`, `SetOnchain`, `MarkSettled`, read views | PostgreSQL |
| DB | `engine/internal/db` | connection pool | `WithSerializableTx` | PostgreSQL |
| Schema | `engine/db/migrations` | enums, unique and check constraints | | |
| Server | `engine/cmd/server` | root context, blob key | start, wire, shut down | all of the engine |
| Prover | `engine/internal/prove` | temporary files | `Generate` (with a timeout), `ToHexProof` (without) | snarkjs |
| On-chain bridge | `engine/internal/onchain` | none | `ResolveAddress`, `IsSettled`, `VerifyAndSettle` | `stellar` CLI |
| Contract | `contracts/nyx-verifier` | the set of settled commitment pairs | `verify_and_settle`, `is_settled`, `settle_transfer` | Soroban |
| Circuit | `circuits/darkpool_match.circom` | none | the constraints on a match | |
| Blob encryption | `engine/internal/secret` | the AES key | seal, open, ephemeral key | store |
| Order payload | `engine/internal/order` | none | validate, encode, decode | API, store |
| HTTP API | `engine/internal/api` | none | create an order, list, get a match, health | store |
| StrKey | `engine/internal/stellarkey` | none | decode, encode, CRC, verify a signature | API |
| Configuration | `engine/internal/config` | none | read the environment | server |
| Proxy | `web/app/api/engine` | none | forward, time out, fail | API |
| Web session | `AccessForm`, `AuthGate`, `DeskFooter`, `SideNav`, `_lib/desk` | the desk (key pair) in localStorage, the page of each tab | create, import, continue, sign in and out, navigate, sign a commitment | localStorage, shared by the tabs |
| Compose form | `ComposeForm`, `_lib/seal`, `_lib/engine`, `_lib/ui` | draft, seal, in-flight guards, active order | edit, seal, broadcast, take the answer | API through the proxy, session |
| Pages | `PoolBody`, `DeskBody`, `ProofsBody`, `SettledBody` | what each last heard | poll, show, offer a receipt | API through the proxy |
| Demo counterparty | `PoolBody` | a timer and a few refs of each mounting | wait, look, defer, post a counter | API through the proxy |
| Scripts | `scripts/e2e_live.mjs`, `scripts/seed_demo_orders.js` | none | post orders, good and bad | API |

### How they interact

1. The desk seals an order and posts it through a proxy that gives up after 50 s. The
   API validates it and inserts one row; a second row with the same nullifier is
   refused with 409.
2. One goroutine per process polls. A tick runs a match cycle, which reads the asset
   pairs with open orders, loads the open orders of each (those whose blob it can
   decrypt), computes a plan of pairs, and writes each in a SERIALIZABLE transaction of
   its own.
3. The same tick scans the oldest `batchSize` unfinished matches, skips those that
   have used up their attempts or are in flight, claims each of the others in
   `inflight` and sends it over a bounded channel.
4. Workers receive ids, prove, store the proof, and, when a contract is configured,
   ask it whether the match is settled, mark the row `submitted`, invoke the
   contract, and record the outcome. An error counts an attempt and leaves the match
   to a later tick.
5. A signal cancels the root context: the loop leaves its send, closes the channel
   and waits for the workers; calls that take the context fail from then on.
6. Processes share the database and the ledger and nothing else.

### What is hard about it, and what would make it correct

| Part | Hard behaviour | Correct means |
|---|---|---|
| Poll loop and workers | the scanned batch, the attempt counters and `inflight` are read at different moments while workers change them; blocked sends; shutdown while queued | each id in flight is held in exactly one place; attempts are bounded; a shutdown ends; nothing is stranded |
| Settlement | the CLI fails after the transaction was accepted or before it lands; crash between ledger and database; a second process on the same match | confirmed means settled on the ledger; confirmed is final; every match passes each stage once and in order |
| Tables | two tables updated for one fact, ignored errors | orders are settled exactly when their match is confirmed |
| Match cycle | stale plans, interleaved transactions, serialization conflicts, deadlocks, a commit with an unknown outcome | every order is filled wholly and at most once, against one it satisfies the circuit with; a crossing pair does not rest for ever |
| Blob keys | an ephemeral key dies with its process | what a live process can decrypt is matched |
| Contract | settlement keyed by the bytes of two commitments, which clients choose and may repeat; proof gate; transfer gated by settlement | a key settles once, only with a valid proof, and only its settlement opens a transfer; a match is confirmed only on a settlement of its own prices, volumes and salts |
| Intake and compose form | proxy timeout while the insert goes on; retry; seals that resolve late; two clicks before a render; sign-out, reload or a second tab while an answer is under way | at most one order per seal, and what it carries is one seal; every broadcast ends; the active order is one the engine has |
| Pages | polls overlap, fail and overtake each other; order and match are asked for separately | no page is ahead of the engine; the stages have no gap; a page that stays open catches up |
| Demo counterparty | decides on an old list, may post again after a lost answer, may be starved by orders that do not cross | at most one counter for each mounting; a solo order is filled |
| Payload and circuit | values outside (0, 2^64), the field wraps | what the engine accepts, the circuit can prove |

`PROJECT.json` lists every hazard at its line, with the properties that cover it.

## 2. The modules

| Module | Models | Role |
|---|---|---|
| `SettlementLifecycle` | abstract: the five stages of a match | specification only |
| `MatchRows` | abstract: a match as the two tables let readers see it | specification only |
| `MatchLedger` | abstract: what the engine may count on of the contract | specification only |
| `MatchPipeline` | poll loop, channel, workers, settlement, shutdown, crash, several processes | refines `SettlementLifecycle`, `MatchRows`, `MatchLedger` |
| `MatchPipeline_proofs` | the theorems about `MatchPipeline` | proofs |
| `MCMatchPipeline` | its instances | model checking |
| `FullFill` | abstract: a book whose orders are filled wholly and once | specification only |
| `OrderBook` | insertion, match cycle, `CreateMatch` statement by statement, blob keys, crash | refines `FullFill` |
| `OrderBook_proofs` | the theorems about `OrderBook` | proofs |
| `MCOrderBook` | its instances | model checking |
| `DeskKeys` | desks and their signatures | used by the next two |
| `Session` | desk in localStorage, access form, gate, sign-out | part of `Compose` |
| `Intake` | `POST /orders`: caller, proxy, engine | part of `Compose` |
| `Compose` | the compose form, over `Session` and `Intake` | composition |
| `Compose_proofs` | the theorems about `Compose` | proofs |
| `MCCompose` | its instances | model checking |
| `ReadModel` | the engine as its readers see it, `GET /orders`, `GET /matches/{id}` | part of `Screens` |
| `Views` | the polls of the four pages and what they show | part of `Screens` |
| `DemoCounter` | the demo counterparty | part of `Screens` |
| `Screens` | pages and demo counterparty over one engine | composition; its engine refines `MatchRows` |
| `MCScreens` | its instances | model checking |
| `Screens_proofs` | the theorems about `Screens` | proofs |
| `DarkpoolMatch` | the circuit over a field of any modulus | used by `NyxVerifier` |
| `NyxVerifier` | payload, pair test, circuit, contract, several engines, other callers | composition; refines `MatchLedger` |
| `NyxVerifier_proofs` | the theorems about `NyxVerifier` | proofs |
| `MCNyxVerifier` | its instances | model checking |

Definitions named *Mutant* in a comment are deliberately wrong versions of the
definition that follows them. No specification uses them: putting one in the place of
the right definition must make TLC find a violation of the property paired with it in
`PROJECT.json`, which shows that the property depends on the code being right.

Two abstract modules tie the larger ones together. `MatchPipeline` and `Screens` have an engine each, one
with processes and workers, the other with nothing but the tables; both implement `MatchRows`, so that the pages are
not proved over an engine that does something else. `MatchPipeline` settles on a ledger that knows
matches, `NyxVerifier` is a ledger that knows the bytes of two commitments; both implement `MatchLedger`, the first
for its matches, the second for their *terms*, the prices, volumes and salts they join. Terms are all that the contract can
tell apart. The two meet where matches differ in their terms, as those of clients with random salts do; nothing in the
engine sees to it (see *Divergences*). `MatchPipeline` has its matches settled by the transactions of its own
processes only; a settlement by somebody else is a step of `NyxVerifier`.

### MatchPipeline

State and code:

- `orders`, `proof`, `status`, `tx` are the columns `orders.status`,
  `matches.proof_blob` (null or not), `matches.onchain_status` and
  `matches.settlement_tx`. The two orders of a match change in the same transaction in
  both places that write them (`CreateMatch`, `MarkSettled`), so one value stands for both.
- `chain` is the set of settled keys in the contract's storage; `adrift` holds
  matches with a transaction that was sent and that nobody waits for any more.
- `phase` is the life of a process: running, its context cancelled (`stopping`),
  channel closed and waiting for the workers (`draining`), down.
- `loop`, `batch`, `cur` are the program counter and the locals of the poll
  goroutine; `inflight` and `failures` are the two `sync.Map`s, `jobs` the channel.
- `wpc`, `job` are the program counter and the local of each worker. Each value of
  `wpc` names the call the worker makes next, so that everything between two calls
  may be interleaved with every other goroutine.

Actions: `FormMatch` (the match cycle as the pipeline sees it), `Scan`, `SkipAbandoned`,
`CheckAttempts`, `SkipDispatched`, `Claim`, `Send`, `SendCancelled`, `EndTick` (the tick),
`Receive` to `Release` (the worker), `LandLate` (the ledger), `Cancel`, `CloseJobs`,
`Drained`, `Crash`, `Restart` (the life of the process). The read of the attempt counter
(`CheckAttempts`) and the claim (`Claim`) are two steps because nothing holds them
together in the code. A call that writes the database may report an error although the
write was applied: `SetOnchain`, whose callers ignore its error, may do nothing, and a
failed `SetProof` may have written.

After a signal, calls that use the context fail: a step that needs success requires
the process to be running, its failing counterpart does not. `VerifyAndSettle` is three
steps (`invoke`, `landed`, outcome): the ledger's acceptance and the answer of the CLI are
different events, and an error of the CLI may come before, after or instead of either.

Abstracted: proof bytes, hashes, addresses and argument vectors (success or failure
is what the pipeline tells apart), log messages, and time (a timeout is a failure that
may happen at any moment).

### OrderBook

- `form[o]` is what an order says (side, pair, price, volume), fixed from the start;
  `status[o]`, `sealed[o]` are its row; `matches` is the table of matches.
- An order is a number, its place in `ORDER BY created_at, id`, so "first in the scan"
  is `<`.
- `pc`, `todo`, `plan` are the locals of `matchOnce`; `snap` is what the snapshot of the
  current transaction saw open; `locked` are PostgreSQL's row locks.
- `key[p]` is the AES key of a process; `mode` says whether `NYX_BLOB_KEY` is set.

`pairOrders` is stated by what it computes (`IsPairing`: every ask in order takes the
first free bid that crosses it) and not by its loops. `CreateMatch` is as many steps as it has points where
another transaction can get in between: `BeginTx` (the first statement fixes the
snapshot), `LockRow` for either of the two rows (the UPDATE does not say in which order),
`InsertMatch`, `Commit`. It ends early in `AlreadyMatched` (`RowsAffected() != 2`),
`Conflict` (40001 on a row somebody changed after the snapshot), `Deadlock` (40P01) or
`CommitFailed`. The code treats each of those as an error it logs before it goes on to the
next pair of the plan, and so does the model. PostgreSQL itself is external: row locks,
snapshots and deadlock detection are modelled as its documentation defines them for
the statements this code issues.

### Session, Intake, Compose

- `desk`, `active`, `draft` are the three items of localStorage, which all tabs share;
  `page[t]` is what tab `t` shows, and `"opening"` and `"gate"` are pages whose effect has not
  run yet. `AuthGate` looks for a desk when the shell is mounted and not again, so that a tab
  stays in the shell after another one has signed out.
- A call is one `POST /orders`. `up[c]` is what became of it at the engine, `down[c]` what its
  caller knows; the proxy's timeout changes `down` and leaves `up` alone. `handleCreateOrder`
  checks fields, side, range and signature, in that order, and inserts unless the nullifier is
  taken; a failure of the database is a refusal like any other.
- `form`, `restoring`, `sealed`, `busy`, `busyRef`, `err` are the state and refs of the component,
  dropped when it is unmounted. `pending[t]` are the promises of its seals, `current[t]` the one
  whose effect has not been cleaned up (the flag `alive`), `mine[t]` the broadcasts that belong to the
  form on the screen. `busyRef` changes at once and `busy` with the next `Render`, as in React.
- The answer to a broadcast is taken by the promise and not by the form: `Succeed` and `Fail` do not
  ask whether the form is still mounted, and a `Reload` is what ends a promise.
- A salt is the number of the seal that drew it: fresh by construction, as 64 random bits are in
  practice. A commitment is the triple it hides and a nullifier the pair it is derived from.

Texts of price and size are numerals with a number of decimals, or not numerals: `priceToInt` and
`sizeToInt` are modelled as the scaling and the range check they make of them. The time in force is
left out: it is stored with the draft and sent nowhere.

### ReadModel, Views, DemoCounter, Screens

- `orders`, `match`, `record` are the tables of one asset pair as the two GET endpoints join them;
  the engine's steps are those of the other modules, as their readers can tell them apart.
- `polls[k][p]` is one run of a page's polling function, from the request for the orders to the
  request for the match; each resolves, or fails, when it likes. `shown[k]` is the page's state.
- `demo[k]` is the effect of one mounting of the pool page: its timer (`grace`), its two awaited calls
  (`asked`, `sent`), what it read (`seen`) and its counter on the way to the engine (`request`).
  Leaving the page clears the timer and stops nothing that is awaited.

Layout, colours, formatting and which row the pool highlights are left out.

### DarkpoolMatch, NyxVerifier

- Signals are the numbers below `P`, and `Plus` and `Minus` wrap. `LessThan` and `LessEqThan` are
  written as circomlib builds them, out of the bits of `x + 2^n - y`, and not as `<`: that
  they are comparisons at all is what has to be shown. `Bound` is 2^64.
- `orders[o]` is an accepted order, with the commitment its client sent, which the engine stores
  unchecked. `InsertOrder` and `CreateMatch` keep the range check and the pair test, over integers.
  What is unique is the nullifier, which is bound to nothing else, so that salts, commitments and whole orders
  may be repeated under another one: an order is stored whatever has been stored before.
- An `Encoding` is a number of 32 bytes, as the field element it is congruent to and the number of times the modulus
  was added. `from_bytes` reduces, for the contract as for the witness calculator; `fe` is the encoding that
  `proof_to_bytes.js` gives a public signal of snarkjs, which is below the modulus. A `Key` is of encodings: the contract
  stores the bytes as they came and proves things of their residues. Other callers may use any encoding.
- `settled` is the contract's persistent storage, `events` its event log, `moved` the transfers
  that `settle_transfer` let through. A call that fails changes nothing on the ledger.
- `hand[e]` is the match an engine has found unsettled and not yet submitted; between the two,
  other engines and other callers act.

A proof stands for the witness it shows knowledge of, and verifies if and only if that witness satisfies
the circuit under the public inputs: the soundness and completeness of Groth16 are assumed, and so is
that Poseidon has no collisions. A salt is only hashed and stands for the field element its numeral reduces to.
The balances of the asset contract are left out.

## 3. The properties and the runs

| Run | Instance | Shows |
|---|---|---|
| `pipeline_duo` | two processes, one worker each, one match, two attempts, one stop or crash | every safety property across processes and restarts |
| `pipeline_live` | one worker, two matches, settlement on | a shutdown advances and ends; every match is finished or uses up its attempts |
| `pipeline_offchain` | one worker, three matches, one slot, no contract | the same where the loop blocks in its send |
| `book_race` | two processes, four orders over five kinds of order, one crash | the book implements `FullFill`; the unique constraints are never needed; the pairing is stable |
| `book_live` | two processes, three orders, with and without `NYX_BLOB_KEY`, one crash | crossing orders do not rest for ever |
| `compose` | two tabs, one with the form, one desk, two prices of which one is out of range, a script, two calls, two seals | what the browser sends and is told, through lost answers, retries, sign-outs and reloads |
| `screens` | one page open at a time, two polls under way, two orders and a counter, listings of two and three | what the pages say, and that the demo counterparty fills and stops |
| `contract` | four orders, two engines, one other settlement, one transfer, a field of eleven elements with operands of two bits | range check, pair test, circuit and contract agree; the contract is a `MatchLedger` of terms, while clients repeat salts, commitments and orders and a number has two encodings |
| `viol_failed`, `viol_starved`, `viol_exact`, `viol_receipt` | smallest instances | see *Divergences* |

What the properties say:

- `ConfirmedIsOnChain`: a row that says `confirmed` is settled on the ledger, whichever
  process wrote it and from whatever answer.
- `NothingUnprovenLeaves`: whatever was submitted, failed, confirmed or settled has its
  proof stored.
- `TablesAgree`: the orders are settled exactly when the match is confirmed.
- `ClaimedOnce`: the `inflight` map is exactly the ids held by the loop, the channel and
  the workers, each held once. It is what makes `bumpFailure`'s unprotected
  read-modify-write safe, and what keeps an id from being stranded.
- `AttemptsBounded`: a match fails at most once more than `maxProofAttempts` allows.
- `ConfirmedIsFinal`: no step changes a confirmed row.
- `ImplementsLifecycle`: read through `StageOf`, every step of the pipeline is one step
  of `SettlementLifecycle` for one match, or none.
- `ImplementsRows`: what `GET /matches/{id}` and the joined listing tell of a match is what `MatchRows`
  promises, although several workers may write one row. `submitted` and `pending` are one outcome
  there: a reader sees an attempt begin and be given up, and cannot count on either.
- `ShutdownAdvances`: from the cancelled context on, a step of the poll loop takes something away from the calls
  the loop has ahead (`LoopAhead`: the rest of the batch, the send, the close) and a step of a worker
  takes something away from those of the pool (`WorkAhead`: the queue and what is in hand) without adding to the
  former. Nothing that others do to the tables or the ledger adds to either. It fails if the scan
  ignores the cancelled context.
- `StopEnds`, `FinishedOrExhausted`: the liveness of shutdown and of a match.
- `BackstopIdle`: a transaction that reaches its insert never meets an order that is
  already matched: the guarded UPDATE is enough without the UNIQUE constraints.
- `ImplementsFullFill`: every order is filled wholly and once, against one with which it
  satisfies the *circuit's* constraints (`Satisfies`), not only the matcher's test.
- `PairingStable`: of the orders a cycle has loaded, a plan uses each at most once, and two that cross and are not
  planned together leave one of them planned with an order as early or earlier. No crossing pair
  is missed and nobody is overtaken: the plan is a stable matching for arrival order.
- `CrossesMeet`: two crossing orders a live process can decrypt do not both stay so.
- `BookIsSound`: whatever is posted, retried or answered too late, what is in the book is
  in range, rightly signed, and shares its nullifier with nothing.
- `BroadcastIsSealed`: commitment, nullifier and private values of a broadcast are one seal, although
  seals resolve in any order while the user types.
- `ActiveIsAccepted`: the order the other pages follow is in the book, as it is remembered.
- `OneInFlight`: two clicks before a render do not broadcast twice.
- `StaleOnlyWhileSealing`: the button holds an older seal only while the newer one is being made.
- `CollisionIsMine`: a tab hears "nullifier already used" only of a seal it has itself placed.
- `BroadcastEnds`: the guard of the button is let go of in every case.
- `NeverAhead`: what a page says of an order was true when it was read and is true still.
- `StagesInOrder`: the proofs page never shows a stage as done before an earlier one.
- `ReadsMatchRows`: the engine that the pages read from moves as `MatchRows` does.
- `OneCounter`, `DemoFills`: the demo counterparty posts at most once for each mounting, and
  resting orders that do not cross cannot keep it from posting.
- `ViewCatchesUp`: an open page shows a settlement in the end and goes on showing it, as
  long as the order is within the listing it asks for.
- `AcceptedCanSettle`: a match of two orders in range, under their own commitments, has a proof.
- `SettledMatches`: whatever field elements a caller puts into a witness, what is settled crosses as
  integers.
- `SettledOnItsTerms`: a key is settled by one event, and a confirmed match has an event under the key of its own
  prices, volumes and salts: an order that repeats the commitment of a settled one, and is about something else, is never
  confirmed on it, since the engine proves before it asks. It does *not* say that the event is of no other match: two
  matches that agree in all their terms share it.
- `ImplementsLedger`: seen by the engine, a ledger of bytes is one of terms. A call settles the terms of one match at
  most, whoever makes it and in whatever encoding; a match may be settled from the moment it is formed; terms are confirmed
  once, and only when they are settled.

### Bounds, and why they are enough

`MaxStops` (how often processes stop or crash) is the only bound that is not a size of
the system; one stop at any step already reaches every state a recovery can start from,
because a crash erases all memory of a process and leaves the rest as it was.
`MaxProofAttempts` is 3 in the code; the runs use less and
the theorems hold for every value. A second process is needed for the races on one row,
a second worker for the race on one counter, and a second match for the order of
the scan and the channel; no property relates three matches, except blocking, which
`pipeline_offchain` gives three. `JobsCap` is `2*workers+1` in the code; one slot is smaller
and makes the blocked send common. In the book, a stale plan needs two processes and
overlapping pairs, a deadlock two transactions with two rows each: four orders give
two disjoint or overlapping pairs and a spare. The five forms of `RaceForms` hold an
ask, two bids that differ in price around it, one of another volume and one of another asset.
In the runs of the book all nullifiers are distinct.

In `compose`, `FieldMax` is 300 so that a price of 4.00, in cents, is out of range and 2.50 is in it.
Two calls are enough for a retry, or for a broadcast beside a script's order; two seals for one that is overtaken by the
next. `Composers` limits the form to one tab, and the other tab signs in and out beside it. The theorems
hold for any number of each. In `screens`, `MaxOthers` bounds the orders that are no counters,
`MaxMounts` the places at which a page can be opened (each used again and again, but for one demo effect
only), `MaxOpen` the pages open at once, `MaxPolls` the polls of a page under way: two is what it takes for one
answer to overtake another. A listing of two orders beside one of three lets an order fall out of
the one and stay in the other. `MaxDeferrals` is 2 in the code and 1 here: the first deferral is followed by
a fill in both. In `contract`, operands of two bits have both ends of their range and values just outside
of it, and eleven is the least prime that holds the three bits of the comparator and leaves field elements beyond them
(10, which is minus one, is below everything for a comparator without range check). Four orders give two
matches: of the same terms, of different terms under one pair of commitments, or of different ones. `Offers` has two salts, and one
commitment that is repeated by an order of other terms, raised by the modulus. `MaxLap` is 1, where the modulus
of BN254 goes into 32 bytes five times: a second encoding is what it takes to settle a pair twice. `MaxOthers` and `MaxTransfers` are 1: a single other settlement can precede that of any match. In
this run all orders may be bids that nobody meets: the system stops, and deadlock is not checked.

### Fairness, and why the code justifies it

- Weak fairness of the poll loop and of each worker: goroutines are scheduled and every
  call returns. `Generate` has a timeout of its own. `ToHexProof` and the `stellar` calls
  have none, so that here the assumption is that these programs exit; it is listed as a hazard.
- Strong fairness of `SetProof` and `Record` (pipeline), of `PairOrders` and `Commit`
  (book): an operation that is tried again for ever does not fail for ever. These errors are
  not counted as attempts, and without the assumption nothing can be promised, since a database
  that refuses every write stops the system. No fairness is assumed of proving, of the
  ledger, of an answer arriving, or of a transaction adrift ever landing.
- Weak fairness of `Restart`: the deployment restarts the engine. No fairness of
  `Cancel`, `Crash`, `InsertOrder` or `FormMatch`.
- The book assumes no fairness of `LockRow` and `InsertMatch` by name: a cycle takes some
  step as long as it can. What keeps two processes from breaking each other's
  transactions for ever is not fairness but PostgreSQL's queue for a row: when a deadlock
  is broken, the row the victim held goes to the transaction that waited for it. `Deadlock`
  models it, and without it `CrossesMeet` fails.

- `compose`: weak fairness of `Answer or GiveUp`, since the proxy answers after 50 s at the latest; of
  the handling of an answer and of the resolution of a seal, which are promises of the browser. No
  fairness of the engine, of the user, or of an answer being a good one.
- `screens`: weak fairness of each possible `CreateMatch` (the matcher polls), of the demo
  effect, of the timers and handlers of a page that is open; strong fairness of the
  answers to `listOrders` and `getMatch`: polls may fail again and again, not for ever. None of settlement,
  of posting, opening or leaving.

### Divergences

Four runs check what a comment, the schema or a test says and find it violated by what
the code does; none of them is a wrong state of money, all are in `PROJECT.json` with
their quotes.

- `viol_failed`: a settled match is recorded as `failed` when the answer of the CLI is
  lost. It is repaired by a later attempt, if one is left.
- `viol_starved`: abandoned matches stay in the oldest-first scan, and enough of them fill
  its LIMIT: younger matches are never dispatched. `FinishedOrExhausted` therefore passes
  only where the batch holds every match, as in `pipeline_live`.
- `viol_exact`: the form says of a nullifier collision that this exact order was accepted. Side
  and pair are taken from the form at the click and are no part of the seal: after a lost answer
  the user may change them and send the same seal again, and what is refused is not what was accepted.
- `viol_receipt`: the settled page sets the order of a listing before it has that order's match, and keeps
  the match it showed. After a broadcast from another tab it shows, and offers as one receipt, an order
  and the match of another.

Four more are known and have no run of their own.

- `lib.rs:39-41` says that keying by the two commitments lets a match be settled at most once, and `lib.rs:84` "Anti-replay: a
  match settles at most once". What the code gives is once for each key, and the key is of bytes while the proof is of residues
  (`verifier.rs:46`): whoever has the proof may settle the pair again under another encoding of a commitment. The engine
  asks for, and sends, the encoding below the modulus only, so that it does not notice. `NyxVerifier` takes this step
  (`OtherSettles`); `SettledMatches` holds of the second settlement too.
- Two matches with identical terms share one settlement: the second is found settled and confirmed
  (`matcher.go:290-299`), without a transaction of its own. The engine does not prevent it (`store.go:62-88` asks only for
  a new nullifier); clients whose salts are random do. `NyxVerifier` takes this step (`KnownSettled`), and its
  ledger is one of terms for that reason.
- An attempt beyond `maxProofAttempts` is possible, since the counter is
  read before the claim; `AttemptsBounded` states the bound that holds.
- A match that the idempotency check finds settled is confirmed without its transaction, which `is_settled`
  does not tell.

## 4. What is proved

Everything below is proved for every value of the constants that the named assumption of
the module allows, with no other assumption.

### The pipeline

`MatchPipeline_proofs` proves, for any finite or infinite set of processes, workers and
matches and every value of the limits, from `ConstantsAssumption` alone:

| Theorem | Property |
|---|---|
| `TypeCorrect` | `TypeOK` |
| `ConfirmedIsOnChainAlways` | `ConfirmedIsOnChain` |
| `NothingUnprovenLeavesAlways` | `NothingUnprovenLeaves` |
| `TablesAgreeAlways` | `TablesAgree` |
| `ConfirmedIsFinalAlways` | `ConfirmedIsFinal` |
| `PipelineImplementsLifecycle` | `ImplementsLifecycle` |
| `ClaimedOnceAlways` | `ClaimedOnce` |
| `AttemptsBoundedAlways` | `AttemptsBounded` |
| `PipelineImplementsRows` | `ImplementsRows` |
| `PipelineImplementsLedger` | `Ledger!Spec`, of `MatchLedger` |
| `ShutdownAdvancesAlways` | `ShutdownAdvances` |
| `ShutdownIsFinite` | the calls ahead of a process are finitely many |

The argument has three layers.

1. `SafetyInv == TypeOK /\ IdsFormed /\ Evidence /\ RowsTrue` is inductive. `RowsTrue` is
   the three table properties. They are not inductive alone: a worker about to record
   must be known to have seen the settlement, one about to submit to have stored the
   proof. `Evidence` says what each program counter is evidence of, and it stays true
   while others act because proofs and settlements are never taken back. `IdsFormed` says
   that ids in batches, the channel and workers belong to formed matches, which
   the mapping to `SettlementLifecycle` needs.
2. `ClaimedOnce` is inductive given `SafetyInv`: each action moves an id between exactly two
   of the places the invariant enumerates.
3. `AttemptInv` bounds the counter where it can still grow: at most the limit while the
   poll loop has checked the id or the id is in flight, one more than it otherwise.
   It uses `ClaimedOnce`: were an id held twice, each holder could fail once.

`ConfirmedIsFinal` and the three refinements follow from layer 1 step by step. The refinement of `MatchLedger` reuses
that of the lifecycle: a step that moves a match by one stage says by the stage what it does to the
ledger (`StageSteps`).

*Shutdown.* `StopEnds` is a liveness property and stays with TLC, but the half of it that a test would hardly
reach is proved: the argument that a shutdown cannot go round in circles. `ShutdownAdvances` is the variant,
ordered by inclusion of sets and, between loop and workers, lexicographically. It needs one more invariant (`CurTaken`: the id
that is being dispatched has left the batch) and `ClaimedOnce`, without which a worker's step could leave
the same id in another hand. `ShutdownIsFinite` adds that the sets that shrink are finite at any time: a scan
is limited (`OldestFinite`), and with it the batch, the channel and the ids in hand. What is left to TLC is that the
goroutines are scheduled and their calls return, which is the fairness assumed.

### The book

`OrderBook_proofs` proves from `BookAssumption`, for any processes and orders, whatever the
orders say and however the keys are configured:

| Theorem | Property |
|---|---|
| `BookTypeCorrect` | `TypeOK` |
| `BackstopIdleAlways` | `BackstopIdle` |
| `BookImplementsFullFill` | `ImplementsFullFill` |
| `PairingStableAlways` | `PairingStable` |
| `PairingUnique`, `PairingExists` | the result of `pairOrders` on any finite set of orders |
| `PairingAlwaysDefined` | whatever a cycle can load has exactly one pairing |

The inductive invariant `BookInv` has four parts. `PlanSound`: a plan joins orders that
cross and uses an ask once, so the pair a cycle has reached is unique. `TxSound`: a transaction only
updates rows of that pair, and before its commit it has locked both. `LocksSound`: a
locked row is open. `FilledMatched`: the orders of a match are matched. A plan may be
stale at any time, and nothing in the invariant says otherwise. What makes it harmless is that
a transaction which comes as far as its commit holds the locks of two rows that are
open *now*; that needs the count `RowsAffected() = 2` (lemma `BothRows`) and
the locks, and nothing else. The values of the orders never change, so that a pair which
crossed when it was planned still satisfies the circuit when it is filled.

`IsPairing` states what the loops of `pairOrders` compute without the loops, so that it has to be shown that there is
such a thing, and only one: else `PairOrders` would be an action that some books disable, or a choice
the code does not make. Two pairings differ at a first ask (`PairingUnique`), and a
pairing of the asks below a number extends to the next (`PairingExists`). The induction is over numbers and not over an operator:
the numbers at which a pairing fails to exist are a set, and a set of numbers that is not empty has a least member
(`LeastNatural`, from the well-foundedness of `<` on the naturals).

### The compose form

`Compose_proofs` proves from the named assumptions of `DeskKeys`, `Intake` and `Compose`, for any number of tabs,
desks, scripts, calls and seals:

| Theorem | Property |
|---|---|
| `ComposeTypeCorrect` | `TypeOK` |
| `ComposeBookIsSound` | `BookIsSound` |
| `ComposeBroadcastIsSealed` | `BroadcastIsSealed` |
| `ComposeActiveIsAccepted` | `ActiveIsAccepted` |
| `ComposeOneInFlight` | `OneInFlight` |
| `ComposeStaleOnlyWhileSealing` | `StaleOnlyWhileSealing` |
| `ComposeCollisionIsMine` | `CollisionIsMine` |

The inductive invariant `Inv` adds to the properties what calls, seals and guards know of each other. `CallInv`: a call that
was posted has a sender and a body. `BookInv`: what is in the book has passed the engine's checks. `SealInv`: the
seal on a button is a proper one, of values in range. `PendingInv`: the promise that will be heard is that of the
inputs on the screen, which makes `StaleOnlyWhileSealing` inductive together with `FormInv` (a form that
is not shown is in its initial state). `GuardInv`: a form with a broadcast under way has its guard up and no
second broadcast. `SaltInv`: a salt is found in one tab only, among its promises, its seal and its calls;
`CollisionIsMine` rests on it, since a nullifier that is taken can then only have been taken by the same tab. The proof
first shows what a few abstract moves preserve (`IntakeMove` for the calls, and the like for
the seals), then that each action is one of them.

### The contract

`NyxVerifier_proofs` proves from `CircuitAssumption` (2 * `Bound` <= `P`: an operand and one bit more
fit the field) and `VerifierAssumption`, for any orders, engines, callers and witnesses:

| Theorem | Property |
|---|---|
| `VerifierTypeCorrect` | `TypeOK` |
| `VerifierAcceptedCanSettle` | `AcceptedCanSettle` |
| `VerifierSettledMatches` | `SettledMatches` |
| `VerifierSettledOnItsTerms` | `SettledOnItsTerms` |
| `VerifierImplementsLedger` | `ImplementsLedger` |

Lemma `Comparator` shows that circomlib's comparator is that of the integers for operands below the bound, and
`ConstraintsMean` that the circuit checks this before it relies on it. The inductive invariant says that storage
and events hold the same keys, each once; that a confirmed match has a proof of its own orders, under whatever
commitments they came with; and that its key is set. What is proven under a key are the terms the key opens to
(`ProvenTerms`), which is why a copied commitment does not help. Nothing is assumed of salts, commitments or encodings. The
refinement of `MatchLedger` maps each match to its terms, and matches of the same terms to one: the key of terms is
theirs alone (`FormedPairs`), so that a key which is added lands one of them, or none when it is in another encoding or of
a pair the engine does not know (`CallLands`). Forming or confirming a second match of the same terms is a stutter. What the
theorem does not give is a settlement for each match; the code does not give it either.

### The pages

`Screens_proofs` proves from the assumptions of `ReadModel`, `Views`, `DemoCounter` and `Screens`, for any number of
orders, desks, pages, overlapping polls and deferrals, and any limits of the listings:

| Theorem | Property |
|---|---|
| `ScreensTypeCorrect` | `TypeOK` |
| `ScreensNeverAhead` | `NeverAhead` |
| `ScreensStagesInOrder` | `StagesInOrder` |
| `ScreensOneCounter` | `OneCounter` |
| `ScreensReadMatchRows` | `ReadsMatchRows` |

`Later` names what no step of the engine takes back: an order that is known, the match of an order, the row of
a match, its proof and its confirmation. A failed settlement is not among these, and no page is held to it. `TrueListing`
and `TrueRow` say what a listing and a row claim; `ViewInv` says it of everything that is shown *and of everything on
its way to a page*, which is what makes the order of the answers irrelevant: an answer was true when it was given, and by
`Later` it is true whenever it arrives (lemmas `ListingLasts` to `ViewsLast`). `EngineInv` says that a match is the older
of its orders and that a settlement is attempted of proven matches only. `DemoInv` says that a counter is the only
order of its page, and that a page whose counter is not inserted has none. With the count of the other orders it bounds the
table (lemma `OrdersBounded`), by an injection of the counters into the pages.

### Only model-checked

`StopEnds`, `FinishedOrExhausted`, `CrossesMeet`, `BroadcastEnds`, `DemoFills` and `ViewCatchesUp`: liveness under
fairness, which needs ENABLED. Every invariant, action property and refinement that a run checks is also a theorem.

## 5. What is not modelled, and why

- snarkjs, the `stellar` CLI, Groth16, Poseidon and AES-GCM: external; only their outcomes.
- The static pages of the site, deployment and documentation: no state.
- The StrKey codec (base32 and CRC16), JSON and the parsing of numerals, point and verifying-key encodings:
  data without state; a signature check is modelled as what it promises.
- What the end-to-end script asserts; what it posts is among the orders of `Compose`.
- The HTTP server's own shutdown, connection pooling, configuration parsing, logging:
  I/O whose results enter the models as constants.
- Failures with the same outcome as one that is modelled: `Begin` that fails, or an UPDATE of `CreateMatch` that fails for
  another reason, ends the transaction like `CommitFailed` and changes nothing.
- Rows that the API cannot have written: `OpenOrdersByPair` and `pairOrders` skip orders with a blank commitment or a
  payload that is no numeral, which `handleCreateOrder` has refused.
- Requests without a commitment or nullifier, or with a salt that is no numeral: refused like those `Intake` has.
- The order in the URL: `activeOrderId` prefers `?order=`, which fixes the order of a page; `Views` follows the
  active order, which may change under it. In `ReadModel` an asset pair, a price and a size that cross are one `lot`.
- Two browsers with one desk: the desks of a browser are its own, others are among the scripts.

## 6. Plan

What would extend this most:

1. The composition of `OrderBook` and `MatchPipeline`, with `FormMatch` as the commit of a
   match and the blob keys deciding which matches can still be loaded after a restart. Apart, `FormMatch`
   is free to happen at any time, and a match whose orders cannot be opened is one that cannot be proven.
2. The variants of the other liveness properties, as `ShutdownAdvances` is that of `StopEnds`: the attempts that
   are left to a match (`FinishedOrExhausted`) and the calls of a broadcast (`BroadcastEnds`).
