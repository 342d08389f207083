# TokenPumper in TLA+

TokenPumper is a Rust program that launches a pump.fun token on Solana. It prepares a
set of wallets, takes a token from a roster, listens for shreds of the cluster's leaders
and, when a slot led from a chosen country begins, submits the launch transaction. A
subscription to the bonding curve then fires the wallets' buys, and one second later
their sells. This directory holds TLA+ models of its stateful parts, TLC configurations
that check them, and TLAPS proofs about them. Paths below are relative to `src/`.

## 1. The system

### Components, their state, what makes them correct

| Component | State | Operations | What must hold |
|---|---|---|---|
| wallet bootstrap, `keys/*` | key files `funder.json`, `keys/<day>/<n>.json`; lamports on chain; transactions under way | read or create files, sweep to the eater, wait, verify zero, replace keys, refill, distribute | lamports are never on a wallet whose key file is gone; a rerun recovers from every failure |
| token roster, `pumpfun/tokens.rs` | `cache/tokens.json`, `keys/tokens.jsonl` | draw mint keys, pick, claim | a mint key is assigned and launched at most once; the debug sentinel stays |
| node1 submitter, `senders/node1.rs` | unbounded channel, worker, connection, tasks in flight | submit, send, give up, shut down | one arrival per transaction; nothing queued is forgotten while the connection lives; shutdown returns |
| curve subscription, `curve_sub/*`, `pumpfun/buy.rs`, `sell.rs` | stream, first-signal latch, observed balances, deadline task | connect, reconnect, fire buys, fire sells | buys and sells go out once, in order, and sells rest on balances that exist |
| shred trigger, `shreds/stream.rs`, `receiver.rs` | current slot, count, latch | count a data shred, fire | fires once, on the right shred, for a slot of the focus country |
| leader cache, `leaders/bootstrap.rs`, `fetch.rs`, `cache.rs` | `cache/leaders-epoch-<e>.json`, the loaded table | fetch, write, load, `is_focus` | the table is the one of the epoch its name says |
| slot window, `leaders/window.rs` | bitmap, base, mask | `slide_to`, `contains` | marks exactly the slots of the allowed regions |
| block-engine session, `jito_auth/*` | tokens and their expiries, cadence, subscription | refresh, re-handshake, heartbeat | the token and the subscription do not lapse |
| blockhash cache, `blockhash.rs` | last hash | refresh every 10 s | the hash is young enough to land |
| quotes, `pumpfun/quote.rs`, `docs/pump-sdk/src/bondingCurve.ts`, `fees.ts` | the Global account read at start | price a buy or a sale, limit it | a fresh quote is accepted; rounding never favours the trader |
| transaction building, `pumpfun/ix_builder/*`, `pda.rs`, `alt.rs` | addresses fixed at start | the launch, buy and sell messages | the accounts, their order and flags are those the programs demand |
| vendored SDK, `docs/pump-sdk/src/*` | none of its own | read accounts, build the instructions of its calls | calls land while what they read is true; fees are never stranded; shares are payable |
| `rpc.rs`, `ipfs.rs`, `config.rs`, `ui.rs`, `main.rs` | none of their own | calls, parsing, printing, order of the phases | |

### How they interact

`main` runs the phases in order: load the roster and draw keys, pick a token, prepare the
wallets, upload the metadata, claim the token, build the leader file, start the node1
worker, the shred receiver thread, the two block-engine tasks and the curve task. From
then on they share only the exit flag, the submitter (cloned into every context that
fires), the leader cache, the bearer token in the interceptor, the blockhash, and one
atomic balance per wallet. Ctrl-C sets the flag; `main` then joins the receiver, shuts
node1 down, joins the curve task and returns, which drops the detached tasks.

What persists from one run to the next is on disk (key files, roster, pool, leader files)
and on the chain (lamports, transactions that can still land).

### What is hard

* A crash or an error between any two writes or calls, followed by a rerun, possibly on
  another day or with another configuration.
* Transactions that are refused although forwarded, time out although valid, or land
  after the program that sent them has moved on.
* Tasks that meet in shared state: the deadline task reads balances the stream task
  writes, the heartbeat sends the token the refresher replaces, shutdown waits for a
  worker that waits for senders.
* Streams that break and repeat, packets that interleave and repeat.
* Amounts that the client rounds, and the program rounds again, on a curve others move.
* Calls built from accounts that change before they land: the creator, the phase, the
  shareholders of a coin, the reserves of coins to come.
* Epochs, tokens and subscriptions that run out while something is being computed.

`PROJECT.json` lists each of these as a hazard at its line, with the properties that
watch it.

## 2. Modules

| Module | Models | Composes |
|---|---|---|
| `WalletRotation` | `keys::prepare`, run after run, with the chain | |
| `WalletRotation_proofs` | its inductive invariant and theorems | `WalletRotation` |
| `KeyLedger` | abstract: a mint key is free, drawn, assigned or lost, and spent once | |
| `TokenRoster` | `pumpfun::tokens` with its two files, and `main`'s use of it | refines `KeyLedger` |
| `TokenRoster_proofs` | its inductive invariant and theorems | `TokenRoster` |
| `Node1` | channel, worker, send tasks, shutdown | |
| `Node1_proofs` | its inductive invariant and theorems | `Node1` |
| `LaunchPlan` | abstract: the order in which a launch may submit transactions | |
| `Launch` | the live phase: receiver, curve task, deadline task, node1, Ctrl-C, chain | instance of `Node1`, refines `LaunchPlan` |
| `Launch_proofs` | its inductive invariant, theorems and refinement | `Launch`, instance of `Node1_proofs` |
| `LeaderCache` | the leader file of an epoch and `is_focus` | |
| `ShredTrigger` | the packet handler that fires the launch | instance of `LeaderCache` |
| `ShredTrigger_proofs` | inductive invariants and theorems of the handler and of the slot window | `ShredTrigger`, `FraWindow` |
| `FraWindow` | leader file checks, bitmap, sliding window | |
| `MCFraWindow` | concrete leader files for TLC | `FraWindow` |
| `JitoSession` | token refresher and heartbeat in discrete time | |
| `JitoSession_proofs` | its inductive invariants and theorems | `JitoSession` |
| `PumpCurve` | the arithmetic of quotes and fees, without state | |
| `Trade` | one coin's curve: the bot's launch, wallets, users of the SDK, burns, migration | `PumpCurve` |
| `MCTrade` | reserves, fees and tiers for TLC | `Trade` |
| `Trade_proofs` | its inductive invariant and theorems | `Trade` |
| `PumpIdl` | the programs' tables of accounts: order, flags, fixed addresses, seeds | |
| `PumpSdk` | addresses and instructions as the SDK builds them | instance of `PumpIdl` |
| `PumpMessages` | the bot's three messages, as the network reads them back | `PumpSdk` |
| `PumpCalls` | one coin on chain, and every call of the SDK and the bot landing on it | `PumpMessages` |
| `MCPumpCalls` | modes and lists of shareholders for TLC | `PumpCalls` |
| `PumpCalls_proofs` | its inductive invariant and theorems | `PumpCalls` |

### How state and actions correspond to the code

**WalletRotation.** A wallet is a number; a key file is absent, blank (created, not yet
written: `storage::write_new` opens with `create_new` and writes afterwards) or holds a
key. `fundFile` and `batch[day][slot]` are the disk; `bal` and `mempool` are the chain;
`pc` and the rest are the process. Each file-system call and each RPC call is an action:
`OpenChild`/`WriteChild`, `ClearJson`, `Audit`, `SendChunk`/`SkipChunk`/`FailChunk`,
`Settled`/`SettleTimeout`, `VerifyZero`/`Stranded`, `SendRefill`, `RefillTimeout`,
`Distribute`. `Land` and `Drop` settle a transaction at any time, also in a later run
(`LateKinds`). `Crash` ends the process between any two of them, `Midnight` moves the
date, `Start` may change the configuration: `batch_size`, the accounts and `debug`.

`Next` is what the program can do. Two things it leaves to its operator are not checked by
the code, and the safety of the keys rests on them. `CarefulNext` restricts two of its
actions accordingly: `CarefulStart` changes `batch_size` only while nothing is on today's
batch or on its way there (`Emptied`), and `CarefulVerify` passes the gate only once the
refill of an earlier run has landed or expired. Nothing else is restricted, and neither
condition is an assumption about the constants. The safety properties are checked and
proved of `CarefulSpec`, and type correctness is proved of `Spec`. Section 3 says what
happens without each condition.

**TokenRoster.** `roster` and `pool` are the two files, each replaced by one rename
(`write_atomic`). `Hydrate` works in memory, `ShrinkPool` and `SaveRoster` write, in that
order. `launches` and `minted` are history variables.

**Node1.** `queue` and `holders` are the channel: it closes when no one holds a sender.
`worker` follows the loop: `top` tests the exit flag, `select` waits. `sending` holds the
tasks in flight.

**Launch.** The three threads of control and `main`'s shutdown, over `Node1`. `updates`
is what the provider has sent and the stream task has not read; a broken stream loses it.
`landed` and `expired` are the chain.

**LeaderCache, ShredTrigger.** Of a leader schedule only the focus slots matter, so a
schedule is a set of offsets, and a file is named by the epoch whose schedule it was
built from. The handler counts a packet in one step, as the receiver thread does. `data` is a
history variable: the slots of the data shreds of this run, in their order.

**FraWindow.** A 64-bit word is the set of its set bits, so shifts and masks become set
definitions; slots are below `TwoTo64` and arithmetic wraps and saturates there. Nothing
in `main` constructs the window yet: it is library code with unit tests.

**JitoSession.** Every instant is kept as the time left until it, and `Tick` takes a unit
off all of them. A call is answered or fails within `Latency`.

**PumpCurve, Trade.** Amounts are exact naturals, as in bn.js and in `quote.rs`'s u128.
`Launch` is `create_v2` and the buy in one transaction, priced from the Global account the
bot `cached`; `SetParams` changes it in between. `PlaceBuyForSol`, `PlaceBuyOfTokens` and
`PlaceSell` are a user's fetch, quote and limit; `Lands` and `Refused` are what the program
answers, any number of trades later. `WalletBuy` and `Sell` are the bot's orders without a
limit.

**PumpIdl, PumpSdk, PumpMessages, PumpCalls.** An address is the program and the seeds it
is derived from, so two addresses are equal when they are derived alike. `PumpIdl` has one
row per account of an instruction: `given` by the caller, `fixed`, or `derived`.
`PumpSdk!Instructions` fills in what a builder leaves out as Anchor does. `PumpMessages`
keeps the key lists, header counts and positions of `ix_builder`, and decodes them back to
accounts and flags. `PumpCalls` has one action per call. It records what the caller `seen`
of the coin; `Land` runs the instructions one by one and undoes them all if one is refused.
A graduated coin has two creators, the curve's (`creator`) and the pool's (`pool`), because
`adminSetCoinCreatorInstructions` sets them with an instruction each (`onlineSdk.ts:240-249`).
The second one, like the second one of `collectCoinCreatorFeeInstructions`, is built by the
AMM's own SDK, which is not in the repository: it is modelled from the AMM's IDL. The methods
named `BothPrograms` that build instructions (token incentives, their claim, the volume
accumulator) append that SDK's counterpart to one that is modelled, and are left out.

### The chain, an assumption

The programs are not in the repository. What they do is modelled from their IDLs and from
what the SDK's and the bot's comments say of them, and marked external in the map:

* a program checks flags, fixed addresses and seeds as its IDL has them, with the data of
  the accounts as they are when it runs;
* the errors of the IDLs give the conditions: shares are set once (`pump_fees.ts:2967`), a
  creator who moved to a sharing configuration cannot be replaced (for the pool's creator
  this is taken from the curve's), the remaining accounts must be the shareholders in order,
  cashback needs the accumulator;
* a buy charges the price and the two fees, each rounded up (`quote.rs:56-65`), takes no
  more tokens than are left and is refused above its limit; `buy_exact_sol_in` follows the
  comment of its IDL;
* the admin who may set the creator of the curve is the one who may set the pool's; the
  pool takes over the curve's creator when the coin migrates, and a sharing configuration
  made after that becomes the creator of both;
* a burn reaches the mint's supply and not the curve.

`LaunchFeesAssumption` says that a new coin is charged at most the 95 and 30 basis points
`quote.rs` fixes. The comment there tells of a launch that was refused when it did not hold.

### Abstractions

* Amounts are small numbers, and fees, jitter and priority fees are left out. The refill's
  balance read and its send are one step; the eater has no other writer.
* `write_atomic` is its rename. `fsync` is not modelled (the code does not call it): a
  crash is the program's, not the machine's.
* One process runs at a time.
* An associated-token-account update with amount 0 before the buy lands is left out: the
  balance is 0 before and after it.
* `WalletRotation` picks `debug` at each start; a debug run stops at the audit, as the code
  does for everything that would write.
* The variant table of `wire.rs` is data or coding shred with a slot.
* The block engine answers or fails within `Latency`: `transport.rs` sets no timeout on a
  call, so a server that takes a call and never answers stops that task for good.

## 3. Runs

TLC checks invariants (I), action properties (A), refinements (R) and liveness (L).

| Run | Checks | Bounds |
|---|---|---|
| `WalletRotation` | I `TypeOK`, `NoFundsLost`, `NoTransferToLostKey`, `SweptBeforeRefill`; A `RotateOnlyEmpty` | `CarefulSpec`: 3 runs, 2 days, 2 faults, 12 keys, batches of 2 and 3, two or three accounts, one of them outside a batch of 2 |
| `WalletRecovery` | L `Recovers` | 6 runs, 1 fault, a batch of 2, 1 account, late sweeps and distributions |
| `TokenRoster` | I `TypeOK`, `NeverAssignedTwice`, `LaunchedOnce`; A `SentinelKept`; R `ImplementsLedger`; L `Recovers` | 3 tokens, 4 keys, 4 runs, 2 faults |
| `Node1` | I `TypeOK`, `SentOnce`, `InOrder`; L `Served` | 3 transactions, 2 clients |
| `Launch` | I `TypeOK`, `SellsAreBacked`, `SentOnce`; R `ImplementsPlan`; L `Unwound` | 2 wallets, 1 network fault, 1 foreign trade |
| `ShredTrigger` | I `TypeOK`, `FiresOnFirstRun`, `LaunchedForFocus` | 2 epochs of 2 slots, 2 runs, 1 fault, 5 packets, threshold 2 |
| `FraWindow` | I `WindowTypeOK`, `Sound`, `Exact` | epochs of 66, 70, 80 and 130 slots, 230 slot numbers, every slide |
| `JitoSession` | I `TypeOK`, `KeptAlive`, `TokenOutlives`; L `Recovers` | 2 failing calls, margin 4, token 7, refresh token 24, ttl 9 or 12 |
| `Trade` | I `TypeOK`, `LaunchBuyLands`, `Solvent`, `FreshQuotesLand`; A `ProductNeverFalls` | 1 user, 3 trades, 2 Global accounts, 2 fee tiers, 4 budgets, 3 token amounts, slippage 0.1 % and 1 % |
| `PumpCalls` | I `TypeOK`, `FreshCallsLand`, `NoFeeStranded`, `SharesPayable` | one coin, 2 users, plain or mayhem and cashback, 8 lists of shareholders, one call under way |
| `WalletLateRefill` | I `NoFundsLost`, violated | refills may land late |
| `LaunchShutdown` | L `ShutdownReturns`, violated under fairness | |

Why the bounds are enough. *WalletRotation*: three runs let one run create a generation,
a second sweep or fail to sweep it, and a third rotate over what the second left; two
faults are a crash and a lost call in the same behaviour; the rent minimum is above what
one child holds, so chunks are skipped. Twelve keys are enough: a run generates at most
four, a funder and three children. *WalletRecovery*: one fault can cost one run, what it left
under way a second, and its distribution landing late a third; four runs after any moment
are promised, and six leave two before it. The bounds leave out what would make the promise
false for a reason the code is not about: refills that are late or lost again and again drain
the eater, a rent minimum above what the wallets hold keeps a sweep from ever being
sent, and an account outside the batch is refused in every run. *TokenRoster*: a crash between the two writes in one run and another one in the
next, with keys running short. *Launch*: two wallets are the fewest for an order among
buys and among sells. *ShredTrigger*: five packets hold two full counts and an
interruption. *FraWindow*: the epochs begin at 0, in the middle and end at the last u64;
their lengths end a word in the first, the second and the third word.
*JitoSession*: the constants keep the proportions of the code (poll < margin < token).
*Trade*: reserves in the proportions of mainnet's Global account; the budgets include one
whose combined fee overshoots by a lamport, one that buys nothing and one that buys the
curve empty; trades and burns cross the tier in both directions. The theorems of
`Trade_proofs` need none of these bounds. *PumpCalls*: the model counts nothing, so its
state space is the complete one for a coin with two users; a second call under way would
only be another reason for the first to find the coin changed, which any of the coin's
other steps already is. Of the eight lists six are turned down, each for another reason.

Deadlock is checked in `FraWindow`, `JitoSession` and `PumpCalls`: the other programs stop, when
their runs are used up or when `main` has returned.

### Fairness

* `WalletRotation!FairSpec`, `TokenRoster!FairSpec`: a started program goes on, the
  operator reruns it after an error, the network settles what it holds. Faults are
  bounded, not fair. `WalletRotation!Recovers` promises a live program within `Spare` more
  runs. Its one escape is `Wedged`: the program is down, and the funder's file or one of a
  complete batch is empty, which a crash between `create_new` and `write_all` leaves and
  which every later run ends at. An empty file that a healthy run is about to write does not
  count, and neither does one in an incomplete batch, which the next run clears.
* `Node1`, `Launch`: tasks that can run do (tokio's scheduler), a send ends within its 5 s
  timeout, the network settles. Ctrl-C, the launch, strangers and faults are not fair.
  In `Launch` one weak fairness condition covers all these steps: each of them happens
  finitely often, so none stays enabled for ever.
* `JitoSession`: each task and the clock.

### What the violated runs show

* **WalletLateRefill.** `wallets.rs:157-160`: the gate "catches it before the keys are
  gone". A refill that is not seen within 30 s (`refill.rs:50`) is still valid for the life
  of its blockhash. The next run finds the funder empty, replaces its key, and the refill
  lands on the old one.
* **LaunchShutdown.** `node1.rs:89-91` describes a shutdown that ends the worker by
  dropping the channel. The sell contexts `main` still owns hold clones of the submitter,
  and the worker, parked in `select`, does not see the exit flag: Ctrl-C hangs as long as
  the connection is healthy.

### Other differences between comments and code, without a run

* `wallets.rs:116-117`: "before overwriting any key file, every wallet we're about to rotate
  must show 0 lamports on chain". If `batch_size` grows between two runs of a day,
  `batch.rs:10-15` takes the incomplete branch and `create_fresh` clears the directory
  before anything is swept or verified. When it shrinks, the batch is complete, the files
  beyond it are neither swept nor verified, and the rotation clears them with the rest.
  TLC finds the first within two runs and no fault when `RotateOnlyEmpty` is checked of `Spec`
  instead of `CarefulSpec` (`Sizes = {1, 2}`, one account, nothing landing late).
* `main.rs:26-28` announces that in debug mode on-chain transactions will be skipped, and
  `config.toml:44-45` says a debug run skips the QUIC connection. `spawn_node1`
  (`main.rs:295`) looks only for the API key, and `fire_launch` submits.
* `blockhash.rs:8-12` says the hash is "never older than ~10s when we sign over it" and that
  only sustained failure could push it past its validity. A call may take
  `RPC_TIMEOUT` (15 s): the first hash may be 15 s old when it is stored, the first refresh
  starts 10 s later and may take 15 s, which makes 40 s without any failure. One failed
  refresh adds 15 s (55 s, still within the 60 s), a second one in a row exceeds the window.
* `sdk.ts:1169` and `sdk.ts:1228` say the two social-recipient builders initialise "any
  missing" recipient accounts. The code always sends `createSocialFeePda`; in `PumpCalls`
  the program accepts it for an account that exists.
* `getBuyTokenAmountFromSolAmount` looks the fee tier up with the supply of today, `getFee`
  with the supply at creation unless the coin is in mayhem mode. When burns carry the market
  cap across a tier, a budget quote is refused on the very curve it was priced on.
  `FreshQuotesLand` excludes this case (`SameTier`).
* `sellInstructions` takes `mayhemMode` and `cashback` from the caller, with `false` as
  default, where `buyInstructions` reads the mode off the curve. `Due` makes passing the
  right ones the caller's duty.
* `tokens.rs:149-150`, `config.toml`: the debug sentinel is for dry runs, but a run with
  `token_debug = true` and `debug = false` launches it for real, each time with the same
  mint key.
* `node1.rs:89` says the worker drains; on the exit flag it leaves what is queued
  (`node1.rs:206`). `Node1` keeps this in `lost`.
* `config.rs:53-55` and `stream.rs:2-3` speak of the n-th shred of a slot; packets of other
  slots reset the count, so it is the n-th in a row, which is what `FiresOnFirstRun` states.
* `bootstrap.rs:82` says "true iff" the slot's leader is of the country. If the epoch turns
  between `getEpochInfo` and `getLeaderSchedule`, the file of the old epoch holds the new
  schedule. `LaunchedForFocus` excludes exactly this case.
* `window.rs:66-67` defines bit i of the mask without exception. After a slide outside the
  epoch the mask is cleared, and as long as that window overlaps the epoch later slides
  into it return early (`window.rs:123`) and miss slots. `Exact` excludes a window that has
  strayed; `Sound` does not need to.

## 4. Proofs

All are checked by TLAPS for every value of the constants that satisfies the modules'
assumptions.

| Theorem | Property | Assumes |
|---|---|---|
| `WalletRotation_proofs!FundsAreNeverLost` | `NoFundsLost` | `CarefulSpec` |
| `WalletRotation_proofs!LateTransfersAreSafe` | `NoTransferToLostKey` | same |
| `WalletRotation_proofs!OnlyEmptyKeysRotate` | `RotateOnlyEmpty` | same |
| `WalletRotation_proofs!SweptFirst` | `SweptBeforeRefill` | same |
| `WalletRotation_proofs!TypeCorrect` | `TypeOK` | nothing: it holds of `Spec` |
| `TokenRoster_proofs!KeysAreAssignedOnce` | `NeverAssignedTwice` | |
| `TokenRoster_proofs!KeysAreLaunchedOnce` | `LaunchedOnce` | |
| `TokenRoster_proofs!TheSentinelIsKept` | `SentinelKept` | |
| `TokenRoster_proofs!FilesImplementLedger` | `ImplementsLedger` | |
| `TokenRoster_proofs!TypeCorrect` | `TypeOK` | |
| `ShredTrigger_proofs!NeverLetsThrough` | `Sound` | |
| `ShredTrigger_proofs!AnswersExactly` | `Exact` | |
| `ShredTrigger_proofs!WindowTypes` | `WindowTypeOK` | |
| `Node1_proofs!NothingIsSentTwice` | `SentOnce` | |
| `Node1_proofs!TakenInOrder` | `InOrder` | |
| `Node1_proofs!TypeCorrect` | `TypeOK` | |
| `Launch_proofs!FollowsPlan` | `ImplementsPlan` | |
| `Launch_proofs!SellsBacked` | `SellsAreBacked` | |
| `Launch_proofs!NothingSentTwice` | `SentOnce` | |
| `Launch_proofs!TypeCorrect` | `TypeOK` | |
| `ShredTrigger_proofs!FiredOnce` | `FiresOnFirstRun` | |
| `ShredTrigger_proofs!OnlyForFocus` | `LaunchedForFocus` | |
| `ShredTrigger_proofs!TypeCorrect` | `TypeOK` | |
| `JitoSession_proofs!TokenIsGood` | `TokenOutlives` | `LongLived` |
| `JitoSession_proofs!NeverMissed` | `KeptAlive` | `Prompt` |
| `JitoSession_proofs!TypeCorrect` | `TypeOK` | |
| `Trade_proofs!LaunchBuy` | `LaunchBuyLands` | |
| `Trade_proofs!CurveSolvent` | `Solvent` | |
| `Trade_proofs!FreshQuotes` | `FreshQuotesLand` | |
| `Trade_proofs!ProductHolds` | `ProductNeverFalls` | |
| `Trade_proofs!TypeCorrect` | `TypeOK` | |
| `PumpCalls_proofs!FeesReachTheirOwner` | `NoFeeStranded` | |
| `PumpCalls_proofs!FreshCallsAccepted` | `FreshCallsLand` | |
| `PumpCalls_proofs!HoldersCanBePaid` | `SharesPayable` | |
| `PumpCalls_proofs!TypeCorrect` | `TypeOK` | |

**Wallet rotation.** The theorems but `TypeCorrect` are about `CarefulSpec`: `batch_size` is
only edited while today's batch is empty, and no run passes the gate with a refill of an
earlier run under way. The code enforces neither, and neither can be dropped: see the first
of the differences above and `WalletLateRefill`. Under them batches have any size and change
it, and transactions of every kind land late. The argument is this.

A batch directory that is not complete has never been paid for (`CleanOK`), and neither have
the files beyond `batch_size` (`Beyond`), so clearing them loses nothing; `Emptied` carries
this over an edit of the configuration. Distributions are paid by a funder that `VerifiedOK`
reads as empty at the gate and that no refill under way will fill again, so a distribution of
an earlier generation can never be paid any more (`TransfersOK`, `DistributedOK`). Hence between the gate's reading and the removal of the
files no payable transaction credits a wallet being rotated, and the reading is still true
when the file goes. `Fresh` and `Apart` say that new keys are new and that no key has two
roles; `MemoryOK`, `StageOK` and `DirsOK` tie the process's memory to the disk. None of
these is implied by `NoFundsLost`, which is not inductive by itself: it does not say what
is under way. For `SweptBeforeRefill` the invariant is joined by `NewBatchOK`: from the
moment a run deals itself a fresh batch until it pays for it, nothing was paid into that
directory and nothing under way can be.

**Token roster.** The invariant says where each key can be: in the pool, in the roster, or
only in the running process between its two writes; and that what the process holds agrees
with the roster at each program point. Because the pool shrinks before the roster grows,
the two never overlap. The refinement of `KeyLedger` maps a key to the place the invariant
says it has, and each of the two writes to one step of the ledger: `ShrinkPool` draws,
`SaveRoster` assigns, a crash between them loses. `DrawOK` adds to the invariant that
the keys the process has taken from the pool in memory are those its roster has gained, so
that what `ShrinkPool` draws is what `SaveRoster` assigns.

**Slot window.** The window reads the leader file the handler's table comes from and shares
no variable with it; its theorems stand in the same module, which extends both. The lemmas relate the bitmap to the leader file (`MarkedIsInRegion`), the
unaligned read to the bitmap (`ReadBits`, over `WordBits`), and the mask to the bits it
should show (`WindowStarts`, `WindowSlides`). `Sound` follows because the read at base b shows
bits b..b+63 only, zero past the end; `Exact` needs in addition that the window has not
strayed, so that the early return is taken on a mask that is still true.

**node1.** `TypeOK`, `SentOnce` and `InOrder` are inductive together: that a new
transaction is nowhere yet follows because `SentOnce` accounts for every submitted one. Two
lemmas say what appending to a sequence and taking its head do to its elements.

**Live phase.** The theorems of `Node1_proofs` are used through an instance: every step of
`Launch` that touches node1 is one of node1's (`SubmitOK`, `OtherStepOK`), except that
main's return drops the sends in flight, for which `Joined` says that the worker is gone by
then. The steps that submit have to show that what they submit is new. `Ahead` gives
this: the cursors of the two loops are past everything submitted. `Sequenced` ties the latches
(`fired`, `first_signal_fired`, the deadline task's stage) to the length and the last
element of what was submitted, so each submission is the plan's next; no step resets a
latch, which is why a reconnect cannot repeat one. `Backed` says what the stream may carry:
a balance of 1 only for a wallet whose buy has landed. It has to speak of the undelivered
updates as well as of the balances, and `SellsAreBacked` follows.

**Shred trigger.** `Counts`: the counter is the length of the longest run of one slot that
ends with the last data shred. `Latch`: the flag is down exactly as long as no run has been
completed, and afterwards the launch names the slot of the first that was. A run is
completed at one packet only, since the counter passes the threshold at one packet only.
`OnlyForFocus` follows: the slot that completed it passed `is_focus`, the table is the one
the process loaded at its start, and `FocusIsTrue` says that a table built within its epoch
is right for every slot, those of other epochs included.

**Block-engine session.** Both invariants are budgets. `TokenInv`: what is left of the
token, plus what failed calls in a row can have cost, plus the step under way, makes up for
the margin. `Covered`: what is left of the subscription covers the call under way and, as
long as none has failed, another period and the call it starts. The hypotheses are about
what the block engine grants. `LongLived`: an access token lives for the margin at least;
one that does not is due at once and says nothing about the refresher. `Prompt`: a ttl is
at least three units, two calls and two periods (thirds of the ttl) fit in it, and so does
a call after any period the heartbeat may still have from an earlier answer. Each part of
`Prompt` is needed: with a ttl of 6 and a latency of 1, with a period of 8 before a ttl of
9, or with a ttl of 2, TLC finds a lapse.

**Trading.** Each lemma about a quote is one inequality between products: the price of a
buy leaves the product of the virtual reserves no smaller, and so does a sale's.
`IInv` keeps, besides the types, that the reserves of a curve are those it was born with
plus what moved (`Book`), that their product is at least the one at birth, and that an
order still says what it was priced on. `Solvent` follows: with the product no smaller than
at birth, all tokens outside the curve sold at once cannot bring it below the lamports it
was born with, which were never real. `NetSolFits` is the claim of `quote.rs:56-58` that a
single decrement is exact; `LaunchCost` carries it through the tokens bought, the price of
them and both fees.

**Calls on a coin.** `ModesAssumption` and `ShareListsAssumption` only say what a mode and a
list of shares are. The invariant has three parts about the coin and one about the call under
way. `Good`: the types, that the curve, and the pool once there is one, name the sharing
configuration as creator exactly when it exists (`OwnersHold`), and that fees are only ever in the vaults of an owner
(`VaultsHold`). `Payable`: every shareholder can be paid. `Collectable`: a vault of the AMM that
holds fees is open, and fees in the vaults of the sharing configuration are there for its
shareholders. `CallOK`: the call under way was made by one of the actions. `NoFeeStranded` is
not inductive without `Collectable`, and none of the properties is without `CallOK`: a call
lands on a coin that may have changed in any way since it was built, so what it brings along
has to be safe on every coin, and only what a caller can have asked for is. TLC checked the
invariant on the run's instance (105,930 states) before it was proved.

The proof follows an instruction through the layers. Its rows are filled in by three sweeps
of Anchor's resolver (`StepKeeps`, `CompletedKeeps`), and the program reads in each row's
place what they found (`AccountIs`). If it runs, its rows hold (`GivenHolds`, `DerivedHolds`,
`TradeHolds` and so on), and one lemma per group of instructions shows that the coin stays
good (`CreateKeeps` to `OtherKeeps`). What no program checks is `Demands`: the creator that is
passed, the shares. `Asks` says the same before the sweeps, and a lemma per method says that what
it builds asks for the right things. The two methods that set shares open the accounts of the social
recipients in the same transaction (`UpdatePrepared`), which is undone as a whole when one
instruction is refused: that is why `SharesPayable` holds however late the call lands. The bot's messages
are first decoded as the network does (`DecodedIs`, `LaunchLands`, `BotBuyLands`,
`BotSellLands`).

`NoFeeStranded` needs the converse, that a program *accepts* the instructions of a method. A
list of rows is `Fillable` when two sweeps find all its accounts from the names the caller
gives, whatever the addresses are; for such a list the rows that were left out hold because
they derive the addresses the program derives (`DerivedRowHolds`), and the instruction runs
when the given ones are right and its condition is met (`FilledRuns`). `UserCollects` and
`HoldersAreShared` apply this to the instructions that pay out fees.

`FreshCallsLand` needs it of every instruction. Three steps lead there. *Each account list can be
filled in* (`CreateTable` to `UpdateTable`; a migration finds its pool only in the second
sweep, `PoolFound`), and the lemma names the rows that have a rule of their own but that the SDK
fills in itself, which is where it could get a derivation wrong (`Chosen`). `Accepted` then leaves three things to
show of an instruction: those rows, the accounts after the list, and that the coin is ready. One lemma per
instruction shows them and says what the instruction makes of the coin (`CreateRuns` to
`MigrateRuns`). *Each method* chains them (`Leads`, `Succeeds`): the launch, a buy that first
extends the curve and opens the account where that is needed, consolidation before a payout, social accounts before
shares (`LaunchSucceeds` to `ShareSucceeds`). *The bot's messages* do not go through the
resolver. There, an account is a position in a list of keys the bot writes by hand, followed by what the lookup
table adds: `LaunchTextRead` and its like say which key each position has, `LaunchTextMarks` which
positions are writable or sign, and six lemmas (`LaunchCreateWritten` to `SellWritten`) read off what every
row of every instruction finds there.

Here `CallOK` also has to say what the actions make sure of before they call: the authority calls
what only it may, only a holder sells, and shareholders are there when the configuration was
read. The theorem is about a call that is due and whose coin still is what was read. That calls land
late as well, and are then refused or not, is part of every other theorem on this module.

Induction over lengths is used here although the library's theorem cannot be instantiated:
`Inductive` derives it for a set of naturals from the well-foundedness of `<` on them.
`LandedIs` and `SweepIs` use it to unfold the two recursive functions of the model.

**Only model-checked.** Liveness under fairness (`Recovers`, `Served`, `Unwound`), which is
out of the prover's reach.

## 5. Plan

Done, in this order: wallet rotation (the part that can lose money) with proofs; token
roster with proofs; node1 with proofs; the live phase over it with proofs; leader cache and shred trigger with proofs; the slot
window with proofs; the block-engine session with proofs; quotes and the curve with proofs; the account
tables, the SDK's instructions, the bot's messages, and one coin under all of them, with proofs.

All invariants, action properties and refinements are proved.

Could be added: `Launch` with `node1_api_key` unset and with the curve subscription switched
off; the range and uniqueness rules of `Assigner::build`.

### Not modelled, and why

* `blockhash.rs`. One value, replaced on a clock. Whether it is young enough depends on
  seconds, which none of the models of its users counts; the oldest age is worked out above.
* Argument bytes, names, signatures, compute budget and tips of the messages, JSON and
  protobuf, QUIC and TLS set-up, geolocation of validators, terminal output. They keep no
  state that outlives a call, and their unit tests compare bytes.
* `tokenIncentives.ts`: two sums over volumes that only the on-chain program writes.
* The decoders and plain fetches of the SDK, `claimSocialFeePda` (it only throws), and the rows of the IDLs that neither the SDK nor the bot sends.
* Packet limits: `distribute.rs:64` pays every account in one transaction, which the
  preflight refuses above some twenty recipients.
