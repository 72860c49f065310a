# TLA+ verification of the DeFi arbitrage trader

The trader (Go, `src/`) watches several chains, keeps the state of a set of
AMM pools, looks for arbitrage on each block, simulates the best opportunity
and, in execute mode, sends it. These modules model its concurrent core (the
block engines over the registry they share, the block subscriber that drives
them, the Flashbots executor with its nonces, the event hub the dashboards hang
on), its startup and its strategies, the lending pool's health monitor with the
multicall's layout, and its arithmetic. TLC checks them on small instances;
TLAPS proves all the safety properties but three numerical ones for every value
of the constants.

## The system

| Part | Source | State | Operations | Makes it correct |
|---|---|---|---|---|
| Subscriber, one per chain | `internal/chain/subscriber.go` | the goroutine that runs the block loop, the subscription, `lastBlock` | `Start`, `runWS`, `runPoll`, `reconnect` | one loop at a time, blocks in order, a loop as long as the program runs |
| Engine, one per chain | `internal/engine/engine.go` | `lastUpdate` | `HandleBlock`, `updatePoolStates` | decisions on whole blocks of its own chain, none older than before |
| Pools and registry, shared | `internal/pool` | a `PoolState` per pool under its RWMutex; four indexes | `UpdateState`, `State`, `GetAmountOut`; `Add`, `GetByPair`, `GetByChain`, `All` | a price and a liquidity of one block; indexes that agree |
| Strategies | `internal/strategy` | none | `Evaluate` over `registry.All()`, a goroutine per strategy | opportunities of one chain the executor can act on; every evaluation ends |
| Executor | `internal/executor`, `internal/chain/nonce.go` | the next nonce | `Simulate`, `Execute`; `Next`, `Reset` | a reported success was sent; no nonce is lost or reused |
| RPC client | `internal/chain/client.go`, `multicall.go` | connections | `Multicall`, header and nonce queries | each result belongs to its call; fails as a whole or per call |
| Event hub | `internal/api/hub.go`, `server.go` | clients, their channels, the last balances | `Send`, `register`, `unregister`, `LastBalance`, `handleWS` | never panics, never blocks, forgets dead clients |
| Event sources | `sloghandler.go`, `balancetracker.go`, `main.go` | none | call `Send` | |
| Health monitor | `internal/monitor/health.go` | accounts, watch list | `AddWatch`, `Update`, `GetLiquidatable` | records of one block each; not constructed by `main` |
| Formulas | `internal/math` | none | AMM and profit arithmetic, searches, Newton iterations | rounding in the pool's favour, convergence, inputs near the best where they are searched |
| FlashArb | `contracts/FlashArb.sol` | none across calls | `execute`, `executeOperation`, `withdraw` | repays or reverts; no Go code calls it |
| Startup | `cmd/trader/main.go`, `internal/config` | configuration | `validate`, fills the registry, starts each chain | a chain that fails to start is skipped and leaves nothing running |
| Dashboard | `frontend/` | a view of the events | | |

A subscriber calls its engine's `HandleBlock` in its own goroutine. An engine
refreshes the pools of its chain by two multicalls (the V3 liquidity comes in
the second), then runs the strategies over the pools of **all** chains,
simulates the best opportunity on its own chain, tells the hub, and executes.
Every log record, opportunity and balance goes through `Hub.Send` in the
goroutine that made it, so a blocked hub would block the engines. The shared
state is therefore: the pool states (written by the engine of the pool's chain,
read by all), the hub (written by everybody), and the context's cancellation.

The hard parts are the interleaving of engines over one registry, the two-pass
refresh with a read-modify-write under separate locks, calls that fail singly
or as a whole, the hand-over of the block loop between goroutines, disconnects
during a broadcast, the executor's idea of its nonce, updates of the health
monitor that overtake one another, and integer arithmetic that rounds on every
leg. `PROJECT.json` lists each hazard with its line and the properties that
cover it.

## Modules

| Module | Role |
|---|---|
| `Snapshots` | abstract specification: what a strategy may rely on when it prices a pool |
| `Engine` | the block engines of several chains, the pool states, simulation and execution |
| `EngineProofs` | theorems about `Engine`, the refinement of `Snapshots` included |
| `Delivery` | abstract specification: what an engine may rely on about the blocks it is handed |
| `Hub` | the hub, `handleWS`, the connections and Go's `sync.RWMutex` |
| `HubProofs` | theorems about `Hub` |
| `Subscriber` | the subscriber of one chain and its goroutines |
| `SubscriberProofs` | theorems about `Subscriber`, the refinement of `Delivery` included |
| `Executor` | the Flashbots executor of one chain, its nonce tracker, the relay and the blocks |
| `ExecutorProofs` | theorems about `Executor` |
| `Triangular` | the cycle search of the triangular strategy |
| `TriangularProofs` | theorems about `Triangular` |
| `Startup` | configuration, registry and the start of the chains |
| `Evaluator` | `Startup`, and the strategies of the engines it has started |
| `EvaluatorProofs` | theorems about `Evaluator` |
| `Multicall` | the layout of Multicall3 calldata and answers (operators) |
| `Liquidation` | the health monitor, over `Multicall`, and the liquidation strategy |
| `LiquidationProofs` | theorems about `Multicall` and `Liquidation` |
| `Amm` | the formulas of `internal/math` (operators) |
| `Numerics` | the loops over them: searches and Newton iterations, step by step |
| `NumericsProofs` | theorems about `Amm` and `Numerics` |
| `MCEngine`, `MCHub`, `MCSubscriber`, `MCTriangular`, `MCEvaluator`, `MCLiquidation`, `MCNumerics` | instances for TLC (`Executor` is run as it is) |

Each operator that models code is named after the function or the event it
stands for; the `map` of `PROJECT.json` gives its lines. An operator whose
comment begins with *Mutant* is not part of the model: it is the form a
plausible bug would give the definition that follows it, and exists to show
that a property can fail.

### Engine

A pool's contents are abstracted to the block they were read at:
`[block, liq]` for a V3 pool's price and liquidity, `NoBlock` for nil. An
engine's `pc` follows `HandleBlock` from RPC call to RPC call and from lock to
lock, which are the points where another engine can see or change shared state:
`HandleBlock` (with the throttle), `FetchReserves`/`ReservesFail` (the first
multicall), `ApplyReserves` per pool, `FetchLiquidity`, `CloneState` and
`StoreLiquidity` per V3 pool, `QuoteBuy` and `QuoteSell` (two pools are priced
one after the other, not together), `SimulateBuy` and `SimulateSell`, `Notify`,
`Execute`. `lastUpdate` is the flag `recent`, which
`IntervalPasses` clears. Headers arrive with any number, as after a
reorganisation or from a lagging node. A multicall fails as a whole, or for
pools in `Flaky` singly (`AllowFailure`). Two legs stand for the opportunities of
all strategies, and which legs are found profitable is left open: a pair of one
chain, or two legs of a cycle, which joins pools of any chains and may repeat its
first pool. What `Execute` does is in `Executor`.

`Engine` has no fairness. Its context is cancelled at the shutdown only and no
call has a deadline, so a node that takes a call and never answers keeps
`HandleBlock` where it is, and the chain with it. That a handler returns is
therefore not claimed; the properties hold wherever one stops.

`LegsOfOneBlock` is about a profit that never existed: two pools of one chain
seen at two blocks. The pools of a chain are stored one by one, a refresh may be
skipped or fail, and other engines write meanwhile; that the legs agree rests on
the loop going through all results before anything is evaluated, and on one
writer per pool. It leaves out pools whose own calls fail, and pools of other
chains, which an engine does see half refreshed (finding 1).

`BackOnlyOnOlderHeader` says which of the many ways to write a pool's state can
take it back in time: only a header older than an earlier one. `newest` is a
history variable that remembers the highest header an engine was handed. With
`Delivers` (below), whose blocks come in order, nothing a strategy sees of a pool
ever goes back, as long as the node's answers are consistent and the chain is not
reorganised.

The second leg of a cross-DEX opportunity has a nil amount, and a V2 pool panics
on it (`builder.go:60`, `crossdex.go:152`); the later legs of a cycle have the
amount 0 (`triangular.go:169`), with which the simulation goes on (`NilPriced`).
The panic ends the process and is modelled (`panicked`), so the properties speak
about runs up to it.

### Hub

`Hub` takes the lock apart into the steps of Go's RWMutex: a writer first owns
the writer side, which makes later readers wait, then waits for the readers
that are inside; `Unlock` lets all waiting readers in. `Send` locks (cache),
unlocks, locks shared, and visits the clients in any order. A client has two
goroutines, `serv` for `handleWS` and `pump` for its write pump. A connection
is `up`, `mute` (no pongs, writes succeed) or `down`.

`NoDeadlock` is about the lock alone: whoever cannot go on because of it, there
is a goroutine that owns it or holds it shared and can. `BalancesInOrder` joins
the cache, written in the first hold of the lock, with the channels, filled in
the second. `WrittenAlone` (the map is not written during a range over it) and
`ClosedAfterPump` are proved and run by no configuration.

### Subscriber

One subscriber and the goroutines it starts, at most `Goroutine` at a time (a
dead one is reused). `Start` is called by main and by `reconnect`; `StartWS`
and `StartPoll` start the new goroutine and let the caller return. The headers
of a subscription are buffered (`queue`); the chain only grows, and a
`HeaderByNumber(nil)` may be newer than the number asked for before it.

`Delivery` states what comes out of all this: one call of the handler at a time,
each block later than the last one or the last one a second time, and an end only
after the shutdown signal. `Delivers` says that the subscriber implements it. Of
`Delivery`'s variables `busy` is a goroutine in the handler, `ended` is that no
goroutine is left that could call it, and `settled` that none would hand over the
last block again: a poller that has fetched a header newer than the number it
recorded does so once (`Repeats`), and so may the successor of a loop, because
`lastBlock` starts at 0. That a block is never handled a third time needs the
history of the loop, not only its state, which is why it is stated as a
refinement.

### Executor

`Engine` only knows that `Execute` returns; `Executor` opens it up.
`TakeNonce` is `NonceTracker.Next`, `GiveUp` stands for the four failures
between the nonce and the submission, `Target` for the block number,
`Accepted` and `Refused` for `submitBundle`. A refused bundle may still be at
the relay, because an answer can be lost; an accepted one may not be there, because
an answer of 200 counts whatever error its body holds (`flashbots.go:171`). `NewBlock` includes any bundles for
its height whose nonces follow the account's without a gap. Bundles are private:
until they are in a block the node's `PendingNonceAt` does not count them.
Execute calls are numbered, which lets the properties speak of earlier and
later trades. The engine is the executor's only caller, one trade at a time.

### Triangular

`Evaluate` builds a graph of the pools that have a state and calls `dfs` for
each token. The recursion is modelled by its stack: `todo[i]` holds the edges
the i-th nested call has still to visit, `path` the edges taken. Each visit is
`Skip` (two hops), `Close`, `Avoid` (pool already on the path) or `Descend`;
`Return` leaves a call. Every order of Go's map iteration is covered. `priced`
collects what `evaluateCycle` is called with; profits are abstracted.

`PoolOnce` says exactly what the check under "Avoid using the same pool twice in
a path" achieves: the closing edge is not checked, so a cycle
A -p- B -q- C -r- B -p- A of four hops goes through p twice, and this is the
only way a pool repeats. The shipped configuration allows four hops.
`Complete` compares the search with the rings of a graph, defined without it.
One direction of each ring is priced, whichever the map order finds first; no
document promises both.

### Startup and Evaluator

`Startup` goes from a configuration to running engines: `Load` refuses what
`validate` refuses, `FromConfig` adds the pools one by one to the four indexes,
and main's loop tries each chain: it starts (`StartEngine`), fails (`ChainFails`),
or its node takes the connection and never answers (`ChainHangs`), which leaves
main in `NewClient` and the later chains untried, because nothing there has a
deadline. Each step may interleave with the engines already started. `Evaluator`
extends it by those engines: `Refresh` gives some pools of a chain a state,
`Evaluate` starts a goroutine for each of the four strategies (`wg`), each finishes
at its own time (`Done`, with results, without, or with an error: the deferred
call is the same), and `EvaluateReturns` is `wg.Wait` returning. The cross-DEX and
the triangular strategy read `registry.All()`, the Curve one `GetByPair`; the
liquidation strategy has no monitor and returns at once. They read states as they
are when they get to them. What a direction earns is abstracted to a choice. A
map key for a pair is the set of its tokens and its chain.

`CurvePool.DecodeState` stores one balance and no amplification, so
`GetAmountOut` on a refreshed Curve pool panics (`panicked`). That is why the
Curve strategy never reports anything, and why the shipped configuration, which
has no Curve pool, runs. `PanicOnlyOnCurve` says when it happens: beside another
pool of its pair, or without one on a cycle, whose tokens are compared by address
alone, so that pools of other chains can close it. `Cycles` defines these without
the search; `Triangular` has the search.

The code allows two balance trackers for one wallet when Arbitrum is listed twice,
though `main.go:136` says "Arbitrum only, once": `trackers` is a set of entries of
the configuration. Such a configuration would also give pools two writers; nothing
refuses it, and the theorems of `Engine` exclude it.

### Multicall and Liquidation

`Multicall` has the calldata of `aggregate3` and the decoder of its answer, a
word at a time with byte offsets, and the contract that sits between them. The
number of calls goes through one byte (`multicall.go:80`), so `encodeAggregate3`
panics on more than `MaxCalls`, which is 255 in the program.
`Liquidation` runs every `Update` through all three: what the lending pool
answers for an account, where it reverts, and which record it ends up in.
Updates overlap (`flight`), the watch list grows meanwhile and may hold an
account twice, and `GetLiquidatable` (a copy under the read lock) and the
strategy's loop over it are two steps. The caller of `Update` names the block, an
older one or none (`Latest`: the block the node is at when it answers). Nothing
keeps an older answer from replacing a newer one, as records have no block number
and no document promises an order: `RecordsGenuine` claims that each record is
what its own account held in one block, and `OpportunityOfOneBlock` that what is
computed from it is of that block, too. `seen` is a history variable, the block
of each record. `MaxBlock` and `MaxWatch` bound the counters. A decoder panic on a
length the data cannot hold is an outcome of `Multicall`; the answers of a
contract that keeps to its ABI never reach it (`TypeOK`). The engines' own
multicalls go through the same encoder; `Engine` models them for chains of fewer
pools than it can count.

### Amm and Numerics

`Amm` translates the formulas with their zero checks and their order of
multiplications and divisions. `Numerics` runs what loops over them, one action
per iteration: the bisection the three strategies share (`Bisect`, `Judge`), the
ternary search of `OptimalArbInputV2` (`QuickCheck`, `Ternary`), Newton for
Curve's D and y (`NewtonD`, `NewtonY`), and the V3 quote, which has no loop.
What runs through a list of any length (`Out` over the legs, `Offsets` over the
calls) is a recursive function and not a fold, so that it can be reasoned about.

`NearBest` is what "binary search for optimal input" comes to. The search goes
up only if the next quarter is better than the midpoint, so it can settle below
the best input: for legs that just quote the concave V2 formula it finds at least
two thirds of the best profit, less the rounding. `OptimalNearBest` compares the
ternary search with every input that can pay, and finds one thing that keeps it
from the best: it begins at half the smaller of `r0a` and `r0b`, amounts of two
different tokens, and the best input may lie above (finding 4). `V3Bounded` shows the direction
(token 0 to token 1) in which rounding the new price down favours the trader.

## Runs

| Run | Checks | Shows |
|---|---|---|
| `engine_execute` | `TypeOK`, `QuoteHeld`, `LegsOfOneBlock`, `BackOnlyOnOlderHeader`, `PublishesWholeBlocks` | two engines, three pools (V3 and V2 on Arbitrum, a V3 pool on Base whose calls may fail singly), execute mode |
| `engine_own_chain` | `OwnChainOnly` is violated | finding 1, in the shipped configuration, where all pools are Arbitrum's |
| `engine_torn` | `NoTornState` is violated | finding 2 |
| `hub` | `TypeOK`, `NoPanic`, `NoDeadlock`, `BalancesInOrder`, `SendReturnsAlways`, `BrokenIsRemoved` | a dashboard, the balance tracker and an engine, a channel that holds two events |
| `subscriber` | `TypeOK`, `SingleLoop`, `Delivers`, `StaysAlive`, `ShutsDown` | a subscription that fails again and again |
| `executor` | `TypeOK`, `NoReplacement`, `NoDrift` | four trades and three blocks: what a nonce is used for, and how far the tracker can run ahead |
| `executor_lands` | `SuccessCanLand` is violated | finding 3 |
| `triangular` | `TypeOK`, `PoolOnce`, `PricedOnce`, `Complete` | the search over every choice of at most four of six pools, `max_hops` 4 |
| `numerics` | `TypeOK`, `NearBest`, `PairsAccept`, `OptimalNearBest`, `CurveKept`, `V3Bounded` | each loop run to its end, for two and three legs of V2 pools, Curve pools and V3 pools |
| `numerics_optimal` | `OptimalOfAll` is violated | finding 4 |
| `startup` | `TypeOK`, `RegistryWhole`, `PanicOnlyOnCurve`, `EvaluateEnds` | configurations with doubtful pools and chains, up to two engines with all four strategies |
| `liquidation` | `TypeOK`, `RecordsGenuine`, `OpportunityOfOneBlock` | two Updates under way over two accounts and two blocks, and a list that outgrows the encoder |

Bounds. *Engine*: two block numbers give an old and a new block in either order;
two engines are needed for one to price the other's pools, two pools of a chain
for a pair, of both types.
*Hub*: a channel of capacity 2 shows the order of two balance events, and is full
after two, the state the drop is for; two senders keep one another and the
dashboard's goroutines waiting. Two dashboards together with the liveness
properties are more than TLC gets through in minutes; the theorems
(`NeverPanics`, `SomeoneRuns`, `SnapshotsInOrder`) are for any number of them.
*Subscriber*: main and
two goroutines are the most that exist at a time (a returning one, its
successor, and one to spare), four blocks and a buffer of two let a
subscription overflow. *Executor*: four trades leave room for a lost nonce, a
reset, a reuse and a trade after it; three blocks let a bundle wait, land or miss
its block. *Triangular*: four tokens and six pools contain rings of three and of
four pools, parallel pools and dead ends; at most `MaxLive` = 4 pools are live at
a time, enough for each of these and for a triangle with a tail, where a fifth
hop would close another cycle if `max_hops` did not cut it off. *Numerics*: the
whole is 100 basis points and the V3 denominator 16, so that a fee or a rounding
shows in small numbers; reserves of 7 to 200 with inputs of 1 to 64 range from a
pool the input drains to one it hardly moves, fees from none to 30 %; eight
iterations bring an interval of 63 to a point as 64 do the program's. Newton has
the program's 256 rounds and the ternary search its 200. *Evaluator*: the
configurations hold a pair twice, a pair and an address on both of two chains,
an unknown type, a Curve pool with and without a partner, and one on a triangle
whose pools are on two chains; cycles have at most three hops, of which a lone
Curve pool needs no more; chain lists that
`validate` refuses, one whose chain is listed twice, keys that are missing or
cannot be parsed. *Liquidation*: two accounts, two Updates and a list of up to three
let a call revert between others, an account be watched twice, an Update be
overtaken across the two blocks, and the list outgrow the encoder, which counts up
to `MaxCalls` = 2; the three positions differ in every amount, and the Updates are
alike, so their permutations are a symmetry.
`MaxBlock`, `MaxBalances`, `MaxExecutes`, `MaxHeight`, `MaxWatch` and `Buffer`
bound counters in guards, `MaxLive` the initial states; `Cap` and `Buffer` are
256 and about 20000 in the program.

`CHECK_DEADLOCK` is on in every run. `Engine` steps `Dead` after a panic and
`Subscriber` steps `Stopped` after the shutdown, `Executor` steps `Finished` at
its bounds, `Numerics` steps `Returned` and `Evaluator` steps `Ended` when they
are over; `Hub` pings and `Liquidation` evaluates for ever.

Fairness. `Engine` has none (see above). `Hub`: goroutines that can run are run; a write ends or
fails at its 10 s deadline and the ping ticker fires, so the pump is weakly
fair; taking the writer side is strongly fair because Go's mutex hands over in
FIFO order after a millisecond of waiting. Nobody is obliged to call `Send`, to
connect or to break. `Subscriber`: weak fairness for each goroutine, and strong
fairness for the branch `ctx.Done()`, because a Go `select` chooses at random
among the ready cases. This takes for granted that the handler and the calls to the
node return, which holds while the node answers: `StaysAlive` is about failures it
reports, and on shutdown the cancelled context ends every call. The chain and the
connection have no fairness. `Evaluator`: a strategy's goroutine is run to its end,
since none makes a call to a node, and the waiter wakes. main's own steps have no
fairness, as `NewClient` may wait for ever; whether blocks come is left open. `Numerics` and `Liquidation`
state safety only: the loops of `Numerics` are counted (`turn`), and that
Newton's converge before their cap is part of `CurveKept`.

## Findings

1. `OwnChainOnly`: engines evaluate, simulate and would execute the
   opportunities of other chains, because strategies take `registry.All()`. The
   triangular one joins pools by token address alone, so that one cycle may go
   through several chains.
2. `NoTornState`: a failed `slot0` call leaves the old price, to which the
   second pass adds the liquidity of the new block.
3. `SuccessCanLand`: a failure between the nonce and the submission, or a bundle
   that the relay answers 200 for and does not take or that misses its block, leaves a nonce gap; every later bundle is accepted,
   counted as an executed trade, and cannot be included, until a submission
   fails and the tracker is reset.
4. `OptimalOfAll`: `OptimalArbInputV2` does not find the optimal input its comment
   promises (`uniswapv2.go:48`), because its search ends at half the smaller of two
   reserves of different tokens. With reserves of 200 and 200, then 7 and 200, it
   stays at 3 or less, with a gain of about 41, where an input of 30 gains about 127.
   Only a test and a benchmark call it today.

Seen while reading, and plain enough to need no run: execute mode without
Flashbots uses the simulator, and the engine counts its successes as executed
trades with profit (`main.go:113`, `simulator.go:74`). The poller can handle a
block twice (`subscriber.go:97`), which repeats a refresh; `Delivers` bounds it. `Subscriber.Start`
returns no error, so the branch for it in `main` is dead. The liquidation strategy is
started with a nil monitor; with one, its steps have no pool, so
`BuildSwapCalldata` refuses them, and nothing ever sets an account's tokens. A
Curve pool in the configuration, next to another pool of its pair or on a cycle,
ends the process. A node that accepts a connection and never answers stops its
engine, or at startup every chain behind it; 256 pools of one chain end the process
in `encodeAggregate3`. Arbitrum listed twice starts two balance trackers.

## Proofs

All proofs are for arbitrary constants that satisfy the assumption of their
module (`EngineAssumption`, `HubAssumption` and so on). That of `Engine` says
that no two engines serve one chain (two entries with one chain id are not
refused by `config.validate`, but would give a pool two writers), that of
`Subscriber` that main is a goroutine, that of `Triangular` that a pool's two
tokens differ, that of `Numerics` that reserves are positive and a fee is less
than the whole; the rest are types.

- `EngineProofs`: `TypeCorrect`, `NeverTorn`, `QuoteStaysCurrent`, `LegsAgree`,
  `NeverBackInOrder` and `RefinesSnapshots`. `SnapshotConsistent` is not inductive: whether
  `StoreLiquidity` stores the right block depends on the copy it holds.
  `IInv` adds that an engine touches its own pools only (`Fetching`), that the
  copy is still the state of its pool, and that every pool already passed shows
  the header's block (`Current`), so that after the first pass all of them
  show one block (`OneBlock`, from which the legs agree). Since a pool has one writer, a step of
  another engine disturbs none of this. `RefinesSnapshots` maps each step to a
  `Publish`, a `Withdraw` or a stutter of `Snapshots`; it contains
  `SnapshotConsistent`, which is therefore proved (`NeverTorn`) and not run.
  `NeverBackInOrder` needs that the blocks pools show are blocks their engine was
  handed (`Handed`), and then that only the first pass changes a pool's block.
- `HubProofs`: `TypeCorrect`, `NeverPanics`, `CacheIsAhead`, `ClosedLast`,
  `MapWrittenAlone`, `SomeoneRuns` and `SnapshotsInOrder`. The invariant is
  that a `Send` between picking a client and sending to it holds the lock shared
  and its target is still registered (`Ranging`), that a registered client's channel is
  open (`Open`), and that from the moment the tracker has stored its snapshot
  the cache is the newest (`Cached`). `ClosedLast` adds that `handleWS` is past
  `<-done` only when its pump has returned (`Waited`). `SomeoneRuns` compares the
  lock with the program: its owner and its readers are exactly the goroutines
  that stand between taking and releasing it, and one that waits in `RLock` waits
  behind an owner (`LockAgrees`); from it `HolderRuns` finds one that can go on.
  `SnapshotsInOrder` says of the latest snapshot that it is only in channels the
  broadcast under way is through with (`Fresh`), so that what is appended is newer
  than what is there.
- `SubscriberProofs`: `TypeCorrect`, `OneLoop`, `InOrder` and `RefinesDelivery`. The invariant counts the
  goroutines inside `Start` and `reconnect` as working too (`OneWorks`), and
  keeps a subscription's headers sorted and newer than the last block handled
  (`Ordered`); that a poller cannot overtake a subscription follows from there
  being one of them at most. For `RefinesDelivery` the one working goroutine
  alone decides `Settled`, `Busy` and `Ended` (`View`), and each action maps to
  one of `Delivery`'s or to a stutter; the numbers a poller has recorded lie
  between the last block handled and the chain's (in `Ordered`), which makes a
  header fetched for one of them a later block, or the last one for the second
  and last time.
- `ExecutorProofs`: `NoReplacementHolds`, `NoDriftHolds`, `ExecutorTypes` and
  `SmoothSuccessLands`. The invariant numbers the trades
  (`Returned`, `Latest`) and says that a bundle no failed submission has followed
  lies below every nonce the tracker will hand out (`Below`). A reset makes the
  claim empty for the bundles before it, which is why the property has its
  exception. `NoDriftHolds` and `ExecutorTypes` add that the account's nonce is
  the number of Executes in a block, that an Execute is in a block once
  (`Landings`), and that a nonce never exceeds the number of Executes (`Bounds`):
  a block moves the account by as many as it takes out of `Unlanded`
  (`OneBundleEach`). `SmoothSuccessLands` shows that finding 3 needs a failure:
  until an Execute gives up its nonce, a submission fails, or the relay does not take a
  bundle it answered 200 for or lets it miss its block (`Smooth`), the bundles at the relay continue the account's nonces without
  a gap (`Line`), and each success can land.
- `TriangularProofs`: `TypeCorrect`, `OnceButTheLast`, `PricedOnceHolds` and
  `FindsEveryRing`. The invariant says that
  the path is a walk that does not come back to its start and repeats no pool
  (`Walk`), and that the edges left to a call leave the token it is at
  (`Leaving`). A closing edge's pool holds the start token, which on the path
  only the first pool does (`ClosingPool`). That the search is complete rests on
  `Found`: each closed walk (`ClosedWalk`) from a token whose search has begun
  has its key among those seen, or is still ahead, because some nested call is on
  it and has its next edge to visit (`Ahead`). Crossing off an edge loses a walk
  only where `Skip` or `Avoid` refuses one that is no closed walk. A ring is a
  closed walk (`RingIsWalked`), and a walk with the key of a ring has its pools
  and its length (`OneKey`, `NotLonger`). `Keyed` says that the keys seen are those
  of the cycles priced, each of one.
- `EvaluatorProofs`: `PanicsOnCurveOnly`,
  `EvaluatorTypes` and `RegistryIsWhole`. The first
  is inductive once the pair index is known to hold a pool only under
  its own key (`Keyed`), because the Curve strategy trusts `GetByPair`; lemmas
  say that `Appended` and `Add` keep that. That states are only ever added
  (`live`), so that a cycle once live stays so, carries the rest. `RegistryIsWhole` follows the loop of `FromConfig`:
  after the first n entries the registry holds the entries of these that are of a
  known type and the first of their address, as often in each index as it should
  (`Filled`); `TimesAppend` counts what an append adds.
- `LiquidationProofs`: for up to `MaxCalls` calls, for any number of results, and
  for data of any length, `CallsReadBack` and `ResultsReadBack` say that what one
  side lays out the other reads back. `OffsetsAreStarts` is the induction over the elements, `ArrayLaidOut`
  places each element where its offset says, and `Reads` follows a decoder to it.
  From these `RecordsAreGenuine`: a result under way is the answer for its
  account, or none where the call reverted (`FlightHolds`), whatever the other
  Updates do; `OpportunitiesOfOneBlock`, where the copy of `GetLiquidatable` holds
  what some block held (`Copied`); and `LiquidationTypes`, with the decoder never
  panicking, and the encoder only on a list it cannot count (`Counted`).
- `NumericsProofs`: `AlwaysAccepted`, `QuickCheckExact`, `QuotesBounded`,
  `NumericsTypes` and `ReturnsAreReal`, for reserves, fees and amounts of any size.
  `Quotient` gives the two bounds of `\div`; from them `AmountOut` bounds what a pair pays and `AmountIn` what it asks, and `Accepts`
  turns each into the pair's own check. The quick check follows from each leg
  paying at most its marginal rate (`AtMostTheRate`): the product of the rates
  bounds the round trip. No fee may be the whole amount (`fee` below `BPS`), and
  the configuration does not check that. `QuotesBounded` multiplies out the two
  nested divisions of each direction (`QuoteDown`, `QuoteUp`). In `NumericsTypes`
  the steps that could go wrong are Newton's: D stays positive (`NextDPositive`),
  and what `GetY` divides by stays positive as long as the iterates are more than one
  apart (`SlopeKept`), so neither divides by zero. `ReturnsAreReal` says that
  what a search returns is earned by its input and not left from another one
  (`Real`).

The induction theorems of the library take an operator as a parameter, which the
installed provers cannot instantiate. Where an induction is needed
(`OffsetsAreStarts`, `OutNat`), it goes over a set of naturals: `SetInduction`
follows from the least element of its complement, and `Recursion` gives the
function that a recursive definition stands for.

Only model-checked: the liveness properties (`SendReturnsAlways`,
`BrokenIsRemoved`, `StaysAlive`, `ShutsDown`, `EvaluateEnds`), which are out of the prover's reach, as
everything with `ENABLED` is; and three invariants about what a numerical loop
ends with. `NearBest` and `OptimalNearBest` rest on the concavity of a composition of
any number of quotients, each rounded: over the rationals a textbook argument,
over the integers one in which every inequality needs an error term of its own.
`CurveKept` contains the convergence of Newton's method
in integers within 256 rounds, which has no invariant short of an analysis of
its rate; what of it does not depend on that is in `NumericsTypes` and
`ReturnsAreReal` (positive iterates, less paid than the pool has). The violated
properties are refuted by their runs.

## Not modelled, and the plan

Wanted next: the two halves of `NearBest` for two legs; the content of a
balance snapshot when a call of its batch fails.

Left out:

- `Sender` and `FlashLoanBuilder`: nothing constructs them in the running
  program. `executeFlashLoan` reports a success without sending.
- `FlashArb.sol`: no Go code calls it.
- The Next.js dashboard: a view of the events, which sends the bot nothing.
- Telemetry: counters and text nothing reads back. `GetAmountInV3`, the tick
  prices and the pools' `GetAmountIn`, `Registry.Get` and `GetByToken` have no
  callers; Curve pools of more than two coins cannot be priced (see Evaluator).
- Calldata of swaps, logging, and the HTTP handlers that only read.
- A subscriber together with its engine in one state space. Their interface is
  `Delivery` on one side, proved of the subscriber (`RefinesDelivery`, with the
  handler's return left to the engine and the node), and on the other a handler
  that takes a pool back only for an older header (`NeverBackInOrder`), whatever
  headers it is handed.
