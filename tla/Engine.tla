------------------------------- MODULE Engine -------------------------------
(***************************************************************************)
(* The per-chain block handlers (internal/engine/engine.go) over the one   *)
(* pool registry they share.  Each engine runs HandleBlock in the single   *)
(* goroutine of its subscriber; the engines of different chains run        *)
(* concurrently, and every engine evaluates the pools of ALL chains.       *)
(*                                                                         *)
(* A pool's contents are abstracted to the block they were read at.  A     *)
(* handler's step ends where another engine can observe or change shared   *)
(* state: at each RPC call and at each take of a pool's lock.  A call may  *)
(* never be answered: the handler then stays where it is.                  *)
(*                                                                         *)
(* An opportunity is represented by its first leg and one later leg: the   *)
(* only one of a pair (cross_dex, curve_stable), any of the later legs of  *)
(* a cycle (triangular), which differ in nothing that is done with them.   *)
(***************************************************************************)
EXTENDS Naturals

CONSTANTS Engine,       \* one per chain entry that main started
          Pool,         \* the pools of the registry
          NoPool,       \* the nil pool
          ChainOf,      \* ChainOf[e]: the chain engine e is connected to
          PoolChain,    \* PoolChain[p]: the chain pool p is deployed on
          PoolType,     \* PoolType[p]: "v2" or "v3"
          Flaky,        \* pools whose calls may fail inside a multicall that
                        \* succeeds as a whole (AllowFailure)
          Mode,         \* cfg.Execution.Mode
          MaxBlock      \* bound: headers carry the numbers 1..MaxBlock

(* Two chain entries with one chain id would give a pool two writers;      *)
(* config.validate does not refuse them, the shipped config has none.      *)
ASSUME EngineAssumption ==
    /\ \A e, f \in Engine : ChainOf[e] = ChainOf[f] => e = f
    /\ NoPool \notin Pool
    /\ PoolType \in [Pool -> {"v2", "v3"}]
    /\ Flaky \subseteq Pool
    /\ Mode \in {"simulate", "execute"}
    /\ MaxBlock \in Nat \ {0}

VARIABLES
    state,      \* state[p]: the PoolState of p
    pc,         \* pc[e]: where HandleBlock is
    header,     \* header[e]: the number of the header being handled
    newest,     \* newest[e]: the highest number handed to e so far (history)
    recent,     \* recent[e]: lastUpdate is less than minUpdateInterval old
    todo,       \* todo[e]: multicall results still to be stored
    clone,      \* clone[e]: the copy State() returned, liquidity not yet set
    opp,        \* opp[e]: the best opportunity
    panicked    \* a panic in a handler goroutine has ended the process

vars == <<state, pc, header, newest, recent, todo, clone, opp, panicked>>

locals == <<todo, clone, opp>>

Block   == 1..MaxBlock
NoBlock == 0

(* SqrtPriceX96 or the reserves are those of `block', Liquidity that of    *)
(* `liq', where NoBlock stands for nil.                                    *)
NoState   == [block |-> NoBlock, liq |-> NoBlock]
PoolState == [block : Block, liq : Block \cup {NoBlock}] \cup {NoState}

NoClone == [pool |-> NoPool, block |-> NoBlock]

(* The two legs, the states they were priced from (of the engine's own     *)
(* pools only), and the later leg's AmountIn, which is not known: nil in a *)
(* pair, 0 in a cycle.                                                     *)
Opportunity == [buy  : Pool \cup {NoPool}, buyState  : PoolState,
                sell : Pool \cup {NoPool}, sellState : PoolState,
                amount : {"nil", "zero"}]
NoOpp == [buy  |-> NoPool, buyState  |-> NoState,
          sell |-> NoPool, sellState |-> NoState, amount |-> "nil"]

(* Mutant: registry.All() instead of GetByChain.                           *)
OwnAll(e) == Pool

Own(e)   == {p \in Pool : PoolChain[p] = ChainOf[e]}   \* GetByChain
OwnV3(e) == {p \in Own(e) : PoolType[p] = "v3"}

(* GetAmountOut returns no error: there is a state, and a V3 pool has got  *)
(* its liquidity.                                                          *)
HasState(p) == state[p] # NoState
(* Mutant: the V3 pool prices without its liquidity.                       *)
QuotableUnfetched(p) == HasState(p)

Quotable(p) == HasState(p) /\ (PoolType[p] = "v3" => state[p].liq # NoBlock)

PC == {"idle", "reserves", "apply", "liquidity", "fetched", "store",
       "evaluate", "sellQuote", "simBuy", "simSell", "notify", "execute"}

-----------------------------------------------------------------------------
Init ==
    /\ state = [p \in Pool |-> NoState]
    /\ pc = [e \in Engine |-> "idle"]
    /\ header = [e \in Engine |-> NoBlock]
    /\ newest = [e \in Engine |-> NoBlock]
    /\ recent = [e \in Engine |-> FALSE]
    /\ todo = [e \in Engine |-> {}]
    /\ clone = [e \in Engine |-> NoClone]
    /\ opp = [e \in Engine |-> NoOpp]
    /\ panicked = FALSE

Goto(e, l) == pc' = [pc EXCEPT ![e] = l]

(* HandleBlock returns: its header and its opportunity are gone.           *)
Return(e) == /\ Goto(e, "idle")
             /\ header' = [header EXCEPT ![e] = NoBlock]
             /\ opp' = [opp EXCEPT ![e] = NoOpp]

(* minUpdateInterval passes.                                               *)
IntervalPasses(e) ==
    /\ recent[e]
    /\ recent' = [recent EXCEPT ![e] = FALSE]
    /\ UNCHANGED <<state, pc, header, newest, locals, panicked>>

(* The subscriber calls HandleBlock with a header; a refresh less than     *)
(* minUpdateInterval ago is not repeated.  A reorg or a lagging node makes *)
(* any number possible.                                                    *)
HandleBlock(e, n) ==
    /\ pc[e] = "idle"
    /\ header' = [header EXCEPT ![e] = n]
    /\ newest' = [newest EXCEPT ![e] = IF n > @ THEN n ELSE @]
    /\ Goto(e, IF recent[e] THEN "evaluate" ELSE "reserves")
    /\ UNCHANGED <<state, recent, locals, panicked>>

-----------------------------------------------------------------------------
(* updatePoolStates                                                        *)

(* It returns no error: HandleBlock stores lastUpdate and evaluates.       *)
Refreshed(e) == /\ recent' = [recent EXCEPT ![e] = TRUE]
                /\ Goto(e, "evaluate")

(* Mutant: a failed refresh drops the states of the chain's pools.         *)
ReservesFailClears(e) ==
    /\ pc[e] = "reserves"
    /\ Own(e) # {}
    /\ Return(e)
    /\ state' = [p \in Pool |-> IF p \in Own(e) THEN NoState ELSE state[p]]
    /\ UNCHANGED <<recent, todo, clone, panicked>>

(* The first multicall fails: HandleBlock returns the error, lastUpdate is *)
(* left alone and nothing is evaluated.                                    *)
ReservesFail(e) ==
    /\ pc[e] = "reserves"
    /\ Own(e) # {}
    /\ Return(e)
    /\ UNCHANGED <<state, recent, todo, clone, panicked>>

(* It succeeds, with a decodable result for the pools `ok'.  A chain that  *)
(* has no pools returns before the call, with nothing to apply.            *)
FetchReserves(e) ==
    /\ pc[e] = "reserves"
    /\ \E ok \in SUBSET Own(e) :
          /\ Own(e) \ Flaky \subseteq ok
          /\ todo' = [todo EXCEPT ![e] = ok]
    /\ Goto(e, "apply")
    /\ UNCHANGED <<state, header, recent, clone, opp, panicked>>

(* UpdateState replaces the whole PoolState: Liquidity becomes nil.        *)
ApplyReserves(e, p) ==
    /\ pc[e] = "apply"
    /\ p \in todo[e]
    /\ state' = [state EXCEPT ![p] = [block |-> header[e], liq |-> NoBlock]]
    /\ todo' = [todo EXCEPT ![e] = @ \ {p}]
    /\ UNCHANGED <<pc, header, recent, clone, opp, panicked>>

(* Mutant: a result that cannot be decoded ends the loop.                  *)
ReservesAppliedBreak(e) ==
    /\ pc[e] = "apply"
    /\ IF OwnV3(e) = {} THEN Refreshed(e)
                        ELSE Goto(e, "liquidity") /\ UNCHANGED recent
    /\ UNCHANGED <<state, header, locals, panicked>>

ReservesApplied(e) ==
    /\ pc[e] = "apply"
    /\ todo[e] = {}
    /\ IF OwnV3(e) = {} THEN Refreshed(e)
                        ELSE Goto(e, "liquidity") /\ UNCHANGED recent
    /\ UNCHANGED <<state, header, locals, panicked>>

(* The second multicall.  Its failure is swallowed: no liquidity is stored *)
(* and the refresh still counts as done.                                   *)
FetchLiquidity(e) ==
    /\ pc[e] = "liquidity"
    /\ \E ok \in SUBSET OwnV3(e) :
          /\ ok = {} \/ OwnV3(e) \ Flaky \subseteq ok
          /\ todo' = [todo EXCEPT ![e] = ok]
    /\ Goto(e, "fetched")
    /\ UNCHANGED <<state, header, recent, clone, opp, panicked>>

(* Mutant: no check that State() is not nil.                               *)
CloneStateUnchecked(e, p) ==
    /\ pc[e] = "fetched"
    /\ p \in todo[e]
    /\ clone' = [clone EXCEPT ![e] = [pool |-> p, block |-> state[p].block]]
    /\ todo' = [todo EXCEPT ![e] = @ \ {p}]
    /\ Goto(e, "store")
    /\ UNCHANGED <<state, header, recent, opp, panicked>>

(* st := State() clones the state under the read lock.                     *)
CloneState(e, p) ==
    /\ pc[e] = "fetched"
    /\ p \in todo[e]
    /\ HasState(p)
    /\ clone' = [clone EXCEPT ![e] = [pool |-> p, block |-> state[p].block]]
    /\ todo' = [todo EXCEPT ![e] = @ \ {p}]
    /\ Goto(e, "store")
    /\ UNCHANGED <<state, header, recent, opp, panicked>>

(* A pool that never got a state is passed over.                           *)
SkipStateless(e, p) ==
    /\ pc[e] = "fetched"
    /\ p \in todo[e]
    /\ ~HasState(p)
    /\ todo' = [todo EXCEPT ![e] = @ \ {p}]
    /\ UNCHANGED <<state, pc, header, recent, clone, opp, panicked>>

(* st.Liquidity = liq; UpdateState(st): the write lock is taken anew.      *)
StoreLiquidity(e) ==
    /\ pc[e] = "store"
    /\ state' = [state EXCEPT ![clone[e].pool] =
                    [block |-> clone[e].block, liq |-> header[e]]]
    /\ clone' = [clone EXCEPT ![e] = NoClone]
    /\ Goto(e, "fetched")
    /\ UNCHANGED <<header, recent, todo, opp, panicked>>

LiquidityStored(e) ==
    /\ pc[e] = "fetched"
    /\ todo[e] = {}
    /\ Refreshed(e)
    /\ UNCHANGED <<state, header, locals, panicked>>

-----------------------------------------------------------------------------
(* Evaluation: the two GetAmountOut of a candidate pair take two different *)
(* locks, one after the other.                                             *)

(* No candidate is profitable, or the best one has NetProfit <= 0.         *)
NoOpportunity(e) ==
    /\ pc[e] \in {"evaluate", "sellQuote"}
    /\ Return(e)
    /\ UNCHANGED <<state, recent, todo, clone, panicked>>

PricedFrom(e, p) == IF p \in Own(e) THEN state[p] ELSE NoState

QuoteBuy(e, p) ==
    /\ pc[e] = "evaluate"
    /\ Quotable(p)
    /\ opp' = [opp EXCEPT ![e] = [buy  |-> p, buyState |-> PricedFrom(e, p),
                                   sell |-> NoPool, sellState |-> NoState,
                                   amount |-> "nil"]]
    /\ Goto(e, "sellQuote")
    /\ UNCHANGED <<state, header, recent, todo, clone, panicked>>

(* A pair is two pools of one chain, whatever the engine's chain; a cycle  *)
(* goes by tokens alone, through pools of any chain and through its first  *)
(* pool again.                                                             *)
QuoteSell(e, q) ==
    /\ pc[e] = "sellQuote"
    /\ Quotable(q)
    /\ \E amount \in {"nil", "zero"} :
          /\ amount = "nil" => q # opp[e].buy /\ PoolChain[q] = PoolChain[opp[e].buy]
          /\ opp' = [opp EXCEPT ![e] = [buy  |-> @.buy, buyState |-> @.buyState,
                                         sell |-> q, sellState |-> PricedFrom(e, q),
                                         amount |-> amount]]
    /\ Goto(e, "simBuy")
    /\ UNCHANGED <<state, header, recent, todo, clone, panicked>>

-----------------------------------------------------------------------------
(* Simulation and execution, on the engine's own chain.                    *)

(* buildV2Swap prices a leg by its AmountIn, and computing with a nil      *)
(* *big.Int panics; 0 gives 0, and a V3 pool's calldata leaves nil out.    *)
NilPriced(e) == opp[e].amount = "nil" /\ PoolType[opp[e].sell] = "v2"

(* eth_call of a leg fails: the opportunity is dropped.                    *)
SimulationFails(e) ==
    /\ pc[e] = "simBuy" \/ (pc[e] = "simSell" /\ ~NilPriced(e))
    /\ Return(e)
    /\ UNCHANGED <<state, recent, todo, clone, panicked>>

SimulateBuy(e) ==
    /\ pc[e] = "simBuy"
    /\ Goto(e, "simSell")
    /\ UNCHANGED <<state, header, recent, locals, panicked>>

(* The calldata of the later leg is built, and its call succeeds.          *)
SimulateSell(e) ==
    /\ pc[e] = "simSell"
    /\ IF NilPriced(e) THEN panicked' = TRUE  /\ UNCHANGED pc
                       ELSE Goto(e, "notify") /\ UNCHANGED panicked
    /\ UNCHANGED <<state, header, recent, locals>>

(* notifyOpp, then Execute in execute mode only.                           *)
Notify(e) ==
    /\ pc[e] = "notify"
    /\ IF Mode = "execute" THEN Goto(e, "execute") /\ UNCHANGED <<header, opp>>
                           ELSE Return(e)
    /\ UNCHANGED <<state, recent, todo, clone, panicked>>

(* Whatever Execute returns, HandleBlock counts it and returns; the        *)
(* executor's own state is in Executor.                                    *)
Execute(e) ==
    /\ pc[e] = "execute"
    /\ Return(e)
    /\ UNCHANGED <<state, recent, todo, clone, panicked>>

-----------------------------------------------------------------------------
(* A step of a HandleBlock under way.                                      *)
Handler(e) ==
    /\ ~panicked
    /\ UNCHANGED newest
    /\ \/ ReservesFail(e) \/ FetchReserves(e)
       \/ ReservesApplied(e) \/ FetchLiquidity(e)
       \/ StoreLiquidity(e) \/ LiquidityStored(e)
       \/ NoOpportunity(e)
       \/ SimulationFails(e) \/ SimulateBuy(e) \/ SimulateSell(e)
       \/ Notify(e) \/ Execute(e)
       \/ \E p \in Pool : \/ ApplyReserves(e, p)
                          \/ CloneState(e, p) \/ SkipStateless(e, p)
                          \/ QuoteBuy(e, p) \/ QuoteSell(e, p)

(* What happens to an engine from outside.                                 *)
Outside(e) ==
    /\ ~panicked
    /\ \/ IntervalPasses(e)
       \/ \E n \in Block : HandleBlock(e, n)

Dead == panicked /\ UNCHANGED vars

Next == (\E e \in Engine : Handler(e) \/ Outside(e)) \/ Dead

Spec == Init /\ [][Next]_vars

-----------------------------------------------------------------------------
(* Every variable has its type; a stored state always has a block number.  *)
TypeOK ==
    /\ state \in [Pool -> PoolState]
    /\ pc \in [Engine -> PC]
    /\ header \in [Engine -> Block \cup {NoBlock}]
    /\ newest \in [Engine -> Block \cup {NoBlock}]
    /\ recent \in [Engine -> BOOLEAN]
    /\ todo \in [Engine -> SUBSET Pool]
    /\ clone \in [Engine -> [pool  : Pool \cup {NoPool},
                             block : Block \cup {NoBlock}]]
    /\ opp \in [Engine -> Opportunity]
    /\ panicked \in BOOLEAN

(* A pool whose own calls do not fail never combines the price of one      *)
(* block with the liquidity of another, although the two are fetched by    *)
(* two calls and the liquidity is stored by a read, a change and a write   *)
(* under separate locks (updatePoolStates, lines 167-211).                 *)
SnapshotConsistent ==
    \A p \in Pool \ Flaky : state[p].liq \in {NoBlock, state[p].block}

(* From the quote to the end of the execution, no other engine changes a   *)
(* pool of this engine's chain: the legs are simulated, and their calldata *)
(* rebuilt by GetAmountOut, on the very states the profit was found on.    *)
Decided == {"simBuy", "simSell", "notify", "execute"}
QuoteHeld ==
    \A e \in Engine :
        /\ pc[e] \in Decided \cup {"sellQuote"} /\ opp[e].buy \in Own(e)
              => state[opp[e].buy] = opp[e].buyState
        /\ pc[e] \in Decided /\ opp[e].sell \in Own(e)
              => state[opp[e].sell] = opp[e].sellState

(* The two legs an engine acts on, when they are pools of its own chain    *)
(* whose calls do not fail, are priced on one and the same block: a        *)
(* refresh that is skipped, fails as a whole or is under way on another    *)
(* chain never leaves some of them behind (HandleBlock, lines 57-70).      *)
LegsOfOneBlock ==
    \A e \in Engine :
        pc[e] \in Decided /\ {opp[e].buy, opp[e].sell} \subseteq Own(e) \ Flaky
            => opp[e].buyState.block = opp[e].sellState.block

(* What the strategies see of a pool goes back to an older block only when *)
(* the engine of its chain is handed a header older than an earlier one: a *)
(* refresh that fails or is skipped never does it, and neither does a late *)
(* write of a copied state (updatePoolStates, lines 167-211).              *)
BackOnlyOnOlderHeader ==
    [][\A e \in Engine : \A p \in Own(e) :
          state'[p].block < state[p].block => header[e] < newest[e]]_vars

(* "Main per-chain block processing loop": an engine simulates, notifies   *)
(* and executes opportunities of its own chain, on every leg.              *)
OwnChainOnly ==
    \A e \in Engine : pc[e] \in Decided =>
        PoolChain[opp[e].buy] = ChainOf[e] /\ PoolChain[opp[e].sell] = ChainOf[e]

(* "on each block: fetches the state of all configured pools": a pool's    *)
(* price and liquidity are those of one block, for the flaky pools too.    *)
NoTornState == \A p \in Pool : state[p].liq \in {NoBlock, state[p].block}

(* The inductive strengthening of the invariants.  While it refreshes, an  *)
(* engine handles its own pools only, those whose calls succeeded already  *)
(* show the header's block, and the clone it holds is still the state of   *)
(* its pool.                                                               *)
Fetching ==
    \A e \in Engine :
        /\ pc[e] # "idle" => header[e] \in Block
        /\ pc[e] = "apply" => todo[e] \subseteq Own(e)
        /\ pc[e] \in {"fetched", "store"} => todo[e] \subseteq OwnV3(e)
        /\ pc[e] = "store" => /\ clone[e].pool \in OwnV3(e)
                              /\ clone[e].block \in Block
                              /\ state[clone[e].pool].block = clone[e].block

Current ==
    \A e \in Engine : \A p \in Own(e) \ Flaky :
        /\ pc[e] = "apply" /\ p \notin todo[e] => state[p].block = header[e]
        /\ pc[e] \in {"liquidity", "fetched", "store"} => state[p].block = header[e]

(* Once it has stored the results of the first multicall, an engine leaves *)
(* its pools on one block.                                                 *)
OneBlock ==
    \A e \in Engine : pc[e] # "apply" =>
        \A p, q \in Own(e) \ Flaky : state[p].block = state[q].block

(* That of BackOnlyOnOlderHeader: a pool shows a block its engine has been *)
(* handed.                                                                 *)
Handed ==
    \A e \in Engine : /\ header[e] <= newest[e]
                       /\ \A p \in Own(e) : state[p].block <= newest[e]

IInv == TypeOK /\ Fetching /\ Current /\ OneBlock /\ SnapshotConsistent /\ QuoteHeld

(* The two-pass refresh implements an atomic publication: see Snapshots.   *)
(* A pool that is not flaky shows one whole block or nothing; a state put  *)
(* together from two blocks would show no block of the chain.              *)
Shown == [p \in Pool \ Flaky |->
             IF ~Quotable(p) THEN NoBlock
             ELSE IF PoolType[p] = "v3" /\ state[p].liq # state[p].block
             THEN MaxBlock + 1
             ELSE state[p].block]

Snap == INSTANCE Snapshots WITH
            Pool    <- Pool \ Flaky,
            TwoPass <- {p \in Pool \ Flaky : PoolType[p] = "v3"},
            shown   <- Shown

(* Every step of the engines publishes one block of one pool, withdraws a  *)
(* V3 pool, or changes nothing a strategy can see.                         *)
PublishesWholeBlocks == Snap!Spec
=============================================================================
