---------------------------- MODULE EngineProofs ----------------------------
(* For any number of engines, pools and blocks: no pool mixes two blocks,  *)
(* quotes stay current, no pool goes back while headers come in order, and *)
(* the engines implement Snapshots.                                        *)
EXTENDS Engine, TLAPS

LEMMA StatesTyped ==
  /\ NoState \in PoolState
  /\ NoOpp \in Opportunity
  /\ NoClone \in [pool : Pool \cup {NoPool}, block : Block \cup {NoBlock}]
  /\ \A b \in Block, l \in Block \cup {NoBlock} :
        [block |-> b, liq |-> l] \in PoolState
  /\ \A s \in PoolState : /\ s.block \in Block \cup {NoBlock}
                          /\ s.liq \in Block \cup {NoBlock}
                          /\ s.block = NoBlock => s = NoState
                          /\ s # NoState => s.block \in Block
  BY EngineAssumption DEF NoState, PoolState, NoOpp, Opportunity, NoClone, Block, NoBlock

LEMMA InitTyped == Init => TypeOK
<1> SUFFICES ASSUME Init PROVE TypeOK
  OBVIOUS
<1>2. state \in [Pool -> PoolState] /\ pc \in [Engine -> PC]
  BY StatesTyped DEF Init, PC
<1>3. header \in [Engine -> Block \cup {NoBlock}] /\ recent \in [Engine -> BOOLEAN]
  BY DEF Init
<1>4. QED
  BY <1>2, <1>3, StatesTyped DEF Init, TypeOK

LEMMA TypingHandler ==
  ASSUME TypeOK, Fetching, NEW e \in Engine, Handler(e)
  PROVE  TypeOK'
<1>1. newest' = newest
  BY DEF Handler
<1> USE <1>1, EngineAssumption, StatesTyped
    DEF TypeOK, PC, Goto, Return, Refreshed, locals
<1>2. CASE ReservesFail(e)
  BY <1>2 DEF ReservesFail
<1>3. CASE FetchReserves(e)
  BY <1>3 DEF FetchReserves, Own
<1>4. CASE ReservesApplied(e)
  BY <1>4 DEF ReservesApplied
<1>5. CASE FetchLiquidity(e)
  BY <1>5 DEF FetchLiquidity, OwnV3, Own
<1>6. CASE StoreLiquidity(e)
  BY <1>6 DEF StoreLiquidity, Fetching, OwnV3, Own
<1>7. CASE LiquidityStored(e)
  BY <1>7 DEF LiquidityStored
<1>8. CASE NoOpportunity(e)
  BY <1>8 DEF NoOpportunity
<1>9. CASE SimulationFails(e)
  BY <1>9 DEF SimulationFails
<1>10. CASE SimulateBuy(e)
  BY <1>10 DEF SimulateBuy
<1>11. CASE SimulateSell(e)
  BY <1>11 DEF SimulateSell
<1>12. CASE Notify(e)
  <2>1. CASE Mode = "execute"
    BY <1>12, <2>1 DEF Notify
  <2>2. CASE Mode # "execute"
    <3>1. Return(e) /\ UNCHANGED <<state, recent, todo, clone, panicked>>
      BY <1>12, <2>2 DEF Notify
    <3> QED
      BY <3>1
  <2> QED
    BY <2>1, <2>2
<1>13. CASE Execute(e)
  BY <1>13 DEF Execute
<1>15. ASSUME NEW p \in Pool, ApplyReserves(e, p) PROVE TypeOK'
  BY <1>15 DEF ApplyReserves, Fetching
<1>16. ASSUME NEW p \in Pool, CloneState(e, p) PROVE TypeOK'
  BY <1>16 DEF CloneState, HasState
<1>17. ASSUME NEW p \in Pool, SkipStateless(e, p) PROVE TypeOK'
  BY <1>17 DEF SkipStateless
<1>18. ASSUME NEW p \in Pool, QuoteBuy(e, p) PROVE TypeOK'
  BY <1>18 DEF QuoteBuy, Opportunity, PricedFrom
<1>19. ASSUME NEW p \in Pool, QuoteSell(e, p) PROVE TypeOK'
  BY <1>19 DEF QuoteSell, Opportunity, PricedFrom
<1> QED
  BY <1>2, <1>3, <1>4, <1>5, <1>6, <1>7, <1>8, <1>9, <1>10, <1>11, <1>12,
     <1>13, <1>15, <1>16, <1>17, <1>18, <1>19 DEF Handler

-----------------------------------------------------------------------------
(* The steps that evaluate, simulate and execute: they touch no pool.      *)
Deciding(e) ==
  \/ NoOpportunity(e) \/ SimulationFails(e) \/ SimulateBuy(e)
  \/ SimulateSell(e) \/ Notify(e) \/ Execute(e)
  \/ \E p \in Pool : QuoteBuy(e, p) \/ QuoteSell(e, p)

Late == Decided \cup {"evaluate", "sellQuote"}

(* A deciding step stays behind the refresh, on the same header.           *)
LEMMA DecidingStep ==
  ASSUME TypeOK, NEW e \in Engine, Deciding(e)
  PROVE  /\ pc[e] \in Late
         /\ pc'[e] \in Late \cup {"idle"}
         /\ pc'[e] # "idle" => header'[e] = header[e]
         /\ \A f \in Engine \ {e} : pc'[f] = pc[f] /\ header'[f] = header[f]
         /\ UNCHANGED <<state, todo, clone>>
  BY DEF Deciding, TypeOK, Late, Decided, Goto, Return, locals,
         NoOpportunity, SimulationFails, SimulateBuy, SimulateSell, Notify,
         Execute, QuoteBuy, QuoteSell

LEMMA FetchingHandler ==
  ASSUME TypeOK, Fetching, NEW e \in Engine, Handler(e)
  PROVE  Fetching'
<1> USE EngineAssumption, StatesTyped DEF TypeOK, Fetching, Goto, Return, Refreshed, locals
<1>1. CASE Deciding(e)
  <2>1. /\ pc[e] \in Late /\ pc'[e] \in Late \cup {"idle"}
        /\ pc'[e] # "idle" => header'[e] = header[e]
        /\ \A f \in Engine \ {e} : pc'[f] = pc[f] /\ header'[f] = header[f]
        /\ state' = state /\ todo' = todo /\ clone' = clone
    BY <1>1, DecidingStep
  <2> QED
    BY <2>1 DEF Late, Decided, Own, OwnV3
<1>2. CASE ReservesFail(e)
  BY <1>2 DEF ReservesFail, Own, OwnV3
<1>3. CASE FetchReserves(e)
  BY <1>3 DEF FetchReserves, Own, OwnV3
<1>4. CASE ReservesApplied(e)
  BY <1>4 DEF ReservesApplied, Own, OwnV3
<1>5. CASE FetchLiquidity(e)
  BY <1>5 DEF FetchLiquidity, OwnV3, Own
<1>6. CASE StoreLiquidity(e)
  BY <1>6 DEF StoreLiquidity, OwnV3, Own
<1>7. CASE LiquidityStored(e)
  BY <1>7 DEF LiquidityStored, Own, OwnV3
<1>8. ASSUME NEW p \in Pool, ApplyReserves(e, p) PROVE Fetching'
  BY <1>8 DEF ApplyReserves, Own, OwnV3
<1>9. ASSUME NEW p \in Pool, CloneState(e, p) PROVE Fetching'
  BY <1>9 DEF CloneState, HasState, Own, OwnV3
<1>10. ASSUME NEW p \in Pool, SkipStateless(e, p) PROVE Fetching'
  BY <1>10 DEF SkipStateless, Own, OwnV3
<1> QED
  BY <1>1, <1>2, <1>3, <1>4, <1>5, <1>6, <1>7, <1>8, <1>9, <1>10 DEF Handler, Deciding

LEMMA CurrentHandler ==
  ASSUME TypeOK, Fetching, Current, NEW e \in Engine, Handler(e)
  PROVE  Current'
<1> USE EngineAssumption, StatesTyped DEF TypeOK, Current, Goto, Return, Refreshed, locals
<1>1. CASE Deciding(e)
  <2>1. /\ pc[e] \in Late /\ pc'[e] \in Late \cup {"idle"}
        /\ pc'[e] # "idle" => header'[e] = header[e]
        /\ \A f \in Engine \ {e} : pc'[f] = pc[f] /\ header'[f] = header[f]
        /\ state' = state /\ todo' = todo /\ clone' = clone
    BY <1>1, DecidingStep
  <2> QED
    BY <2>1 DEF Late, Decided, Own, OwnV3
<1>2. CASE ReservesFail(e)
  BY <1>2 DEF ReservesFail, Own
<1>3. CASE FetchReserves(e)
  BY <1>3 DEF FetchReserves, Own
<1>4. CASE ReservesApplied(e)
  BY <1>4 DEF ReservesApplied, Own
<1>5. CASE FetchLiquidity(e)
  BY <1>5 DEF FetchLiquidity, Own
<1>6. CASE StoreLiquidity(e)
  BY <1>6 DEF StoreLiquidity, Fetching, OwnV3, Own
<1>7. CASE LiquidityStored(e)
  BY <1>7 DEF LiquidityStored, Own
<1>8. ASSUME NEW p \in Pool, ApplyReserves(e, p) PROVE Current'
  BY <1>8 DEF ApplyReserves, Fetching, Own
<1>9. ASSUME NEW p \in Pool, CloneState(e, p) PROVE Current'
  BY <1>9 DEF CloneState, HasState, Own
<1>10. ASSUME NEW p \in Pool, SkipStateless(e, p) PROVE Current'
  BY <1>10 DEF SkipStateless, Own
<1> QED
  BY <1>1, <1>2, <1>3, <1>4, <1>5, <1>6, <1>7, <1>8, <1>9, <1>10 DEF Handler, Deciding

(* The two writes of the pool states: both replace one state of a pool of  *)
(* the engine's chain, during the refresh.                                 *)
LEMMA Writes ==
  ASSUME TypeOK, Fetching, NEW e \in Engine, Handler(e)
  PROVE  \/ state' = state
         \/ \E p \in Own(e) :
               /\ state' = [state EXCEPT ![p] = [block |-> header[e], liq |-> NoBlock]]
               /\ pc[e] = "apply" /\ pc' = pc /\ opp' = opp
         \/ \E p \in OwnV3(e) :
               /\ state' = [state EXCEPT ![p] = [block |-> state[p].block, liq |-> header[e]]]
               /\ pc[e] = "store" /\ pc' = [pc EXCEPT ![e] = "fetched"] /\ opp' = opp
<1>1. CASE StoreLiquidity(e)
  BY <1>1 DEF StoreLiquidity, Fetching, Goto
<1>2. ASSUME NEW p \in Pool, ApplyReserves(e, p)
      PROVE  /\ p \in Own(e)
             /\ state' = [state EXCEPT ![p] = [block |-> header[e], liq |-> NoBlock]]
             /\ pc[e] = "apply" /\ pc' = pc /\ opp' = opp
  BY <1>2 DEF ApplyReserves, Fetching
<1>3. CASE /\ ~StoreLiquidity(e)
           /\ ~ \E p \in Pool : ApplyReserves(e, p)
  BY <1>3 DEF Handler, ReservesFail, FetchReserves,
       ReservesApplied, FetchLiquidity, LiquidityStored, NoOpportunity,
       SimulationFails, SimulateBuy, SimulateSell, Notify, Execute,
       CloneState, SkipStateless, QuoteBuy, QuoteSell
<1> QED
  BY <1>1, <1>2, <1>3

(* Only the first pass changes the block of a pool, and it ends with all   *)
(* of them on the header's.                                                *)
LEMMA OneBlockHandler ==
  ASSUME TypeOK, Fetching, Current, OneBlock, NEW e \in Engine, Handler(e)
  PROVE  OneBlock'
<1> USE EngineAssumption DEF TypeOK, OneBlock
<1>1. CASE state' = state
  <2>1. \A f \in Engine \ {e} : pc'[f] = pc[f]
    BY DEF Handler, Goto, Return, Refreshed, ReservesFail, FetchReserves,
       ReservesApplied, FetchLiquidity, StoreLiquidity, LiquidityStored,
       NoOpportunity, SimulationFails, SimulateBuy, SimulateSell, Notify,
       Execute, ApplyReserves, CloneState, SkipStateless, QuoteBuy, QuoteSell
  <2>2. CASE ReservesApplied(e)
    <3>1. \A p \in Own(e) \ Flaky : state[p].block = header[e]
      BY <2>2 DEF ReservesApplied, Current
    <3> QED
      BY <1>1, <2>1, <3>1 DEF Own
  <2>3. CASE ~ReservesApplied(e)
    <3>1. pc[e] = "apply" => pc'[e] = "apply"
      BY <2>3 DEF Handler, Goto, Return, Refreshed, ReservesFail, FetchReserves,
         FetchLiquidity, StoreLiquidity, LiquidityStored, NoOpportunity, Decided,
         SimulationFails, SimulateBuy, SimulateSell, Notify, Execute,
         ApplyReserves, CloneState, SkipStateless, QuoteBuy, QuoteSell
    <3> QED
      BY <1>1, <2>1, <3>1 DEF Own
  <2> QED
    BY <2>2, <2>3
<1>2. ASSUME NEW p \in Own(e), pc[e] = "apply", pc' = pc,
             state' = [state EXCEPT ![p] = [block |-> header[e], liq |-> NoBlock]]
      PROVE  OneBlock'
  <2>1. \A f \in Engine \ {e} : \A q \in Own(f) : state'[q] = state[q]
    BY <1>2 DEF Own
  <2> QED
    BY <1>2, <2>1 DEF Own
<1>3. ASSUME NEW p \in OwnV3(e), pc[e] = "store", pc' = [pc EXCEPT ![e] = "fetched"],
             state' = [state EXCEPT ![p] = [block |-> state[p].block, liq |-> header[e]]]
      PROVE  OneBlock'
  <2>1. \A q \in Pool : state'[q].block = state[q].block
    BY <1>3 DEF OwnV3, Own
  <2>2. \A f \in Engine : pc'[f] # "apply" => pc[f] # "apply"
    BY <1>3
  <2> QED
    BY <2>1, <2>2 DEF Own
<1> QED
  BY <1>1, <1>2, <1>3, Writes

LEMMA SnapshotHandler ==
  ASSUME TypeOK, Fetching, Current, SnapshotConsistent, NEW e \in Engine, Handler(e)
  PROVE  SnapshotConsistent'
<1> USE DEF SnapshotConsistent
<1>1. CASE state' = state
  BY <1>1
<1>2. ASSUME NEW p \in Own(e),
             state' = [state EXCEPT ![p] = [block |-> header[e], liq |-> NoBlock]]
      PROVE  SnapshotConsistent'
  BY <1>2 DEF TypeOK, Own
<1>3. ASSUME NEW p \in OwnV3(e), pc[e] = "store",
             state' = [state EXCEPT ![p] = [block |-> state[p].block, liq |-> header[e]]]
      PROVE  SnapshotConsistent'
  <2>1. p \notin Flaky => state[p].block = header[e]
    BY <1>3 DEF Current, OwnV3
  <2> QED
    BY <1>3, <2>1 DEF TypeOK, Own, OwnV3
<1> QED
  BY <1>1, <1>2, <1>3, Writes

LEMMA QuoteHandler ==
  ASSUME TypeOK, Fetching, QuoteHeld, NEW e \in Engine, Handler(e)
  PROVE  QuoteHeld'
<1> USE EngineAssumption DEF TypeOK, QuoteHeld, Decided
<1>1. ASSUME NEW p \in Own(e), NEW s, state' = [state EXCEPT ![p] = s],
             opp' = opp, \A f \in Engine \ {e} : pc'[f] = pc[f],
             pc'[e] \notin Decided \cup {"sellQuote"}
      PROVE  QuoteHeld'
  <2>1. \A f \in Engine \ {e} : \A q \in Own(f) : state'[q] = state[q]
    BY <1>1 DEF Own
  <2> QED
    BY <1>1, <2>1 DEF Own
<1>2. CASE state' = state
  <2> USE <1>2 DEF Goto, Return, Refreshed, locals
  <2>1. CASE ReservesFail(e) \/ FetchReserves(e) \/ ReservesApplied(e)
    BY <2>1 DEF ReservesFail, FetchReserves, ReservesApplied, Own
  <2>2. CASE FetchLiquidity(e) \/ StoreLiquidity(e) \/ LiquidityStored(e)
    BY <2>2 DEF FetchLiquidity, StoreLiquidity, LiquidityStored, Own
  <2>3. CASE NoOpportunity(e) \/ SimulationFails(e) \/ Execute(e)
    BY <2>3 DEF NoOpportunity, SimulationFails, Execute, Own
  <2>4. CASE SimulateBuy(e) \/ SimulateSell(e)
    BY <2>4 DEF SimulateBuy, SimulateSell, Own
  <2>5. CASE Notify(e)
    BY <2>5 DEF Notify, Own
  <2>6. ASSUME NEW p \in Pool,
               ApplyReserves(e, p) \/ CloneState(e, p) \/ SkipStateless(e, p)
        PROVE  QuoteHeld'
    BY <2>6 DEF ApplyReserves, CloneState, SkipStateless, Own
  <2>7. ASSUME NEW p \in Pool, QuoteBuy(e, p) PROVE QuoteHeld'
    BY <2>7 DEF QuoteBuy, PricedFrom, Own
  <2>8. ASSUME NEW p \in Pool, QuoteSell(e, p) PROVE QuoteHeld'
    BY <2>8 DEF QuoteSell, PricedFrom, Own
  <2> QED
    BY <2>1, <2>2, <2>3, <2>4, <2>5, <2>6, <2>7, <2>8 DEF Handler
<1>3. CASE \E p \in Own(e) :
              /\ state' = [state EXCEPT ![p] = [block |-> header[e], liq |-> NoBlock]]
              /\ pc[e] = "apply" /\ pc' = pc /\ opp' = opp
  <2>1. PICK p \in Own(e) :
              /\ state' = [state EXCEPT ![p] = [block |-> header[e], liq |-> NoBlock]]
              /\ pc[e] = "apply" /\ pc' = pc /\ opp' = opp
    BY <1>3
  <2>2. pc'[e] \notin Decided \cup {"sellQuote"}
    BY <2>1
  <2> QED
    BY ONLY <1>1, <2>1, <2>2
<1>4. CASE \E p \in OwnV3(e) :
              /\ state' = [state EXCEPT ![p] = [block |-> state[p].block, liq |-> header[e]]]
              /\ pc[e] = "store" /\ pc' = [pc EXCEPT ![e] = "fetched"] /\ opp' = opp
  <2>1. PICK p \in OwnV3(e) :
              /\ state' = [state EXCEPT ![p] = [block |-> state[p].block, liq |-> header[e]]]
              /\ pc[e] = "store" /\ pc' = [pc EXCEPT ![e] = "fetched"] /\ opp' = opp
    BY <1>4
  <2>2. /\ pc'[e] \notin Decided \cup {"sellQuote"}
        /\ \A f \in Engine \ {e} : pc'[f] = pc[f]
        /\ p \in Own(e)
    BY <2>1 DEF OwnV3
  <2> QED
    BY ONLY <1>1, <2>1, <2>2
<1> QED
  BY <1>2, <1>3, <1>4, Writes

-----------------------------------------------------------------------------
LEMMA InitInvariant == Init => IInv
<1> SUFFICES ASSUME Init PROVE IInv
  OBVIOUS
<1>1. TypeOK
  BY InitTyped
<1>2. OneBlock
  BY DEF Init, OneBlock, Own
<1>3. Fetching /\ Current
  BY DEF Init, Fetching, Current
<1>4. SnapshotConsistent
  BY DEF Init, SnapshotConsistent, NoState
<1>5. QuoteHeld
  BY DEF Init, QuoteHeld, Decided
<1> QED
  BY <1>1, <1>2, <1>3, <1>4, <1>5 DEF IInv

(* From outside, an engine only starts a handler or lets time pass.        *)
LEMMA OutsideInvariant ==
  ASSUME IInv, NEW e \in Engine, Outside(e)
  PROVE  IInv'
<1> USE DEF IInv, Goto, locals
<1>1. CASE IntervalPasses(e)
  <2>1. TypeOK'
    BY <1>1 DEF IntervalPasses, TypeOK
  <2>2. UNCHANGED <<state, pc, header, newest, todo, clone, opp>>
    BY <1>1 DEF IntervalPasses
  <2> QED
    BY <2>1, <2>2 DEF Fetching, Current, OneBlock, SnapshotConsistent,
                      QuoteHeld, Own, OwnV3
<1>2. ASSUME NEW n \in Block, HandleBlock(e, n) PROVE IInv'
  <2> USE <1>2 DEF HandleBlock, TypeOK
  <2>1. TypeOK'
    BY DEF PC
  <2>2. OneBlock'
    BY DEF OneBlock, Own
  <2>3. Fetching'
    BY DEF Fetching, Own, OwnV3
  <2>4. Current'
    BY DEF Current, Own
  <2>5. SnapshotConsistent'
    BY DEF SnapshotConsistent
  <2>6. QuoteHeld'
    BY DEF QuoteHeld, Decided, Own
  <2> QED
    BY <2>1, <2>2, <2>3, <2>4, <2>5, <2>6
<1> QED
  BY <1>1, <1>2 DEF Outside

LEMMA StepInvariant == IInv /\ [Next]_vars => IInv'
<1> SUFFICES ASSUME IInv, [Next]_vars PROVE IInv'
  OBVIOUS
<1>1. ASSUME NEW e \in Engine, Handler(e) PROVE IInv'
  BY <1>1, TypingHandler, FetchingHandler, CurrentHandler, OneBlockHandler,
     SnapshotHandler, QuoteHandler DEF IInv
<1>2. ASSUME NEW e \in Engine, Outside(e) PROVE IInv'
  BY <1>2, OutsideInvariant
<1>3. CASE UNCHANGED vars
  BY <1>3 DEF vars, IInv, TypeOK, Fetching, Current, OneBlock,
       SnapshotConsistent, QuoteHeld, Own, OwnV3
<1> QED
  BY <1>1, <1>2, <1>3 DEF Next, Dead

(* IInv holds in every state: what a refresh under way has stored so far,  *)
(* and what an opportunity under way may still rely on.                    *)
THEOREM Invariance == Spec => []IInv
BY InitInvariant, StepInvariant, PTL DEF Spec

(* Every variable of the engines keeps its type, for every number of       *)
(* engines, pools and blocks.                                              *)
THEOREM TypeCorrect == Spec => []TypeOK
<1>1. IInv => TypeOK
  BY DEF IInv
<1> QED
  BY <1>1, Invariance, PTL

(* The two-pass refresh of a V3 pool (engine.go, 167-211) never combines   *)
(* two blocks when the pool's calls do not fail singly: it relies on each  *)
(* pool having one writer, and on pass 1 dropping the old liquidity.       *)
THEOREM NeverTorn == Spec => []SnapshotConsistent
<1>1. IInv => SnapshotConsistent
  BY DEF IInv
<1> QED
  BY <1>1, Invariance, PTL

(* An engine acts on the pool states it found the profit on, whatever the  *)
(* engines of the other chains do meanwhile.                               *)
THEOREM QuoteStaysCurrent == Spec => []QuoteHeld
<1>1. IInv => QuoteHeld
  BY DEF IInv
<1> QED
  BY <1>1, Invariance, PTL

(* The two legs an engine acts on are priced on one block, for any number  *)
(* of engines: their pools move to the next block together, and stay there *)
(* from the quote to the execution.                                        *)
THEOREM LegsAgree == Spec => []LegsOfOneBlock
<1>1. IInv => LegsOfOneBlock
  <2> SUFFICES ASSUME IInv, NEW e \in Engine, pc[e] \in Decided,
                      {opp[e].buy, opp[e].sell} \subseteq Own(e) \ Flaky
               PROVE  opp[e].buyState.block = opp[e].sellState.block
    BY DEF LegsOfOneBlock
  <2>1. state[opp[e].buy] = opp[e].buyState /\ state[opp[e].sell] = opp[e].sellState
    BY DEF IInv, QuoteHeld
  <2>2. state[opp[e].buy].block = state[opp[e].sell].block
    BY DEF IInv, OneBlock, Decided
  <2> QED
    BY <2>1, <2>2
<1> QED
  BY <1>1, Invariance, PTL

-----------------------------------------------------------------------------
(* Refinement.  What a pool with state t shows; replacing the state of one *)
(* pool changes what that pool shows, and nothing else.                    *)
Look(t, q) == IF ~(t # NoState /\ (PoolType[q] = "v3" => t.liq # NoBlock)) THEN NoBlock
              ELSE IF PoolType[q] = "v3" /\ t.liq # t.block THEN MaxBlock + 1
              ELSE t.block

LEMMA ShownChange ==
  ASSUME TypeOK, NEW p \in Pool, NEW s \in PoolState,
         state' = [state EXCEPT ![p] = s]
  PROVE  Shown' = IF p \in Flaky THEN Shown ELSE [Shown EXCEPT ![p] = Look(s, p)]
<1>1. state'[p] = s /\ \A q \in Pool \ {p} : state'[q] = state[q]
  BY DEF TypeOK
<1>2. /\ Shown = [q \in Pool \ Flaky |-> Look(state[q], q)]
      /\ Shown' = [q \in Pool \ Flaky |-> Look(state'[q], q)]
  BY DEF Shown, Quotable, HasState, Look
<1> QED
  BY <1>1, <1>2

LEMMA RefinementInit == Init => Snap!Init
  BY DEF Init, Snap!Init, Shown, Quotable, HasState, NoBlock

LEMMA RefinementHandler ==
  ASSUME IInv, NEW e \in Engine, Handler(e)
  PROVE  [Snap!Next]_Shown
<1> USE EngineAssumption, StatesTyped
<1>0. TypeOK /\ Fetching /\ Current
  BY DEF IInv
<1>1. CASE state' = state
  BY <1>1 DEF Shown, Quotable, HasState
<1>2. CASE \E p \in Own(e) :
              /\ state' = [state EXCEPT ![p] = [block |-> header[e], liq |-> NoBlock]]
              /\ pc[e] = "apply"
  <2>1. PICK p \in Own(e) :
              /\ state' = [state EXCEPT ![p] = [block |-> header[e], liq |-> NoBlock]]
              /\ pc[e] = "apply"
    BY <1>2
  <2>2. p \in Pool /\ header[e] \in 1..MaxBlock
    BY <1>0, <2>1 DEF Own, Fetching, Block
  <2>3. Shown' = IF p \in Flaky THEN Shown
                 ELSE [Shown EXCEPT ![p] = IF PoolType[p] = "v3" THEN NoBlock ELSE header[e]]
    <3> DEFINE s == [block |-> header[e], liq |-> NoBlock]
    <3>1. s \in PoolState /\ s # NoState /\ s.block = header[e] /\ s.liq = NoBlock
      BY <2>2 DEF NoState, Block, NoBlock
    <3>2. Look(s, p) = IF PoolType[p] = "v3" THEN NoBlock ELSE header[e]
      BY <3>1 DEF Look
    <3>3. state' = [state EXCEPT ![p] = s]
      BY <2>1
    <3> HIDE DEF s
    <3>4. Shown' = IF p \in Flaky THEN Shown ELSE [Shown EXCEPT ![p] = Look(s, p)]
      BY ONLY <1>0, <2>2, <3>1, <3>3, ShownChange
    <3> QED
      BY <3>2, <3>4
  <2>4. CASE p \in Flaky
    BY <2>3, <2>4
  <2>5. CASE p \notin Flaky /\ PoolType[p] = "v3"
    <3>1. Snap!Withdraw(p)
      BY <2>2, <2>3, <2>5 DEF Snap!Withdraw, NoBlock
    <3> QED
      BY <3>1, <2>2, <2>5 DEF Snap!Next
  <2>6. CASE p \notin Flaky /\ PoolType[p] # "v3"
    <3>1. Snap!Publish(p, header[e])
      BY <2>2, <2>3, <2>6 DEF Snap!Publish
    <3> QED
      BY <3>1, <2>2, <2>6 DEF Snap!Next
  <2> QED
    BY <2>4, <2>5, <2>6
<1>3. CASE \E p \in OwnV3(e) :
              /\ state' = [state EXCEPT ![p] = [block |-> state[p].block, liq |-> header[e]]]
              /\ pc[e] = "store"
  <2>1. PICK p \in OwnV3(e) :
              /\ state' = [state EXCEPT ![p] = [block |-> state[p].block, liq |-> header[e]]]
              /\ pc[e] = "store"
    BY <1>3
  <2>2. p \in Own(e) /\ p \in Pool /\ header[e] \in 1..MaxBlock /\ PoolType[p] = "v3"
    BY <1>0, <2>1 DEF OwnV3, Own, Fetching, Block
  <2>3. CASE p \in Flaky
    <3>1. \A q \in Pool \ Flaky : state'[q] = state[q]
      BY <1>0, <2>1, <2>2, <2>3 DEF TypeOK
    <3> QED
      BY <3>1 DEF Shown, Quotable, HasState
  <2>4. CASE p \notin Flaky
    <3>1. state[p].block = header[e]
      BY <1>0, <2>1, <2>2, <2>4 DEF Current
    <3>2. Shown' = [Shown EXCEPT ![p] = header[e]]
      <4> DEFINE s == [block |-> state[p].block, liq |-> header[e]]
      <4>1. s \in PoolState /\ s # NoState /\ s.block = header[e] /\ s.liq = header[e]
        BY <2>2, <3>1 DEF NoState, Block, NoBlock
      <4>2. Look(s, p) = header[e]
        BY <2>2, <4>1 DEF Look, NoBlock
      <4>3. state' = [state EXCEPT ![p] = s]
        BY <2>1
      <4> HIDE DEF s
      <4>4. Shown' = IF p \in Flaky THEN Shown ELSE [Shown EXCEPT ![p] = Look(s, p)]
        BY ONLY <1>0, <2>2, <4>1, <4>3, ShownChange
      <4> QED
        BY <2>4, <4>2, <4>4
    <3>3. Snap!Publish(p, header[e])
      BY <3>2 DEF Snap!Publish
    <3> QED
      BY <3>3, <2>2, <2>4 DEF Snap!Next
  <2> QED
    BY <2>3, <2>4
<1> QED
  BY <1>0, <1>1, <1>2, <1>3, Writes

(* A handler under way keeps its header until it returns.                  *)
LEMMA HeaderStep ==
  ASSUME TypeOK, NEW e \in Engine, Handler(e)
  PROVE  /\ header' = header \/ header' = [header EXCEPT ![e] = NoBlock]
         /\ newest' = newest
BY DEF Handler, Goto, Return, Refreshed, locals, ReservesFail, FetchReserves,
       ReservesApplied, FetchLiquidity, StoreLiquidity, LiquidityStored,
       NoOpportunity, SimulationFails, SimulateBuy, SimulateSell, Notify,
       Execute, ApplyReserves, CloneState, SkipStateless, QuoteBuy, QuoteSell

(* The blocks that pools show have been handed to their engine, and a step *)
(* of a handler that takes one of them back is handling an older header.   *)
LEMMA HandedHandler ==
  ASSUME TypeOK, Fetching, Handed, NEW e \in Engine, Handler(e)
  PROVE  /\ Handed'
         /\ \A f \in Engine : \A q \in Own(f) :
               state'[q].block < state[q].block => header[f] < newest[f]
<1> USE EngineAssumption
<1>1. /\ newest' = newest
      /\ \A f \in Engine : header'[f] <= newest[f]
  BY HeaderStep DEF TypeOK, Handed, Block, NoBlock
<1>2. \A q \in Pool : state[q].block \in Nat
  BY StatesTyped DEF TypeOK, Block, NoBlock
<1>3. CASE \A q \in Pool : state'[q].block = state[q].block
  BY <1>1, <1>2, <1>3 DEF Handed, Own
<1>4. ASSUME NEW p \in Own(e),
             state' = [state EXCEPT ![p] = [block |-> header[e], liq |-> NoBlock]]
      PROVE  /\ Handed'
             /\ \A f \in Engine : \A q \in Own(f) :
                   state'[q].block < state[q].block => header[f] < newest[f]
  <2>1. /\ p \in Pool /\ state'[p].block = header[e]
        /\ \A q \in Pool \ {p} : state'[q] = state[q]
    BY <1>4 DEF TypeOK, Own
  <2>2. \A f \in Engine : p \in Own(f) => f = e
    BY <1>4 DEF Own
  <2>3. \A f \in Engine : \A q \in Own(f) : state'[q].block <= newest[f]
    BY <2>1, <2>2 DEF Handed, Own
  <2>4. Handed'
    BY <1>1, <2>3 DEF Handed, Own
  <2>5. ASSUME NEW f \in Engine, NEW q \in Own(f), state'[q].block < state[q].block
        PROVE  header[f] < newest[f]
    <3>1. CASE q # p
      BY <1>2, <2>1, <2>5, <3>1 DEF Own
    <3>2. CASE q = p
      <4>1. f = e /\ header[f] < state[p].block /\ state[p].block <= newest[f]
        BY <2>1, <2>2, <2>5, <3>2 DEF Handed
      <4>2. header[f] \in Nat /\ newest[f] \in Nat /\ state[p].block \in Nat
        BY <1>2, <2>1 DEF TypeOK, Block, NoBlock
      <4> QED
        BY ONLY <4>1, <4>2
    <3> QED
      BY <3>1, <3>2
  <2> QED
    BY <2>4, <2>5
<1>5. ASSUME NEW p \in OwnV3(e),
             state' = [state EXCEPT ![p] = [block |-> state[p].block, liq |-> header[e]]]
      PROVE  \A q \in Pool : state'[q].block = state[q].block
  BY <1>5 DEF TypeOK, OwnV3, Own
<1> QED
  BY <1>3, <1>4, <1>5, Writes

LEMMA HandedOutside ==
  ASSUME TypeOK, Handed, NEW e \in Engine, Outside(e)
  PROVE  Handed' /\ state' = state
<1>1. CASE IntervalPasses(e)
  BY <1>1 DEF IntervalPasses, Handed, Own
<1>2. ASSUME NEW n \in Block, HandleBlock(e, n) PROVE Handed' /\ state' = state
  <2>1. /\ state' = state
        /\ \A f \in Engine : newest[f] <= newest'[f] /\ header'[f] <= newest'[f]
        /\ \A f \in Engine : newest[f] \in Nat /\ newest'[f] \in Nat
    <3>1. /\ state' = state
          /\ newest' = [newest EXCEPT ![e] = IF n > newest[e] THEN n ELSE newest[e]]
          /\ header' = [header EXCEPT ![e] = n]
      BY <1>2 DEF HandleBlock
    <3>2. /\ n \in Nat
          /\ \A f \in Engine : newest[f] \in Nat /\ header[f] \in Nat
      BY EngineAssumption DEF TypeOK, Block, NoBlock
    <3>3. newest'[e] = IF n > newest[e] THEN n ELSE newest[e]
      BY <3>1 DEF TypeOK
    <3>4. header'[e] = n
      BY <3>1 DEF TypeOK
    <3>5. \A f \in Engine \ {e} : newest'[f] = newest[f] /\ header'[f] = header[f]
      BY <3>1 DEF TypeOK
    <3> QED
      BY <3>1, <3>2, <3>3, <3>4, <3>5 DEF Handed
  <2>2. \A q \in Pool : state[q].block \in Nat
    BY StatesTyped DEF TypeOK, Block, NoBlock
  <2> QED
    BY <2>1, <2>2 DEF Handed, Own
<1> QED
  BY <1>1, <1>2 DEF Outside

LEMMA HandedStep ==
  ASSUME IInv, Handed, [Next]_vars
  PROVE  /\ Handed'
         /\ [\A e \in Engine : \A p \in Own(e) :
                state'[p].block < state[p].block => header[e] < newest[e]]_vars
<1>0. TypeOK /\ Fetching
  BY DEF IInv
<1>1. ASSUME NEW e \in Engine, Handler(e)
      PROVE  /\ Handed'
             /\ \A f \in Engine : \A q \in Own(f) :
                   state'[q].block < state[q].block => header[f] < newest[f]
  BY <1>0, <1>1, HandedHandler
<1>2. \A q \in Pool : ~ (state[q].block < state[q].block)
  BY <1>0, StatesTyped DEF TypeOK, Block, NoBlock
<1>3. ASSUME NEW e \in Engine, Outside(e)
      PROVE  /\ Handed'
             /\ \A f \in Engine : \A q \in Own(f) :
                   state'[q].block < state[q].block => header[f] < newest[f]
  BY <1>0, <1>2, <1>3, HandedOutside DEF Own
<1>4. CASE UNCHANGED vars
  BY <1>4 DEF vars, Handed, Own
<1> QED
  BY <1>1, <1>3, <1>4 DEF Next, Dead

(* What strategies see of a pool goes back to an older block only when the *)
(* engine of its chain is handed a header older than an earlier one, which *)
(* its subscriber does not do (RefinesDelivery in SubscriberProofs).       *)
THEOREM NeverBackInOrder == Spec => BackOnlyOnOlderHeader
<1>1. Init => Handed
  <2> SUFFICES ASSUME Init PROVE Handed
    OBVIOUS
  <2>1. \A e \in Engine : header[e] = 0 /\ newest[e] = 0
    BY DEF Init, NoBlock
  <2>2. \A p \in Pool : state[p].block = 0
    BY DEF Init, NoState, NoBlock
  <2>3. ASSUME NEW e \in Engine PROVE header[e] <= newest[e]
    <3>1. header[e] = 0 /\ newest[e] = 0
      BY <2>1
    <3> QED
      BY ONLY <3>1
  <2>4. \A e \in Engine : \A p \in Own(e) : state[p].block <= newest[e]
    BY <2>1, <2>2 DEF Own
  <2> QED
    BY <2>3, <2>4 DEF Handed
<1>2. IInv /\ Handed /\ [Next]_vars =>
        /\ Handed'
        /\ [\A e \in Engine : \A p \in Own(e) :
               state'[p].block < state[p].block => header[e] < newest[e]]_vars
  BY HandedStep
<1> QED
  BY <1>1, <1>2, Invariance, PTL DEF Spec, BackOnlyOnOlderHeader

(* The engines' unsynchronised two-pass refresh implements the atomic      *)
(* publication of whole blocks that the strategies rely on.                *)
THEOREM RefinesSnapshots == Spec => PublishesWholeBlocks
<1>1. IInv /\ [Next]_vars => [Snap!Next]_Shown
  <2> SUFFICES ASSUME IInv, [Next]_vars PROVE [Snap!Next]_Shown
    OBVIOUS
  <2>1. ASSUME NEW e \in Engine, Handler(e) PROVE [Snap!Next]_Shown
    BY <2>1, RefinementHandler
  <2>2. ASSUME NEW e \in Engine, Outside(e) PROVE Shown' = Shown
    BY <2>2 DEF Outside, IntervalPasses, HandleBlock, Shown, Quotable, HasState
  <2>3. CASE UNCHANGED vars
    BY <2>3 DEF vars, Shown, Quotable, HasState
  <2> QED
    BY <2>1, <2>2, <2>3 DEF Next, Dead
<1> QED
  BY <1>1, RefinementInit, Invariance, PTL DEF Spec, PublishesWholeBlocks, Snap!Spec
=============================================================================
