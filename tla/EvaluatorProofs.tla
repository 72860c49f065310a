---------------------------- MODULE EvaluatorProofs ----------------------------
(***************************************************************************)
(* For any configuration, any number of engines, any strategies and any    *)
(* length of cycles: when a strategy panics, the types, and what the       *)
(* registry holds once it is filled.                                       *)
(***************************************************************************)
EXTENDS Evaluator, SequenceTheorems, FiniteSetTheorems, TLAPS

(* Two different pools of one chain and pair.                              *)
Pair(p, q) == p # q /\ p.chain = q.chain /\ {p.t0, p.t1} = {q.t0, q.t1}

(* The pair index holds a pool only under the pool's own key.              *)
Keyed ==
    /\ cfg \in Config
    /\ at \in Nat \ {0}
    /\ \A k \in DOMAIN byPair :
          /\ byPair[k] \in Seq(PoolConfig)
          /\ \A i \in 1..Len(byPair[k]) : KeyOf(byPair[k][i]) = k

IInv == Keyed /\ PanicOnlyOnCurve

(* Equal keys are equal chains and pairs.                                  *)
LEMMA SameKey ==
    ASSUME NEW p, NEW q, KeyOf(p) = KeyOf(q)
    PROVE  p.chain = q.chain /\ {p.t0, p.t1} = {q.t0, q.t1}
  BY DEF KeyOf, PairKey

LEMMA PoolTyped ==
    ASSUME cfg \in Config, at \in Nat \ {0}, at <= Len(cfg.pools)
    PROVE  cfg.pools[at] \in PoolConfig
  <1>1. cfg.pools \in Seq(PoolConfig)
    BY StartupAssumption DEF ConfigType
  <1> QED
    BY <1>1

LEMMA AddKeeps ==
    ASSUME Keyed, NEW p \in PoolConfig, Add(p), UNCHANGED cfg, at' \in Nat \ {0}
    PROVE  Keyed'
  <1>1. CASE UNCHANGED registry
    BY <1>1 DEF Keyed, registry
  <1>2. CASE byPair' = Appended(byPair, KeyOf(p), p)
    <2> DEFINE key == KeyOf(p)
    <2>1. ASSUME NEW k \in DOMAIN byPair'
          PROVE  /\ byPair'[k] \in Seq(PoolConfig)
                 /\ \A i \in 1..Len(byPair'[k]) : KeyOf(byPair'[k][i]) = k
      <3>1. CASE k # key
        BY <1>2, <2>1, <3>1 DEF Keyed, Appended
      <3>2. CASE k = key
        <4> DEFINE old == Listed(byPair, key)
        <4>1. /\ old \in Seq(PoolConfig)
              /\ \A i \in 1..Len(old) : KeyOf(old[i]) = key
          BY DEF Keyed, Listed
        <4>2. byPair'[k] = Append(old, p)
          BY <1>2, <2>1, <3>2 DEF Appended
        <4> HIDE DEF old
        <4>3. Append(old, p) \in Seq(PoolConfig) /\ Len(Append(old, p)) = Len(old) + 1
          BY <4>1
        <4>4. ASSUME NEW i \in 1..(Len(old) + 1) PROVE KeyOf(Append(old, p)[i]) = key
          <5>1. CASE i = Len(old) + 1
            BY <4>1, <5>1
          <5>2. CASE i # Len(old) + 1
            <6>1. Append(old, p)[i] = old[i] /\ i \in 1..Len(old)
              BY <4>1, <5>2
            <6> QED
              BY <4>1, <6>1
          <5> QED
            BY <5>1, <5>2
        <4> QED
          BY <3>2, <4>2, <4>3, <4>4
      <3> QED
        BY <3>1, <3>2
    <2> QED
      BY <2>1 DEF Keyed
  <1> QED
    BY <1>1, <1>2 DEF Add

LEMMA MainKeeps ==
    ASSUME Keyed, MainStep
    PROVE  Keyed' /\ UNCHANGED <<live, panicked>> /\ UNCHANGED cfg
  <1>1. UNCHANGED <<live, panicked>>
    BY DEF MainStep
  <1>2. CASE FromConfig
    <2>1. UNCHANGED cfg /\ at' \in Nat \ {0}
      BY <1>2 DEF FromConfig, Keyed
    <2>2. CASE UNCHANGED registry
      BY <1>1, <2>1, <2>2 DEF Keyed, registry
    <2>3. CASE Add(cfg.pools[at])
      <3>1. cfg.pools[at] \in PoolConfig
        BY <1>2, PoolTyped DEF Keyed, FromConfig
      <3> QED
        BY <1>1, <2>1, <2>3, <3>1, AddKeeps
    <2> QED
      BY <1>1, <1>2, <2>1, <2>2, <2>3 DEF FromConfig
  <1>3. CASE Load \/ RegistryFilled \/ ChainFails \/ ChainHangs \/ StartEngine \/ ChainsTried
    BY <1>1, <1>3 DEF Load, RegistryFilled, ChainFails, ChainHangs, StartEngine, ChainsTried,
                      Keyed, registry
  <1> QED
    BY <1>2, <1>3 DEF MainStep, Main

(* No pool loses its state, and no cycle one of its pools.                 *)
LEMMA PanicStays ==
    ASSUME PanicOnlyOnCurve, live \subseteq live', UNCHANGED panicked
    PROVE  PanicOnlyOnCurve'
  <1>1. Cycles \subseteq Cycles'
    <2> SUFFICES ASSUME NEW c \in Cycles PROVE c \in Cycles'
      OBVIOUS
    <2>1. /\ c \in UNION {[1..n -> live] : n \in 3..MaxHops}
          /\ \E start \in {c[1].t0, c[1].t1} : Closes(c, start)
      BY DEF Cycles
    <2>2. PICK n \in 3..MaxHops : c \in [1..n -> live]
      BY <2>1
    <2>3. c \in [1..n -> live']
      BY <2>2
    <2>4. c \in UNION {[1..m -> live'] : m \in 3..MaxHops}
      BY <2>2, <2>3
    <2> QED
      BY <2>1, <2>4 DEF Cycles
  <1> QED
    BY <1>1 DEF PanicOnlyOnCurve

(* Directions that are Pairs of live pools: a strategy panics only on one  *)
(* that buys from a Curve pool.                                            *)
LEMMA PricesKeeps ==
    ASSUME PanicOnlyOnCurve,
           NEW e \in Entry, NEW s, NEW D,
           \A d \in D : {d[1], d[2]} \subseteq live /\ Pair(d[1], d[2]),
           Prices(e, s, D), UNCHANGED live
    PROVE  PanicOnlyOnCurve'
  <1>1. CASE \E d \in D : IsCurve(d[1])
    <2>1. PICK d \in D : IsCurve(d[1])
      BY <1>1
    <2>2. d[1] \in live /\ d[2] \in live /\ Pair(d[1], d[2])
      BY <2>1
    <2> QED
      BY <2>1, <2>2 DEF PanicOnlyOnCurve, Pair
  <1>2. CASE \A d \in D : ~IsCurve(d[1])
    BY <1>2, PanicStays DEF Prices, Done
  <1> QED
    BY <1>1, <1>2

(* A pool of a cycle is a live one.                                        *)
LEMMA TriangularKeeps ==
    ASSUME IInv, NEW e \in Entry, Triangular(e)
    PROVE  IInv'
  <1>1. UNCHANGED <<startupVars, live, busy>>
    BY DEF Triangular
  <1>2. CASE Done(e, "triangular")
    BY <1>1, <1>2, PanicStays DEF IInv, Keyed, Done, startupVars, registry
  <1>3. CASE \E c \in Cycles : \E p \in ToSet(c) : IsCurve(p)
    <2>1. PICK c \in Cycles : \E p \in ToSet(c) : IsCurve(p)
      BY <1>3
    <2>2. PICK p \in ToSet(c) : IsCurve(p)
      BY <2>1
    <2>3. PICK n \in 3..MaxHops : c \in [1..n -> live]
      BY <2>1 DEF Cycles
    <2>4. p \in live
      BY <2>2, <2>3 DEF ToSet
    <2>5. Cycles' = Cycles
      BY <1>1 DEF Cycles
    <2>6. PanicOnlyOnCurve'
      BY <1>1, <2>1, <2>2, <2>4, <2>5 DEF PanicOnlyOnCurve
    <2> QED
      BY <1>1, <2>6 DEF IInv, Keyed, startupVars, registry
  <1>4. (\E c \in Cycles : \E p \in ToSet(c) : IsCurve(p)) \/ Done(e, "triangular")
    BY DEF Triangular
  <1> QED
    BY <1>2, <1>3, <1>4

(* Pools of one key are of one chain and pair.                             *)
LEMMA CrossDexKeeps ==
    ASSUME IInv, NEW e \in Entry, CrossDex(e)
    PROVE  IInv'
  <1> DEFINE D == {d \in live \X live : d[1] # d[2] /\ KeyOf(d[1]) = KeyOf(d[2])}
  <1>1. /\ Prices(e, "cross_dex", D)
        /\ UNCHANGED <<startupVars, live, busy>>
    BY DEF CrossDex
  <1>2. \A d \in D : {d[1], d[2]} \subseteq live /\ Pair(d[1], d[2])
    BY SameKey DEF Pair
  <1> HIDE DEF D
  <1>4. PanicOnlyOnCurve'
    BY <1>1, <1>2, PricesKeeps DEF IInv
  <1> QED
    BY <1>1, <1>4 DEF IInv, Keyed, startupVars, registry

(* The pools of its pair come from the index under the pair's key.         *)
LEMMA CurveStableKeeps ==
    ASSUME IInv, NEW e \in Entry, CurveStable(e)
    PROVE  IInv'
  <1> DEFINE v2(p) == {q \in ToSet(GetByPair(p.t0, p.t1, p.chain)) \cap live :
                          q.type = "uniswap_v2"}
             D == UNION {({p} \X v2(p)) \cup (v2(p) \X {p}) : p \in {c \in live : IsCurve(c)}}
  <1>1. /\ Prices(e, "curve_stable", D)
        /\ UNCHANGED <<startupVars, live, busy>>
    BY DEF CurveStable
  <1>2. ASSUME NEW p, NEW q \in v2(p) PROVE KeyOf(q) = KeyOf(p) /\ q \in live /\ q.type = "uniswap_v2"
    <2>1. PICK i \in DOMAIN GetByPair(p.t0, p.t1, p.chain) :
             q = GetByPair(p.t0, p.t1, p.chain)[i]
      BY DEF ToSet
    <2>2. KeyOf(p) \in DOMAIN byPair /\ GetByPair(p.t0, p.t1, p.chain) = byPair[KeyOf(p)]
      BY <2>1 DEF GetByPair, Listed, KeyOf
    <2>3. KeyOf(q) = KeyOf(p)
      BY <2>1, <2>2 DEF IInv, Keyed
    <2> QED
      BY <2>3
  <1>3. ASSUME NEW d \in D
        PROVE  {d[1], d[2]} \subseteq live /\ Pair(d[1], d[2])
    <2>1. PICK p \in {c \in live : IsCurve(c)} : d \in ({p} \X v2(p)) \cup (v2(p) \X {p})
      BY <1>3
    <2>2. ASSUME NEW q \in v2(p)
          PROVE  q \in live /\ p \in live /\ Pair(p, q) /\ Pair(q, p)
      <3>1. q \in live /\ q.type = "uniswap_v2" /\ KeyOf(q) = KeyOf(p)
        BY <1>2, <2>2
      <3>2. p \in live /\ p.type = "curve"
        BY <2>1 DEF IsCurve
      <3>3. q.chain = p.chain /\ {q.t0, q.t1} = {p.t0, p.t1}
        BY <3>1, SameKey
      <3> QED
        BY <3>1, <3>2, <3>3 DEF Pair
    <2> HIDE DEF v2, D
    <2>3. CASE d \in {p} \X v2(p)
      <3>1. d[1] = p /\ d[2] \in v2(p)
        BY <2>3
      <3> QED
        BY <2>2, <3>1
    <2>4. CASE d \in v2(p) \X {p}
      <3>1. d[1] \in v2(p) /\ d[2] = p
        BY <2>4
      <3> QED
        BY <2>2, <3>1
    <2> QED
      BY <2>1, <2>3, <2>4
  <1> HIDE DEF D
  <1>4. PanicOnlyOnCurve'
    BY <1>1, <1>3, PricesKeeps DEF IInv
  <1> QED
    BY <1>1, <1>4 DEF IInv, Keyed, startupVars, registry

LEMMA EngineKeeps ==
    ASSUME IInv, NEW e \in Entry, Engine(e)
    PROVE  IInv'
  <1>1. CASE Refresh(e)
    <2>1. UNCHANGED <<startupVars, panicked>> /\ live \subseteq live'
      BY <1>1 DEF Refresh
    <2> QED
      BY <2>1, PanicStays DEF IInv, Keyed, startupVars, registry
  <1>2. CASE Evaluate(e) \/ EvaluateReturns(e) \/ Liquidation(e)
    <2>1. UNCHANGED <<startupVars, live, panicked>>
      BY <1>2 DEF Evaluate, EvaluateReturns, Liquidation, Done
    <2> QED
      BY <2>1, PanicStays DEF IInv, Keyed, startupVars, registry
  <1> QED
    BY <1>1, <1>2, CrossDexKeeps, TriangularKeeps, CurveStableKeeps DEF Engine

LEMMA Invariant == Spec => []IInv
  <1>1. Init => IInv
    BY DEF Init, StartupInit, IInv, Keyed, PanicOnlyOnCurve, Empty
  <1>2. IInv /\ [Next]_vars => IInv'
    <2> SUFFICES ASSUME IInv, [Next]_vars PROVE IInv'
      OBVIOUS
    <2>1. CASE MainStep
      BY <2>1, MainKeeps, PanicStays DEF IInv
    <2>2. ASSUME NEW e \in Entry, Engine(e) PROVE IInv'
      BY <2>2, EngineKeeps
    <2>3. CASE UNCHANGED vars
      BY <2>3, PanicStays DEF vars, startupVars, registry, IInv, Keyed
    <2> QED
      BY <2>1, <2>2, <2>3 DEF Next, Ended
  <1> QED
    BY <1>1, <1>2, PTL DEF Spec

(* Whatever is configured, however long the cycles may be and however the  *)
(* engines' refreshes and evaluations interleave: the strategies panic     *)
(* only on a Curve pool with a state that another pool of its chain and    *)
(* pair has, too, or that lies on a cycle of such pools.                   *)
THEOREM PanicsOnCurveOnly == Spec => []PanicOnlyOnCurve
  BY Invariant, PTL DEF IInv

-----------------------------------------------------------------------------
(* Types                                                                   *)

(* Every pool of the registry is a configured one, under its own address.  *)
Kept ==
    /\ byAddr = [a \in DOMAIN byAddr |-> byAddr[a]]
    /\ \A a \in DOMAIN byAddr : byAddr[a].addr = a

Types == Keyed /\ Kept /\ TypeOK

(* A pool that is added joins the registry; none is replaced.              *)
LEMMA AddAll ==
    ASSUME Kept, NEW p, Add(p)
    PROVE  /\ Kept'
           /\ All' = IF p.addr \in DOMAIN byAddr THEN All ELSE All \cup {p}
           /\ DOMAIN byAddr' = DOMAIN byAddr \cup {p.addr}
  <1>1. CASE p.addr \in DOMAIN byAddr
    <2>1. UNCHANGED byAddr
      BY <1>1 DEF Add, registry
    <2> QED
      BY <1>1, <2>1 DEF Kept, All
  <1>2. CASE p.addr \notin DOMAIN byAddr
    <2>1. byAddr' = [a \in DOMAIN byAddr \cup {p.addr} |-> IF a = p.addr THEN p ELSE byAddr[a]]
      BY <1>2 DEF Add
    <2>2. DOMAIN byAddr' = DOMAIN byAddr \cup {p.addr}
      BY <2>1
    <2>3. byAddr'[p.addr] = p /\ \A a \in DOMAIN byAddr : byAddr'[a] = byAddr[a]
      BY <1>2, <2>1
    <2>4. All' = All \cup {p}
      BY <2>2, <2>3 DEF All
    <2>5. Kept'
      BY <2>1, <2>2, <2>3 DEF Kept
    <2> QED
      BY <1>2, <2>2, <2>4, <2>5
  <1> QED
    BY <1>1, <1>2

LEMMA MainTypes ==
    ASSUME Types, MainStep
    PROVE  Types'
  <1>1. Keyed' /\ UNCHANGED <<cfg, live, wg, busy, panicked>>
    BY MainKeeps DEF MainStep, Types
  <1>2. at \in Nat \ {0} /\ cfg \in Config
    BY DEF Types, Keyed
  <1>3. CASE FromConfig
    <2>1. /\ pc = "pools" /\ at <= Len(cfg.pools) /\ at' = at + 1
          /\ UNCHANGED <<cfg, pc, engines, trackers>>
      BY <1>3 DEF FromConfig
    <2>2. Kept' /\ All \subseteq All' /\ All' \subseteq ToSet(cfg.pools)
      <3>1. All \subseteq ToSet(cfg.pools)
        BY DEF Types, TypeOK
      <3>2. CASE UNCHANGED registry
        BY <3>1, <3>2 DEF Types, Kept, All, registry
      <3>3. CASE Add(cfg.pools[at])
        <4>1. cfg.pools[at] \in ToSet(cfg.pools)
          <5>1. cfg.pools \in Seq(PoolConfig)
            BY <1>2, StartupAssumption DEF ConfigType
          <5>2. at \in DOMAIN cfg.pools
            BY <5>1, <1>2, <2>1
          <5> QED
            BY <5>2 DEF ToSet
        <4>2. Kept' /\ (All' = All \/ All' = All \cup {cfg.pools[at]})
          BY <3>3, AddAll DEF Types
        <4> QED
          BY <3>1, <4>1, <4>2
      <3> QED
        BY <1>3, <3>2, <3>3 DEF FromConfig
    <2>3. TypeOK'
      BY <1>1, <1>2, <2>1, <2>2 DEF Types, TypeOK, ChainOf
    <2> QED
      BY <1>1, <2>2, <2>3 DEF Types
  <1>4. CASE StartEngine
    <2>1. /\ pc = "chains" /\ at <= Len(cfg.chains) /\ at' = at + 1
          /\ engines' = engines \cup {at}
          /\ trackers' = IF cfg.chains[at].chain = Arbitrum /\ cfg.private_key = "valid"
                           THEN trackers \cup {at} ELSE trackers
          /\ UNCHANGED <<cfg, pc, registry>>
      BY <1>4 DEF StartEngine, Connecting
    <2>2. at \in DOMAIN cfg.chains
      <3>1. cfg.chains \in Seq(ChainConfig)
        BY <1>2, StartupAssumption DEF ConfigType
      <3> QED
        BY <3>1, <1>2, <2>1
    <2>3. UNCHANGED <<All, byAddr>>
      BY <2>1 DEF All, registry
    <2>4. engines' \subseteq DOMAIN cfg.chains /\ busy \subseteq engines'
      BY <2>1, <2>2 DEF Types, TypeOK
    <2>5. trackers' \subseteq {e \in engines' : ChainOf(e) = Arbitrum}
      BY <2>1 DEF Types, TypeOK, ChainOf
    <2>6. TypeOK'
      BY <1>1, <1>2, <2>1, <2>3, <2>4, <2>5 DEF Types, TypeOK, ChainOf
    <2> QED
      BY <1>1, <2>3, <2>6 DEF Types, Kept
  <1>5. CASE Load \/ RegistryFilled \/ ChainFails \/ ChainHangs \/ ChainsTried
    <2>1. /\ UNCHANGED <<cfg, byAddr, engines, trackers>>
          /\ pc' \in {"load", "pools", "chains", "hung", "running", "exited"}
          /\ at' \in Nat \ {0}
      BY <1>2, <1>5 DEF Load, RegistryFilled, ChainFails, ChainHangs, ChainsTried, Connecting,
                        registry, Types, TypeOK
    <2>2. UNCHANGED All
      BY <2>1 DEF All
    <2> QED
      BY <1>1, <2>1, <2>2 DEF Types, Kept, TypeOK, ChainOf
  <1> QED
    BY <1>3, <1>4, <1>5 DEF MainStep, Main

LEMMA DoneTypes ==
    ASSUME wg \in [Entry -> SUBSET Enabled], panicked \in BOOLEAN,
           NEW e \in Entry, NEW s, Panics \/ Done(e, s)
    PROVE  wg' \in [Entry -> SUBSET Enabled] /\ panicked' \in BOOLEAN
  <1>1. CASE Panics
    BY <1>1 DEF Panics
  <1>2. CASE Done(e, s)
    <2>1. wg' = [wg EXCEPT ![e] = @ \ {s}] /\ UNCHANGED panicked
      BY <1>2 DEF Done
    <2> QED
      BY <2>1
  <1> QED
    BY <1>1, <1>2

LEMMA EngineTypes ==
    ASSUME Types, NEW e \in Entry, Engine(e)
    PROVE  Types'
  <1>1. /\ wg \in [Entry -> SUBSET Enabled] /\ panicked \in BOOLEAN
        /\ busy \subseteq engines /\ live \subseteq All
    BY DEF Types, TypeOK
  <1>2. UNCHANGED startupVars
    BY DEF Engine, Refresh, Evaluate, CrossDex, Triangular, CurveStable, Liquidation,
           EvaluateReturns
  <1>3. live' \subseteq All
    <2>1. CASE Refresh(e)
      BY <1>1, <2>1 DEF Refresh
    <2> QED
      BY <1>1, <2>1 DEF Engine, Evaluate, CrossDex, Triangular, CurveStable, Liquidation,
                        EvaluateReturns
  <1>4. busy' \subseteq engines
    BY <1>1 DEF Engine, Refresh, Evaluate, CrossDex, Triangular, CurveStable, Liquidation,
           EvaluateReturns
  <1>5. wg' \in [Entry -> SUBSET Enabled] /\ panicked' \in BOOLEAN
    <2>1. CASE CrossDex(e) \/ Triangular(e) \/ CurveStable(e) \/ Liquidation(e)
      <3>1. \E s \in Strategy : Panics \/ Done(e, s)
        BY <2>1 DEF CrossDex, Triangular, CurveStable, Liquidation, Prices, Strategy
      <3> QED
        BY <1>1, <3>1, DoneTypes
    <2>3. CASE Evaluate(e)
      BY <1>1, <2>3 DEF Evaluate
    <2>4. CASE Refresh(e) \/ EvaluateReturns(e)
      BY <1>1, <2>4 DEF Refresh, EvaluateReturns
    <2> QED
      BY <2>1, <2>3, <2>4 DEF Engine
  <1> QED
    BY <1>2, <1>3, <1>4, <1>5 DEF Types, TypeOK, Keyed, Kept, All, ChainOf, startupVars, registry

(* Whatever is configured: only configured pools are in the registry, only *)
(* pools of the registry have a state, only started engines evaluate, and  *)
(* a wallet is watched only where an engine runs on its chain.             *)
THEOREM EvaluatorTypes == Spec => []TypeOK
  <1>1. ASSUME Init PROVE Types
    <2>1. /\ byAddr = Empty /\ byPair = Empty /\ cfg \in Config /\ pc = "load" /\ at = 1
          /\ engines = {} /\ trackers = {} /\ live = {} /\ busy = {} /\ panicked = FALSE
          /\ wg = [e \in Entry |-> {}]
      BY <1>1 DEF Init, StartupInit
    <2>2. Keyed /\ Kept /\ All = {}
      BY <2>1 DEF Keyed, Kept, All, Empty
    <2>3. wg \in [Entry -> SUBSET Enabled]
      BY <2>1
    <2>4. /\ All \subseteq ToSet(cfg.pools) /\ live \subseteq All /\ busy \subseteq engines
          /\ engines \subseteq DOMAIN cfg.chains
          /\ trackers \subseteq {e \in engines : ChainOf(e) = Arbitrum}
      BY <2>1, <2>2
    <2>5. at \in Nat \ {0}
      BY <2>1
    <2>6. panicked \in BOOLEAN
      BY <2>1, Zenon
    <2>7. TypeOK
      BY <2>1, <2>3, <2>4, <2>5, <2>6 DEF TypeOK
    <2> QED
      BY <2>2, <2>7 DEF Types
  <1>2. Types /\ [Next]_vars => Types'
    <2> SUFFICES ASSUME Types, [Next]_vars PROVE Types'
      OBVIOUS
    <2>1. CASE UNCHANGED vars
      BY <2>1 DEF vars, startupVars, registry, Types, TypeOK, Keyed, Kept, All, ChainOf
    <2> QED
      BY <2>1, MainTypes, EngineTypes DEF Next, Ended
  <1>3. Types => TypeOK
    BY DEF Types
  <1> QED
    BY <1>1, <1>2, <1>3, PTL DEF Spec

-----------------------------------------------------------------------------
(* The registry                                                            *)

(* The entries of known type among the first n, and of these the ones with *)
(* an address that no earlier one has.                                     *)
KnownTo(n) == {i \in 1..n : cfg.pools[i].type \in PoolType}
FirstTo(n) == {i \in KnownTo(n) :
                  \A j \in KnownTo(n) : cfg.pools[j].addr = cfg.pools[i].addr => i <= j}

Indexed(map) == \A k \in DOMAIN map : map[k] \in Seq(PoolConfig)

(* How often each index holds p, by whether the registry has it.           *)
Counted(p) ==
    LET n == IF p \in All THEN 1 ELSE 0
    IN  /\ Times(Listed(byPair, KeyOf(p)), p) = n
        /\ Times(Listed(byChain, p.chain), p) = n
        /\ \A t \in {p.t0, p.t1} :
              Times(Listed(byToken, t), p) = IF p.t0 = p.t1 THEN 2 * n ELSE n

(* The registry when the first n entries have been added.                  *)
Filled(n) ==
    /\ n \in 0..Len(cfg.pools)
    /\ Indexed(byPair) /\ Indexed(byToken) /\ Indexed(byChain)
    /\ DOMAIN byAddr = {cfg.pools[i].addr : i \in KnownTo(n)}
    /\ All = {cfg.pools[i] : i \in FirstTo(n)}
    /\ \A p \in ToSet(cfg.pools) : Counted(p)

(* The entries main has gone through.                                      *)
Added == IF pc = "pools" THEN at - 1 ELSE IF pc \in {"chains", "hung", "running"} THEN Len(cfg.pools) ELSE 0

FilledInv ==
    /\ cfg \in Config
    /\ Kept
    /\ pc \in {"load", "pools", "chains", "hung", "running", "exited"}
    /\ at \in Nat \ {0}
    /\ pc = "load" => at = 1
    /\ Filled(Added)

LEMMA AppendedListed ==
    ASSUME NEW map, NEW key, NEW p, NEW k
    PROVE  Listed(Appended(map, key, p), k) =
               IF k = key THEN Append(Listed(map, key), p) ELSE Listed(map, k)
  BY DEF Listed, Appended

LEMMA AppendedIndexed ==
    ASSUME NEW map, Indexed(map), NEW p \in PoolConfig, NEW key
    PROVE  /\ Indexed(Appended(map, key, p))
           /\ \A k : Listed(map, k) \in Seq(PoolConfig)
  <1>1. \A k : Listed(map, k) \in Seq(PoolConfig)
    BY DEF Indexed, Listed
  <1>2. Append(Listed(map, key), p) \in Seq(PoolConfig)
    BY <1>1
  <1> QED
    BY <1>1, <1>2 DEF Indexed, Appended

(* Appending to a list adds one to the count of what is appended.          *)
LEMMA TimesAppend ==
    ASSUME NEW seq \in Seq(PoolConfig), NEW x \in PoolConfig, NEW p
    PROVE  /\ Times(seq, p) \in Nat
           /\ Times(Append(seq, x), p) = IF x = p THEN Times(seq, p) + 1 ELSE Times(seq, p)
  <1> DEFINE old == {i \in DOMAIN seq : seq[i] = p}
             new == {i \in DOMAIN Append(seq, x) : Append(seq, x)[i] = p}
  <1>1. Len(seq) \in Nat /\ DOMAIN seq = 1..Len(seq)
    OBVIOUS
  <1>2. /\ DOMAIN Append(seq, x) = 1..Len(seq) + 1
        /\ \A i \in 1..Len(seq) : Append(seq, x)[i] = seq[i]
        /\ Append(seq, x)[Len(seq) + 1] = x
    OBVIOUS
  <1>3. IsFiniteSet(old) /\ Cardinality(old) \in Nat
    <2>1. old \subseteq 1..Len(seq)
      BY <1>1
    <2>2. IsFiniteSet(1..Len(seq))
      BY <1>1, FS_Interval
    <2> QED
      BY <2>1, <2>2, FS_Subset, FS_CardinalityType
  <1>4. Len(seq) + 1 \notin old
    BY <1>1
  <1>5. new = IF x = p THEN old \cup {Len(seq) + 1} ELSE old
    <2>1. 1..Len(seq) + 1 = (1..Len(seq)) \cup {Len(seq) + 1}
      BY <1>1
    <2> QED
      BY <1>1, <1>2, <2>1
  <1> HIDE DEF old, new
  <1>6. Cardinality(old \cup {Len(seq) + 1}) = Cardinality(old) + 1
    BY <1>3, <1>4, FS_AddElement
  <1>7. Cardinality(new) = IF x = p THEN Cardinality(old) + 1 ELSE Cardinality(old)
    BY <1>5, <1>6
  <1> QED
    BY <1>3, <1>7 DEF old, new, Times

LEMMA TimesAppended ==
    ASSUME NEW map, Indexed(map), NEW x \in PoolConfig, NEW key, NEW k, NEW p
    PROVE  /\ Times(Listed(map, k), p) \in Nat
           /\ Times(Listed(Appended(map, key, x), k), p) =
                  IF k = key /\ x = p THEN Times(Listed(map, k), p) + 1
                  ELSE Times(Listed(map, k), p)
  <1>1. Listed(map, k) \in Seq(PoolConfig) /\ Listed(map, key) \in Seq(PoolConfig)
    BY AppendedIndexed
  <1>2. Listed(Appended(map, key, x), k) =
            IF k = key THEN Append(Listed(map, key), x) ELSE Listed(map, k)
    BY AppendedListed
  <1>3. /\ Times(Listed(map, k), p) \in Nat
        /\ Times(Append(Listed(map, k), x), p) =
               IF x = p THEN Times(Listed(map, k), p) + 1 ELSE Times(Listed(map, k), p)
    BY <1>1, TimesAppend
  <1>4. CASE k = key
    BY <1>2, <1>3, <1>4
  <1>5. CASE k # key
    BY <1>2, <1>3, <1>5
  <1> QED
    BY <1>4, <1>5

(* A new pool is counted where it belongs, and no other pool's counts      *)
(* change.                                                                 *)
LEMMA AddCounted ==
    ASSUME Indexed(byPair), Indexed(byToken), Indexed(byChain),
           NEW x \in PoolConfig, x \notin All, All' = All \cup {x},
           byPair' = Appended(byPair, KeyOf(x), x),
           byToken' = Appended(Appended(byToken, x.t0, x), x.t1, x),
           byChain' = Appended(byChain, x.chain, x),
           NEW p \in PoolConfig, Counted(p)
    PROVE  Counted(p)'
  <1> DEFINE n == IF p \in All THEN 1 ELSE 0
             m == IF p \in All' THEN 1 ELSE 0
  <1>1. m = IF x = p THEN n + 1 ELSE n
    OBVIOUS
  <1>2. /\ Times(Listed(byPair, KeyOf(p)), p) = n
        /\ Times(Listed(byChain, p.chain), p) = n
        /\ \A t \in {p.t0, p.t1} :
              Times(Listed(byToken, t), p) = IF p.t0 = p.t1 THEN 2 * n ELSE n
    BY DEF Counted
  <1>3. Times(Listed(byPair', KeyOf(p)), p) = m
    BY <1>1, <1>2, TimesAppended
  <1>4. Times(Listed(byChain', p.chain), p) = m
    BY <1>1, <1>2, TimesAppended
  <1>5. ASSUME NEW t \in {p.t0, p.t1}
        PROVE  Times(Listed(byToken', t), p) = IF p.t0 = p.t1 THEN 2 * m ELSE m
    <2> DEFINE once == Appended(byToken, x.t0, x)
    <2>1. Indexed(once)
      BY AppendedIndexed
    <2>2. /\ Times(Listed(byToken, t), p) \in Nat
          /\ Times(Listed(once, t), p) = IF t = x.t0 /\ x = p THEN Times(Listed(byToken, t), p) + 1
                                         ELSE Times(Listed(byToken, t), p)
      BY TimesAppended
    <2> HIDE DEF once
    <2>3. Times(Listed(byToken', t), p) = IF t = x.t1 /\ x = p THEN Times(Listed(once, t), p) + 1
                                          ELSE Times(Listed(once, t), p)
      <3>1. byToken' = Appended(once, x.t1, x)
        BY DEF once
      <3> QED
        BY <2>1, <3>1, TimesAppended
    <2>4. Times(Listed(byToken, t), p) = IF p.t0 = p.t1 THEN 2 * n ELSE n
      BY <1>2
    <2>5. n \in {0, 1} /\ (x = p => n = 0)
      OBVIOUS
    <2> HIDE DEF n, m
    <2>6. CASE x = p
      <3>1. Times(Listed(byToken, t), p) = 0 /\ m = 1
        BY <1>1, <2>4, <2>5, <2>6
      <3> QED
        BY <2>2, <2>3, <2>6, <3>1
    <2>7. CASE x # p
      BY <1>1, <2>2, <2>3, <2>4, <2>7
    <2> QED
      BY <2>6, <2>7
  <1>6. Counted(p)' = /\ Times(Listed(byPair', KeyOf(p)), p) = m
                      /\ Times(Listed(byChain', p.chain), p) = m
                      /\ \A t \in {p.t0, p.t1} :
                            Times(Listed(byToken', t), p) = IF p.t0 = p.t1 THEN 2 * m ELSE m
    BY DEF Counted
  <1> QED
    BY <1>3, <1>4, <1>5, <1>6

LEMMA KnownStep ==
    ASSUME NEW n \in Nat
    PROVE  KnownTo(n + 1) = IF cfg.pools[n + 1].type \in PoolType THEN KnownTo(n) \cup {n + 1}
                            ELSE KnownTo(n)
  <1>1. 1..n + 1 = (1..n) \cup {n + 1}
    OBVIOUS
  <1> QED
    BY <1>1 DEF KnownTo

LEMMA FirstStep ==
    ASSUME NEW n \in Nat
    PROVE  FirstTo(n + 1) =
               IF /\ cfg.pools[n + 1].type \in PoolType
                  /\ \A j \in KnownTo(n) : cfg.pools[j].addr # cfg.pools[n + 1].addr
               THEN FirstTo(n) \cup {n + 1} ELSE FirstTo(n)
  <1> DEFINE addr(i) == cfg.pools[i].addr
  <1>1. \A i \in KnownTo(n) : i \in Nat /\ i < n + 1
    BY DEF KnownTo
  <1>2. n + 1 \notin KnownTo(n)
    BY <1>1
  <1>3. CASE cfg.pools[n + 1].type \notin PoolType
    BY <1>3, KnownStep DEF FirstTo
  <1>4. CASE cfg.pools[n + 1].type \in PoolType
    <2>1. KnownTo(n + 1) = KnownTo(n) \cup {n + 1}
      BY <1>4, KnownStep
    <2>2. \A i \in KnownTo(n) : i \in FirstTo(n + 1) <=> i \in FirstTo(n)
      BY <1>1, <2>1 DEF FirstTo
    <2>3. n + 1 \in FirstTo(n + 1) <=> \A j \in KnownTo(n) : addr(j) # addr(n + 1)
      BY <1>1, <2>1 DEF FirstTo
    <2>4. FirstTo(n + 1) \subseteq KnownTo(n) \cup {n + 1} /\ FirstTo(n) \subseteq KnownTo(n)
      BY <2>1 DEF FirstTo
    <2> HIDE DEF addr
    <2>5. FirstTo(n + 1) = IF \A j \in KnownTo(n) : addr(j) # addr(n + 1)
                           THEN FirstTo(n) \cup {n + 1} ELSE FirstTo(n)
      BY <1>2, <2>2, <2>3, <2>4
    <2> QED
      BY <1>4, <2>5 DEF addr
  <1> QED
    BY <1>3, <1>4

(* One more entry.                                                         *)
LEMMA EntryFills ==
    ASSUME cfg \in Config, Kept, NEW n \in Nat, Filled(n), n + 1 <= Len(cfg.pools), UNCHANGED cfg,
           IF cfg.pools[n + 1].type \in PoolType THEN Add(cfg.pools[n + 1]) ELSE UNCHANGED registry
    PROVE  Kept' /\ Filled(n + 1)'
  <1> DEFINE x == cfg.pools[n + 1]
  <1>1. cfg.pools \in Seq(PoolConfig)
    BY StartupAssumption DEF ConfigType
  <1>2. /\ x \in PoolConfig /\ n + 1 \in 0..Len(cfg.pools)
        /\ \A p \in ToSet(cfg.pools) : p \in PoolConfig
    BY <1>1 DEF ToSet
  <1>3. KnownTo(n + 1)' = KnownTo(n + 1) /\ FirstTo(n + 1)' = FirstTo(n + 1)
    BY DEF KnownTo, FirstTo
  <1>4. /\ Indexed(byPair) /\ Indexed(byToken) /\ Indexed(byChain)
        /\ DOMAIN byAddr = {cfg.pools[i].addr : i \in KnownTo(n)}
        /\ All = {cfg.pools[i] : i \in FirstTo(n)}
        /\ \A p \in ToSet(cfg.pools) : Counted(p)
    BY DEF Filled
  <1>5. CASE UNCHANGED registry /\ (x.type \in PoolType => x.addr \in DOMAIN byAddr)
    <2>1. Kept' /\ UNCHANGED <<byAddr, byPair, byToken, byChain, All>>
      BY <1>5 DEF Kept, registry, All
    <2>2. FirstTo(n + 1) = FirstTo(n)
      <3>1. x.type \in PoolType => \E j \in KnownTo(n) : cfg.pools[j].addr = x.addr
        BY <1>4, <1>5
      <3> QED
        BY <3>1, FirstStep
    <2>3. {cfg.pools[i].addr : i \in KnownTo(n + 1)} = {cfg.pools[i].addr : i \in KnownTo(n)}
      <3>1. CASE x.type \notin PoolType
        BY <3>1, KnownStep
      <3>2. CASE x.type \in PoolType
        <4>1. KnownTo(n + 1) = KnownTo(n) \cup {n + 1}
          BY <3>2, KnownStep
        <4>2. x.addr \in {cfg.pools[i].addr : i \in KnownTo(n)}
          BY <1>4, <1>5, <3>2
        <4> QED
          BY <4>1, <4>2
      <3> QED
        BY <3>1, <3>2
    <2>4. \A p \in ToSet(cfg.pools) : Counted(p)'
      BY <1>4, <2>1 DEF Counted
    <2>5. DOMAIN byAddr' = {cfg.pools[i].addr : i \in KnownTo(n + 1)}
      BY <1>4, <2>1, <2>3
    <2>6. All' = {cfg.pools[i] : i \in FirstTo(n + 1)}
      BY <1>4, <2>1, <2>2
    <2>7. \A p \in ToSet(cfg.pools)' : Counted(p)'
      BY <2>4
    <2>8. Indexed(byPair') /\ Indexed(byToken') /\ Indexed(byChain')
      BY <1>4, <2>1
    <2>9. Kept'
      BY <2>1
    <2> QED
      BY <1>2, <1>3, <2>5, <2>6, <2>7, <2>8, <2>9 DEF Filled
  <1>6. CASE x.type \in PoolType /\ x.addr \notin DOMAIN byAddr /\ Add(x)
    <2>1. /\ byPair'  = Appended(byPair, KeyOf(x), x)
          /\ byToken' = Appended(Appended(byToken, x.t0, x), x.t1, x)
          /\ byChain' = Appended(byChain, x.chain, x)
      BY <1>6 DEF Add
    <2>2. /\ Kept' /\ All' = All \cup {x}
          /\ DOMAIN byAddr' = DOMAIN byAddr \cup {x.addr}
      BY <1>6, AddAll
    <2>3. Indexed(byPair') /\ Indexed(byToken') /\ Indexed(byChain')
      <3>1. Indexed(Appended(byToken, x.t0, x))
        BY <1>2, <1>4, AppendedIndexed
      <3> QED
        BY <1>2, <1>4, <2>1, <3>1, AppendedIndexed
    <2>4. x \notin All
      BY <1>6 DEF Kept, All
    <2>5. ASSUME NEW p \in ToSet(cfg.pools) PROVE Counted(p)'
      <3>1. p \in PoolConfig /\ Counted(p)
        BY <1>2, <1>4
      <3> HIDE DEF x
      <3> QED
        BY <1>2, <1>4, <2>1, <2>2, <2>4, <3>1, AddCounted
    <2>6. KnownTo(n + 1) = KnownTo(n) \cup {n + 1}
      BY <1>6, KnownStep
    <2>7. FirstTo(n + 1) = FirstTo(n) \cup {n + 1}
      <3>1. \A j \in KnownTo(n) : cfg.pools[j].addr # x.addr
        BY <1>4, <1>6
      <3> QED
        BY <1>6, <3>1, FirstStep
    <2>8. DOMAIN byAddr' = {cfg.pools[i].addr : i \in KnownTo(n + 1)}
      BY <1>4, <2>2, <2>6
    <2>9. All' = {cfg.pools[i] : i \in FirstTo(n + 1)}
      BY <1>4, <2>2, <2>7
    <2>10. \A p \in ToSet(cfg.pools)' : Counted(p)'
      BY <2>5
    <2> QED
      BY <1>2, <1>3, <2>2, <2>3, <2>8, <2>9, <2>10 DEF Filled
  <1> QED
    BY <1>5, <1>6 DEF Add

LEMMA SameFilled ==
    ASSUME FilledInv, UNCHANGED <<cfg, registry>>, pc' \in {"load", "pools", "chains", "hung", "running", "exited"},
           at' \in Nat \ {0}, pc' = "load" => at' = 1, Added' = Added
    PROVE  FilledInv'
  <1>1. /\ UNCHANGED <<cfg, byAddr, byPair, byToken, byChain, All>> /\ Kept'
    BY DEF FilledInv, Kept, registry, All
  <1>2. PICK n : n = Added
    OBVIOUS
  <1>3. Filled(n)'
    BY <1>1, <1>2 DEF FilledInv, Filled, Counted, KnownTo, FirstTo
  <1>4. Filled(Added)'
    BY <1>2, <1>3
  <1> QED
    BY <1>1, <1>4 DEF FilledInv

LEMMA MainFills ==
    ASSUME FilledInv, Main
    PROVE  FilledInv'
  <1>1. /\ cfg \in Config /\ at \in Nat \ {0} /\ Kept
        /\ pc \in {"load", "pools", "chains", "hung", "running", "exited"} /\ (pc = "load" => at = 1)
        /\ Filled(Added)
    BY DEF FilledInv
  <1>2. cfg.pools \in Seq(PoolConfig) /\ Len(cfg.pools) \in Nat
    BY <1>1, StartupAssumption DEF ConfigType
  <1>3. CASE FromConfig
    <2>1. /\ pc = "pools" /\ at <= Len(cfg.pools) /\ at' = at + 1 /\ UNCHANGED <<cfg, pc>>
          /\ IF cfg.pools[at].type \in PoolType THEN Add(cfg.pools[at]) ELSE UNCHANGED registry
      BY <1>3 DEF FromConfig
    <2>2. PICK n \in Nat : at = n + 1
      <3>1. at - 1 \in Nat /\ at = (at - 1) + 1
        BY <1>1
      <3> QED
        BY <3>1
    <2>3. Added = n /\ Added' = n + 1
      BY <2>1, <2>2 DEF Added
    <2>4. Kept' /\ Filled(n + 1)'
      BY <1>1, <2>1, <2>2, <2>3, EntryFills
    <2>5. Filled(Added)'
      BY <2>3, <2>4
    <2> QED
      BY <1>1, <2>1, <2>4, <2>5 DEF FilledInv
  <1>4. CASE RegistryFilled
    <2>1. /\ pc = "pools" /\ at > Len(cfg.pools) /\ pc' = "chains" /\ at' = 1
          /\ UNCHANGED <<cfg, registry>>
      BY <1>4 DEF RegistryFilled
    <2>2. at - 1 <= Len(cfg.pools)
      BY <1>1, <1>2, <2>1 DEF Added, Filled
    <2>3. Added' = Added
      BY <1>1, <1>2, <2>1, <2>2 DEF Added
    <2> QED
      BY <2>1, <2>3, SameFilled
  <1>5. CASE Load
    <2>1. /\ pc = "load" /\ at = 1 /\ pc' \in {"pools", "exited"}
          /\ UNCHANGED <<cfg, at, registry>>
      BY <1>1, <1>5 DEF Load
    <2>2. Added' = Added
      BY <2>1 DEF Added
    <2> QED
      BY <2>1, <2>2, SameFilled
  <1>6. CASE ChainFails \/ ChainHangs \/ StartEngine \/ ChainsTried
    <2>1. /\ pc = "chains" /\ pc' \in {"chains", "hung", "running"} /\ at' \in Nat \ {0}
          /\ UNCHANGED <<cfg, registry>>
      BY <1>1, <1>6 DEF ChainFails, ChainHangs, StartEngine, ChainsTried, Connecting
    <2>2. Added' = Added
      BY <2>1 DEF Added
    <2> QED
      BY <2>1, <2>2, SameFilled
  <1> QED
    BY <1>3, <1>4, <1>5, <1>6 DEF Main

(* For any configuration: once main has gone through the pools, each of a  *)
(* known type is in the registry unless an earlier one has its address,    *)
(* and the indexes hold exactly the pools of the registry, each as often   *)
(* as it belongs there.                                                    *)
THEOREM RegistryIsWhole == Spec => []RegistryWhole
  <1>1. ASSUME Init PROVE FilledInv
    <2>1. /\ byAddr = Empty /\ byPair = Empty /\ byToken = Empty /\ byChain = Empty
          /\ cfg \in Config /\ pc = "load" /\ at = 1
      BY <1>1 DEF Init, StartupInit
    <2>2. Kept /\ All = {} /\ DOMAIN byAddr = {} /\ Added = 0
      BY <2>1 DEF Kept, All, Empty, Added
    <2>3. Indexed(byPair) /\ Indexed(byToken) /\ Indexed(byChain)
      BY <2>1 DEF Indexed, Empty
    <2>4. KnownTo(0) = {} /\ FirstTo(0) = {}
      BY DEF KnownTo, FirstTo
    <2>5. ASSUME NEW p PROVE Counted(p)
      <3>1. \A k : Listed(Empty, k) = << >>
        BY DEF Listed, Empty
      <3>2. Times(<< >>, p) = 0
        <4>1. {i \in DOMAIN << >> : << >>[i] = p} = {}
          OBVIOUS
        <4> QED
          BY <4>1, FS_EmptySet DEF Times
      <3> QED
        BY <2>1, <2>2, <3>1, <3>2 DEF Counted
    <2>6. 0 \in 0..Len(cfg.pools)
      <3>1. cfg.pools \in Seq(PoolConfig)
        BY <2>1, StartupAssumption DEF ConfigType
      <3> QED
        BY <3>1
    <2>7. Filled(0)
      BY <2>2, <2>3, <2>4, <2>5, <2>6 DEF Filled
    <2> QED
      BY <2>1, <2>2, <2>7 DEF FilledInv
  <1>2. FilledInv /\ [Next]_vars => FilledInv'
    <2> SUFFICES ASSUME FilledInv, [Next]_vars PROVE FilledInv'
      OBVIOUS
    <2>1. CASE MainStep
      BY <2>1, MainFills DEF MainStep
    <2>2. CASE UNCHANGED startupVars
      <3>1. Added' = Added /\ UNCHANGED <<cfg, pc, at, registry>>
        BY <2>2 DEF Added, startupVars, registry
      <3> QED
        BY <3>1, SameFilled DEF FilledInv
    <2> QED
      BY <2>1, <2>2 DEF Next, Ended, vars, Engine, Refresh, Evaluate, CrossDex, Triangular,
                        CurveStable, Liquidation, EvaluateReturns
  <1>3. ASSUME FilledInv PROVE RegistryWhole
    <2> SUFFICES ASSUME pc \in {"chains", "hung", "running"} PROVE RegistryWhole
      BY DEF RegistryWhole
    <2>1. cfg.pools \in Seq(PoolConfig) /\ DOMAIN cfg.pools = 1..Len(cfg.pools)
      BY <1>3, StartupAssumption DEF FilledInv, ConfigType
    <2>2. Filled(Len(cfg.pools))
      BY <1>3 DEF FilledInv, Added
    <2> DEFINE known == {i \in DOMAIN cfg.pools : cfg.pools[i].type \in PoolType}
               first == {i \in known : \A j \in known : cfg.pools[j].addr = cfg.pools[i].addr => i <= j}
    <2>3. known = KnownTo(Len(cfg.pools))
      BY <2>1 DEF KnownTo
    <2>4. first = FirstTo(Len(cfg.pools))
      BY <2>3 DEF FirstTo
    <2>5. All = {cfg.pools[i] : i \in first}
      BY <2>2, <2>4 DEF Filled
    <2>6. ASSUME NEW p \in {cfg.pools[i] : i \in known}
          PROVE  LET n == IF p \in All THEN 1 ELSE 0
                 IN  /\ Times(GetByPair(p.t1, p.t0, p.chain), p) = n
                     /\ Times(GetByChain(p.chain), p) = n
                     /\ \A t \in {p.t0, p.t1} :
                           Times(Listed(byToken, t), p) = IF p.t0 = p.t1 THEN 2 * n ELSE n
      <3>1. p \in ToSet(cfg.pools)
        BY DEF ToSet
      <3>2. Counted(p)
        BY <2>2, <3>1 DEF Filled
      <3>3. {p.t1, p.t0} = {p.t0, p.t1}
        OBVIOUS
      <3>4. GetByPair(p.t1, p.t0, p.chain) = Listed(byPair, KeyOf(p))
        BY <3>3 DEF GetByPair, KeyOf, PairKey
      <3> QED
        BY <3>2, <3>4 DEF Counted, GetByChain
    <2> HIDE DEF known, first
    <2>7. \A p \in {cfg.pools[i] : i \in known} :
             LET n == IF p \in All THEN 1 ELSE 0
             IN  /\ Times(GetByPair(p.t1, p.t0, p.chain), p) = n
                 /\ Times(GetByChain(p.chain), p) = n
                 /\ \A t \in {p.t0, p.t1} :
                       Times(Listed(byToken, t), p) = IF p.t0 = p.t1 THEN 2 * n ELSE n
      BY <2>6
    <2> QED
      BY <2>5, <2>7 DEF RegistryWhole, known, first
  <1> QED
    BY <1>1, <1>2, <1>3, PTL DEF Spec
=============================================================================
