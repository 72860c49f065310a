------------------------------ MODULE Evaluator ------------------------------
(***************************************************************************)
(* The strategies of the engines that Startup has started, on the registry *)
(* it has filled: Evaluator.Evaluate starts a goroutine per enabled        *)
(* strategy, each takes its pools from the registry and prices them, and   *)
(* Evaluate returns when all have returned.  What a strategy reports is    *)
(* left out: here it ends or it panics.  The search of the triangular one  *)
(* has a module of its own; the rings it finds are defined here.           *)
(*                                                                         *)
(* A Curve pool's state holds one balance and no amplification             *)
(* (DecodeState), and GetDyCurve fails on it with a panic, which ends the  *)
(* process.                                                                *)
(***************************************************************************)
EXTENDS Startup, SequencesExt

CONSTANTS Enabled,   \* the strategies that are enabled
          MaxHops,   \* the most pools of a cycle
          MaxChains  \* the most chains a configuration lists

Strategy == {"cross_dex", "triangular", "curve_stable", "liquidation"}
ASSUME EvaluatorAssumption ==
    /\ Enabled \subseteq Strategy
    /\ MaxHops \in Nat
    /\ \A c \in Config : Len(c.chains) <= MaxChains

VARIABLES
    live,     \* the pools that have a state
    wg,       \* by engine: the strategies whose goroutine has not returned
    busy,     \* the engines in Evaluate
    panicked  \* the process has ended

vars == <<startupVars, live, wg, busy, panicked>>

Entry == 1..MaxChains
ChainOf(e) == cfg.chains[e].chain

Init ==
    /\ StartupInit
    /\ live = {} /\ busy = {} /\ panicked = FALSE
    /\ wg = [e \in Entry |-> {}]

(* updatePoolStates: some of the calls of this chain's pools succeed.      *)
Refresh(e) ==
    /\ e \in engines \ busy
    /\ \E ok \in SUBSET {p \in All : p.chain = ChainOf(e)} : live' = live \cup ok
    /\ UNCHANGED <<startupVars, wg, busy, panicked>>

Evaluate(e) ==
    /\ e \in engines \ busy
    /\ busy' = busy \cup {e}
    /\ wg' = [wg EXCEPT ![e] = Enabled]
    /\ UNCHANGED <<startupVars, live, panicked>>

-----------------------------------------------------------------------------
(* A goroutine returns, with results, without, or with an error: its       *)
(* deferred Done runs.                                                     *)
Done(e, s) ==
    /\ wg' = [wg EXCEPT ![e] = @ \ {s}]
    /\ UNCHANGED panicked

Panics == panicked' = TRUE /\ UNCHANGED wg

IsCurve(p) == p.type = "curve"

(* Pricing any of these directions: a Curve pool panics, and both          *)
(* directions of its pair are tried, so that it is bought from.            *)
Prices(e, s, directions) ==
    IF \E d \in directions : IsCurve(d[1]) THEN Panics ELSE Done(e, s)

(* Pools with a state, grouped by pair and chain, each two both ways.      *)
CrossDex(e) ==
    /\ "cross_dex" \in wg[e]
    /\ Prices(e, "cross_dex",
              {d \in live \X live : d[1] # d[2] /\ KeyOf(d[1]) = KeyOf(d[2])})
    /\ UNCHANGED <<startupVars, live, busy>>

(* Mutant: without a Curve pool the goroutine does not report its end.     *)
CurveStableNotDone(e) ==
    /\ "curve_stable" \in wg[e] /\ \E p \in live : IsCurve(p)
    /\ Prices(e, "curve_stable", {})
    /\ UNCHANGED <<startupVars, live, busy>>

(* Curve pools with a state, both ways with each V2 pool of the pair.      *)
CurveStable(e) ==
    /\ "curve_stable" \in wg[e]
    /\ LET v2(p) == {q \in ToSet(GetByPair(p.t0, p.t1, p.chain)) \cap live :
                          q.type = "uniswap_v2"}
       IN  Prices(e, "curve_stable",
                  UNION {({p} \X v2(p)) \cup (v2(p) \X {p}) : p \in {c \in live : IsCurve(c)}})
    /\ UNCHANGED <<startupVars, live, busy>>

(* The other token of a pool.                                              *)
Out(p, token) == IF token = p.t0 THEN p.t1 ELSE p.t0

(* A path that comes back to its first token at its end and not before;    *)
(* the search looks for a pool twice in all of it but the last step.       *)
Closes(path, start) ==
    LET n == Len(path)
        token[i \in 0..n] == IF i = 0 THEN start ELSE Out(path[i], token[i - 1])
    IN  /\ \A i \in 1..n : token[i - 1] \in {path[i].t0, path[i].t1}
        /\ {i \in 1..n : token[i] = start} = {n}
        /\ \A i, j \in 1..n - 1 : path[i] = path[j] => i = j

(* The graph joins tokens by their addresses, whatever the chains.         *)
Cycles ==
    {path \in UNION {[1..n -> live] : n \in 3..MaxHops} :
        \E start \in {path[1].t0, path[1].t1} : Closes(path, start)}

(* Which pool of a cycle is priced first depends on the order of a map,    *)
(* and the legs behind one that gives nothing are not priced: a cycle      *)
(* panics surely only when all its pools are Curve pools.                  *)
Triangular(e) ==
    /\ "triangular" \in wg[e]
    /\ LET cycles == {ToSet(c) : c \in Cycles}
       IN  \/ (\E c \in cycles : \E p \in c : IsCurve(p)) /\ Panics
           \/ (\A c \in cycles : \E p \in c : ~IsCurve(p)) /\ Done(e, "triangular")
    /\ UNCHANGED <<startupVars, live, busy>>

(* main gives it no monitor, and it returns at once.                       *)
Liquidation(e) ==
    /\ "liquidation" \in wg[e]
    /\ Done(e, "liquidation")
    /\ UNCHANGED <<startupVars, live, busy>>

(* wg.Wait returns.                                                        *)
EvaluateReturns(e) ==
    /\ e \in busy /\ wg[e] = {}
    /\ busy' = busy \ {e}
    /\ UNCHANGED <<startupVars, live, wg, panicked>>

-----------------------------------------------------------------------------
Engine(e) == \/ Refresh(e) \/ Evaluate(e) \/ EvaluateReturns(e)
             \/ CrossDex(e) \/ Triangular(e) \/ CurveStable(e) \/ Liquidation(e)

MainStep == Main /\ UNCHANGED <<live, wg, busy, panicked>>

(* A process that has exited or panicked stays so; one without an engine   *)
(* waits for its shutdown.                                                 *)
Ended == /\ pc = "exited" \/ panicked \/ (pc \in {"hung", "running"} /\ engines = {})
         /\ UNCHANGED vars

Next == \/ ~panicked /\ (MainStep \/ \E e \in Entry : Engine(e))
        \/ Ended

(* The goroutines go on: none makes a call to a node.  main may wait for   *)
(* one, and a block may come or not.                                       *)
Spec == /\ Init /\ [][Next]_vars
        /\ \A e \in Entry : /\ WF_vars(~panicked /\ CrossDex(e))
                            /\ WF_vars(~panicked /\ Triangular(e))
                            /\ WF_vars(~panicked /\ CurveStable(e))
                            /\ WF_vars(~panicked /\ Liquidation(e))
                            /\ WF_vars(~panicked /\ EvaluateReturns(e))

-----------------------------------------------------------------------------
(* Type correctness: only pools of the registry have a state, only started *)
(* engines evaluate, and a wallet is watched only where an engine runs.    *)
TypeOK ==
    /\ cfg \in Config
    /\ pc \in {"load", "pools", "chains", "hung", "running", "exited"}
    /\ at \in Nat \ {0}
    /\ All \subseteq ToSet(cfg.pools)
    /\ engines \subseteq DOMAIN cfg.chains
    /\ trackers \subseteq {e \in engines : ChainOf(e) = Arbitrum}
    /\ live \subseteq All
    /\ busy \subseteq engines
    /\ wg \in [Entry -> SUBSET Enabled]
    /\ panicked \in BOOLEAN

(* The process panics in a strategy only on a Curve pool that has a state: *)
(* another pool of its chain and pair has one, too, or it lies on a cycle  *)
(* of such pools, of whatever chains (pool/curve.go:61).                   *)
PanicOnlyOnCurve ==
    panicked => \E p \in live :
        /\ IsCurve(p)
        /\ \/ \E q \in live \ {p} : q.chain = p.chain /\ {q.t0, q.t1} = {p.t0, p.t1}
           \/ \E c \in Cycles : p \in ToSet(c)

(* Evaluate returns to its engine although its strategies run in           *)
(* goroutines of their own: each reports its end, with or without results  *)
(* (evaluator.go:35), also when main never gets to the later chains.       *)
EvaluateEnds == \A e \in Entry : e \in busy ~> (e \notin busy \/ panicked)
=============================================================================
