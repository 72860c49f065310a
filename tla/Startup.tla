------------------------------- MODULE Startup -------------------------------
(***************************************************************************)
(* From a configuration to running engines: Load with validate, the pool   *)
(* registry that main fills with FromConfig and Add, and the chains that   *)
(* main connects one after the other, leaving out those that fail and      *)
(* waiting for one that does not answer, while the engines already started *)
(* evaluate blocks (module Evaluator).                                     *)
(***************************************************************************)
EXTENDS Integers, Sequences, FiniteSets

CONSTANTS Config,    \* configurations: records of ConfigType
          Arbitrum,  \* the chain whose wallet is watched (42161)
          None

PoolType   == {"uniswap_v2", "uniswap_v3", "curve"}
PoolConfig == [addr : STRING, type : PoolType \cup {"other"}, chain : Nat,
               t0 : STRING, t1 : STRING]
(* rpc: whether rpc_http or rpc_ws is set.                                 *)
ChainConfig == [chain : Nat, rpc : BOOLEAN]
ConfigType  == [chains : Seq(ChainConfig), pools : Seq(PoolConfig),
                mode : {"simulate", "execute", "other"}, use_flashbots : BOOLEAN,
                private_key : {None, "valid", "invalid"}]

ASSUME StartupAssumption == Config \subseteq ConfigType /\ Arbitrum \in Nat \ {0}

VARIABLES
    cfg,       \* the configuration
    pc,        \* where main is; "exited" after a configuration it refuses,
               \* "hung" in a call that is not answered
    at,        \* the next entry of the list it goes through
    byAddr, byPair, byToken, byChain,   \* the registry
    engines,   \* the entries of cfg.chains whose engine has started
    trackers   \* of these, the ones with a balance tracker

registry    == <<byAddr, byPair, byToken, byChain>>
startupVars == <<cfg, pc, at, byAddr, byPair, byToken, byChain, engines, trackers>>

(* What a Go map answers for a key it does not have: no pools.             *)
Listed(map, key) == IF key \in DOMAIN map THEN map[key] ELSE << >>
Appended(map, key, p) ==
    [k \in DOMAIN map \cup {key} |-> IF k = key THEN Append(Listed(map, k), p) ELSE map[k]]

Empty == [k \in {} |-> << >>]

StartupInit ==
    /\ cfg \in Config
    /\ pc = "load" /\ at = 1
    /\ byAddr = Empty /\ byPair = Empty /\ byToken = Empty /\ byChain = Empty
    /\ engines = {} /\ trackers = {}

-----------------------------------------------------------------------------
Valid ==
    /\ cfg.chains # << >>
    /\ \A i \in DOMAIN cfg.chains : cfg.chains[i].chain # 0 /\ cfg.chains[i].rpc
    /\ cfg.mode \in {"simulate", "execute"}

Load ==
    /\ pc = "load"
    /\ pc' = IF Valid THEN "pools" ELSE "exited"
    /\ UNCHANGED <<cfg, at, registry, engines, trackers>>

(* Mutant: a pair is the same on every chain.                              *)
PairKeyAnyChain(t0, t1, chain) == <<{t0, t1}, 0>>

(* The two tokens in either order, and the chain.                          *)
PairKey(t0, t1, chain) == <<{t0, t1}, chain>>

KeyOf(p) == PairKey(p.t0, p.t1, p.chain)

(* Mutant: a later entry replaces an earlier one with its address.         *)
AddReplaces(p) ==
    /\ byAddr'  = [a \in DOMAIN byAddr \cup {p.addr} |-> IF a = p.addr THEN p ELSE byAddr[a]]
    /\ byPair'  = Appended(byPair, KeyOf(p), p)
    /\ byToken' = Appended(Appended(byToken, p.t0, p), p.t1, p)
    /\ byChain' = Appended(byChain, p.chain, p)

(* An address that is already there is left as it is.                      *)
Add(p) ==
    IF p.addr \in DOMAIN byAddr THEN UNCHANGED registry
    ELSE /\ byAddr'  = [a \in DOMAIN byAddr \cup {p.addr} |->
                           IF a = p.addr THEN p ELSE byAddr[a]]
         /\ byPair'  = Appended(byPair, KeyOf(p), p)
         /\ byToken' = Appended(Appended(byToken, p.t0, p), p.t1, p)
         /\ byChain' = Appended(byChain, p.chain, p)

(* A pool of unknown type is logged and left out.                          *)
FromConfig ==
    /\ pc = "pools" /\ at <= Len(cfg.pools)
    /\ IF cfg.pools[at].type \in PoolType THEN Add(cfg.pools[at]) ELSE UNCHANGED registry
    /\ at' = at + 1
    /\ UNCHANGED <<cfg, pc, engines, trackers>>

RegistryFilled ==
    /\ pc = "pools" /\ at > Len(cfg.pools)
    /\ pc' = "chains" /\ at' = 1
    /\ UNCHANGED <<cfg, registry, engines, trackers>>

-----------------------------------------------------------------------------
Connecting == pc = "chains" /\ at <= Len(cfg.chains)

(* NewFlashbotsExecutor needs a key it can parse; a Simulator needs none.  *)
ExecutorBuilt == cfg.use_flashbots /\ cfg.mode = "execute" => cfg.private_key = "valid"

(* Mutant: the wallet of a chain that fails is watched.                    *)
ChainFailsTracked ==
    /\ Connecting
    /\ trackers' = trackers \cup {at}
    /\ at' = at + 1
    /\ UNCHANGED <<cfg, pc, registry, engines>>

(* Dialling or the health check fails, or the executor: the next chain.    *)
ChainFails ==
    /\ Connecting
    /\ at' = at + 1
    /\ UNCHANGED <<cfg, pc, registry, engines, trackers>>

(* A node takes the connection and never answers: neither the dial nor the *)
(* health check has a deadline, and main stays in NewClient until it is    *)
(* shut down, the later chains untried.                                    *)
ChainHangs ==
    /\ Connecting
    /\ pc' = "hung"
    /\ UNCHANGED <<cfg, at, registry, engines, trackers>>

(* The balance tracker ends at once without a key it can parse.  Start     *)
(* never fails: without a subscription it polls.                           *)
StartEngine ==
    /\ Connecting /\ ExecutorBuilt
    /\ engines' = engines \cup {at}
    /\ trackers' = IF cfg.chains[at].chain = Arbitrum /\ cfg.private_key = "valid"
                     THEN trackers \cup {at} ELSE trackers
    /\ at' = at + 1
    /\ UNCHANGED <<cfg, pc, registry>>

ChainsTried ==
    /\ pc = "chains" /\ at > Len(cfg.chains)
    /\ pc' = "running"
    /\ UNCHANGED <<cfg, at, registry, engines, trackers>>

Main == \/ Load \/ FromConfig \/ RegistryFilled
        \/ ChainFails \/ ChainHangs \/ StartEngine \/ ChainsTried

-----------------------------------------------------------------------------
All == {byAddr[a] : a \in DOMAIN byAddr}
GetByPair(t0, t1, chain) == Listed(byPair, PairKey(t0, t1, chain))
GetByChain(chain) == Listed(byChain, chain)

Times(seq, p) == Cardinality({i \in DOMAIN seq : seq[i] = p})

(* Once the registry is filled, each configured pool of a known type is in *)
(* it, unless an earlier one has its address (registry.go:37), and the     *)
(* four indexes hold the same pools: once under its pair and chain, once   *)
(* under its chain, and under each of its tokens.                          *)
RegistryWhole ==
    pc \in {"chains", "hung", "running"} =>
        LET known == {i \in DOMAIN cfg.pools : cfg.pools[i].type \in PoolType}
            first == {i \in known : \A j \in known : cfg.pools[j].addr = cfg.pools[i].addr => i <= j}
        IN  /\ All = {cfg.pools[i] : i \in first}
            /\ \A p \in {cfg.pools[i] : i \in known} :
                  LET n == IF p \in All THEN 1 ELSE 0
                  IN  /\ Times(GetByPair(p.t1, p.t0, p.chain), p) = n
                      /\ Times(GetByChain(p.chain), p) = n
                      /\ \A t \in {p.t0, p.t1} :
                            Times(Listed(byToken, t), p) = IF p.t0 = p.t1 THEN 2 * n ELSE n
=============================================================================
