------------------------------ MODULE MCEngine ------------------------------
(* Two engines over three pools: an Arbitrum engine with a V3 and a V2     *)
(* pool, and a second engine with one V3 pool that also prices Arbitrum's. *)
EXTENDS Engine

CONSTANTS arb, base,          \* the engines
          univ3, sushi, aero  \* the pools

MCEngineSet == {arb, base}
MCPool      == {univ3, sushi, aero}
MCChainOf   == [e \in MCEngineSet |-> IF e = arb THEN 42161 ELSE 8453]
MCPoolChain == [p \in MCPool |-> IF p = aero THEN 8453 ELSE 42161]
MCPoolType  == [p \in MCPool |-> IF p = sushi THEN "v2" ELSE "v3"]
MCNoFlaky   == {}
MCFlaky     == {univ3}
MCFlakyBase == {aero}

(* The shipped configuration: every pool is on Arbitrum, and one of the    *)
(* two is V2.                                                              *)
MCPoolsArb     == {univ3, sushi}
MCPoolChainArb == [p \in MCPoolsArb |-> 42161]
MCPoolTypeArb  == [p \in MCPoolsArb |-> IF p = sushi THEN "v2" ELSE "v3"]
=============================================================================
