----------------------------- MODULE MCEvaluator -----------------------------
(* Chains 1 and 2, on which tokens have the same addresses.  The pools of  *)
(* a configuration include a pair twice, a pair on both chains, an address *)
(* on both chains, an unknown type, a Curve pool with and without another  *)
(* pool of its pair, and one on a cycle that takes pools of both chains.   *)
EXTENDS Evaluator

Pool(a, ty, c, x, y) == [addr |-> a, type |-> ty, chain |-> c, t0 |-> x, t1 |-> y]
Chain(c, r) == [chain |-> c, rpc |-> r]

MCPools == {<< >>,
    <<Pool("sushi", "uniswap_v2", 1, "weth", "usdc"), Pool("v3", "uniswap_v3", 1, "usdc", "weth"),
      Pool("base", "uniswap_v2", 2, "weth", "usdc"), Pool("sushi", "uniswap_v2", 2, "weth", "usdc")>>,
    <<Pool("bal", "other", 1, "usdc", "usdt"), Pool("3crv", "curve", 1, "usdc", "usdt"),
      Pool("v2", "uniswap_v2", 2, "usdc", "usdt"), Pool("v3", "uniswap_v3", 1, "usdc", "usdt")>>,
    <<Pool("3crv", "curve", 1, "usdc", "usdt"), Pool("v2", "uniswap_v2", 2, "usdc", "usdt"),
      Pool("v2", "uniswap_v2", 1, "usdc", "usdt"), Pool("sushi", "uniswap_v2", 1, "weth", "usdc")>>,
    <<Pool("3crv", "curve", 1, "usdc", "usdt"), Pool("base", "uniswap_v2", 2, "weth", "usdc"),
      Pool("v3", "uniswap_v3", 1, "usdt", "weth")>>}

MCChains == {<< >>, <<Chain(0, TRUE)>>, <<Chain(1, FALSE)>>, <<Chain(1, TRUE)>>,
             <<Chain(1, TRUE), Chain(2, TRUE)>>, <<Chain(1, TRUE), Chain(1, TRUE)>>}

MCConfig ==
    [chains : MCChains, pools : MCPools, mode : {"simulate", "other"},
     use_flashbots : {FALSE}, private_key : {"valid"}]
    \cup [chains : {<<Chain(1, TRUE), Chain(2, TRUE)>>}, pools : {<< >>},
          mode : {"execute"}, use_flashbots : BOOLEAN, private_key : {None, "valid", "invalid"}]
=============================================================================
