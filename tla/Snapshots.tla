------------------------------ MODULE Snapshots ------------------------------
(***************************************************************************)
(* What a strategy may rely on when it prices a pool: the pool is either   *)
(* unavailable or shows the contents of ONE block.  A pool's whole state   *)
(* may be replaced by that of any block (headers are delivered out of      *)
(* order after a reorg or by a lagging node), and only a pool whose state  *)
(* takes two RPC calls to fetch may become unavailable once it was shown.  *)
(***************************************************************************)
EXTENDS Naturals

CONSTANTS Pool,       \* the pools of the registry
          TwoPass,    \* the pools fetched with two multicalls
          MaxBlock    \* the bound on block numbers

VARIABLE shown        \* shown[p]: the block a quote on p is made from; 0: none

Init == shown = [p \in Pool |-> 0]

Publish(p, b) == shown' = [shown EXCEPT ![p] = b]

Withdraw(p) == /\ p \in TwoPass
               /\ shown' = [shown EXCEPT ![p] = 0]

Next == \E p \in Pool : \/ \E b \in 1..MaxBlock : Publish(p, b)
                        \/ Withdraw(p)

Spec == Init /\ [][Next]_shown
==============================================================================
