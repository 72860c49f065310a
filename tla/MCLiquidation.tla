---------------------------- MODULE MCLiquidation ----------------------------
(* Positions that differ in every amount: healthy, unhealthy, and too      *)
(* small to pay.  The updaters run the same code.                          *)
EXTENDS Liquidation

Symmetry == Permutations(Updater)

MCPosition == {[collateral |-> 3000, debt |-> 1000, hf |-> 25],
               [collateral |-> 2000, debt |-> 1800, hf |-> 9],
               [collateral |-> 30, debt |-> 29, hf |-> 8]}
=============================================================================
