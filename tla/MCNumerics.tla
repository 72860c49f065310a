----------------------------- MODULE MCNumerics -----------------------------
(* Reserves of four sizes on both sides of two pools, Curve balances from *)
(* balanced to one coin almost gone, and V3 prices around one.             *)
EXTENDS Numerics

MCReserve == {7, 20, 60, 200}
MCFee     == {0, 3, 30}

MCLeg   == [rin : MCReserve, rout : MCReserve, fee : MCFee]
MCThird == {[rin |-> 20, rout |-> 60, fee |-> 0], [rin |-> 200, rout |-> 60, fee |-> 3]}

MCJob ==
    [kind : {"search", "optimal"}, legs : {<<a, b>> : a, b \in MCLeg}]
    \cup [kind : {"search"}, legs : {<<a, c, b>> : a, b \in {l \in MCLeg : l.fee = 3}, c \in MCThird}]
    \cup [kind : {"curve"}, x : {0, 1, 2, 7, 33, 70, 100}, y : {1, 2, 7, 33, 70, 100}, amp : {1, 2, 5, 20},
          dx : {1, 10, 100}, fee : {0, 4}]
    \cup [kind : {"v3"}, p : {5, 11, 16, 23, 40}, l : {5, 20, 100}, dx : {1, 9, 50}, fee : MCFee,
          zeroForOne : BOOLEAN]
=============================================================================
