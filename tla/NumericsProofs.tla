---------------------------- MODULE NumericsProofs ----------------------------
(***************************************************************************)
(* What the formulas promise for reserves, prices, inputs and fees of any  *)
(* size: a V2 pair accepts what the trader asks of it, the quick check of  *)
(* OptimalArbInputV2 gives up nothing, a V3 quote is the exact amount up   *)
(* to its roundings, and the loops stay in their intervals and divide      *)
(* nothing by zero.                                                        *)
(***************************************************************************)
EXTENDS Numerics, WellFoundedInduction, TLAPS

(* The quotient of a division that rounds down.                            *)
LEMMA Quotient ==
    ASSUME NEW a \in Nat, NEW b \in Nat \ {0}
    PROVE  /\ a \div b \in Nat
           /\ b * (a \div b) <= a
           /\ a < b * (a \div b) + b
  OBVIOUS

LEMMA Product == ASSUME NEW a \in Nat, NEW b \in Nat PROVE a * b \in Nat
  OBVIOUS

LEMMA Monotone ==
    ASSUME NEW a \in Nat, NEW b \in Nat, NEW c \in Nat, a <= b
    PROVE  a * c <= b * c
  OBVIOUS

(* A factor is cancelled.                                                  *)
LEMMA Cancel ==
    ASSUME NEW a \in Int, NEW b \in Int, NEW c \in Nat \ {0}, a * c < b * c
    PROVE  a < b
  OBVIOUS

(* A quotient is the greatest number of divisors that fit.                 *)
LEMMA Fits ==
    ASSUME NEW a \in Nat, NEW b \in Nat \ {0}, NEW q \in Nat, b * q <= a
    PROVE  q <= a \div b
  <1>1. a \div b \in Nat /\ a < b * (a \div b) + b
    BY Quotient
  <1> DEFINE m == a \div b
  <1>2. m \in Nat /\ a < b * m + b
    BY <1>1
  <1> HIDE DEF m
  <1>3. b * m + b = (m + 1) * b /\ b * q = q * b
    BY <1>2
  <1>4. q * b < (m + 1) * b
    <2>1. (m + 1) * b \in Int /\ q * b \in Int
      BY <1>2
    <2> QED
      BY <1>2, <1>3, <2>1
  <1>5. q < m + 1
    BY <1>2, <1>4, Cancel
  <1> QED
    BY <1>2, <1>5 DEF m

(* Induction on the natural numbers, for a set of them.                    *)
LEMMA SetInduction ==
    ASSUME NEW T \in SUBSET Nat, 0 \in T, \A n \in T : n + 1 \in T
    PROVE  T = Nat
  <1> DEFINE R == OpToRel(<, Nat)
  <1>1. IsWellFoundedOn(R, Nat)
    BY NatLessThanWellFounded
  <1>2. \A x, z \in Nat : <<x, z>> \in R <=> x < z
    BY DEF OpToRel
  <1> HIDE DEF R
  <1> SUFFICES ASSUME Nat \ T # {} PROVE FALSE
    OBVIOUS
  <1>3. PICK x \in Nat \ T : \A z \in Nat \ T : ~(<<z, x>> \in R)
    BY <1>1, WFMin
  <1>4. x - 1 \in Nat /\ x - 1 < x /\ x = (x - 1) + 1
    BY <1>3
  <1>5. x - 1 \in T
    BY <1>2, <1>3, <1>4
  <1> QED
    BY <1>3, <1>4, <1>5

StepByStep(g, n, base, step) ==
    g[0] = base /\ \A i \in 1..n : g[i] = step[<<g[i - 1], i>>]

(* A function on 0..n whose values are computed one from the other exists. *)
LEMMA Recursion ==
    ASSUME NEW n \in Nat, NEW S, NEW base \in S, NEW step \in [S \X (1..n) -> S]
    PROVE  \E g \in [0..n -> S] : StepByStep(g, n, base, step)
  <1> DEFINE Def(g, m) == g[0] = base /\ \A i \in 1..m : g[i] = step[<<g[i - 1], i>>]
             T == {m \in Nat : m <= n => \E g \in [0..m -> S] : Def(g, m)}
  <1>1. 0 \in T
    <2>1. [i \in 0..0 |-> base] \in [0..0 -> S] /\ Def([i \in 0..0 |-> base], 0)
      OBVIOUS
    <2> QED
      BY <2>1
  <1>2. ASSUME NEW m \in T PROVE m + 1 \in T
    <2> SUFFICES ASSUME m + 1 <= n PROVE \E g \in [0..m + 1 -> S] : Def(g, m + 1)
      OBVIOUS
    <2>1. m \in Nat /\ m <= n
      OBVIOUS
    <2>2. PICK g \in [0..m -> S] : Def(g, m)
      BY <2>1
    <2> DEFINE next == step[<<g[m], m + 1>>]
               h == [i \in 0..m + 1 |-> IF i = m + 1 THEN next ELSE g[i]]
    <2>3. next \in S
      <3>1. g[m] \in S /\ m + 1 \in 1..n
        BY <2>1
      <3> QED
        BY <3>1
    <2> HIDE DEF next
    <2>4. h \in [0..m + 1 -> S]
      BY <2>1, <2>3
    <2>5. /\ \A i \in 0..m : h[i] = g[i]
          /\ h[m + 1] = next
      BY <2>1
    <2> HIDE DEF h
    <2>6. ASSUME NEW i \in 1..m + 1 PROVE h[i] = step[<<h[i - 1], i>>]
      <3>1. CASE i = m + 1
        <4>1. i - 1 = m /\ h[m] = g[m]
          BY <2>1, <2>5, <3>1
        <4> QED
          BY <2>5, <3>1, <4>1 DEF next
      <3>2. CASE i # m + 1
        <4>1. i \in 1..m /\ i \in 0..m /\ i - 1 \in 0..m
          BY <2>1, <3>2
        <4>2. g[i] = step[<<g[i - 1], i>>]
          BY <2>2, <4>1
        <4> QED
          BY <2>5, <4>1, <4>2
      <3> QED
        BY <3>1, <3>2
    <2>7. h[0] = base
      BY <2>1, <2>2, <2>5
    <2>8. Def(h, m + 1)
      BY <2>6, <2>7
    <2> QED
      BY <2>4, <2>8
  <1>3. T = Nat
    <2> HIDE DEF T
    <2>1. T \subseteq Nat
      BY DEF T
    <2> QED
      BY <1>1, <1>2, <2>1, SetInduction
  <1>4. PICK g \in [0..n -> S] : Def(g, n)
    <2>1. n \in T
      <3> HIDE DEF T
      <3> QED
        BY <1>3
    <2> HIDE DEF Def
    <2> QED
      BY <2>1
  <1>5. StepByStep(g, n, base, step)
    BY <1>4 DEF StepByStep
  <1> QED
    BY <1>5

-----------------------------------------------------------------------------
(* The V2 formulas                                                         *)

(* The input net of the fee, and what it is divided by.                    *)
WithFee(in, fee)    == in * (BPS - fee)
Base(in, rin, fee)  == rin * BPS + WithFee(in, fee)

LEMMA Whole ==
    ASSUME NEW in \in Nat, NEW rin \in Amount, NEW fee \in 0..BPS-1
    PROVE  /\ BPS \in Nat \ {0} /\ BPS - fee \in Nat \ {0}
           /\ WithFee(in, fee) \in Nat
           /\ rin * BPS \in Nat \ {0}
           /\ Base(in, rin, fee) \in Nat \ {0}
  <1>1. BPS \in Nat \ {0} /\ BPS - fee \in Nat \ {0}
    BY AmmAssumption
  <1>2. WithFee(in, fee) \in Nat
    BY <1>1, Product DEF WithFee
  <1>3. rin * BPS \in Nat \ {0}
    BY <1>1 DEF Amount
  <1> QED
    BY <1>1, <1>2, <1>3 DEF Base

(* GetAmountOutV2 is the rounded-down quotient, and less than the reserve. *)
LEMMA AmountOut ==
    ASSUME NEW in \in Nat, NEW rin \in Amount, NEW rout \in Amount, NEW fee \in 0..BPS-1
    PROVE  LET out == GetAmountOutV2(in, rin, rout, fee)
           IN  /\ out \in Nat /\ out < rout
               /\ Base(in, rin, fee) * out <= WithFee(in, fee) * rout
  <1> DEFINE out == GetAmountOutV2(in, rin, rout, fee)
             W   == WithFee(in, fee)
             K   == Base(in, rin, fee)
  <1>1. W \in Nat /\ K \in Nat \ {0} /\ W < K
    BY Whole DEF Base
  <1>2. CASE in = 0
    <2>1. out = 0
      BY <1>2 DEF GetAmountOutV2
    <2> HIDE DEF out
    <2>2. rout \in Nat \ {0}
      BY DEF Amount
    <2>3. K * out = 0 /\ W * rout \in Nat
      BY <2>1, <2>2, <1>1
    <2> QED
      BY <2>1, <2>2, <2>3 DEF out, W, K
  <1>3. CASE in # 0
    <2>1. rout \in Nat /\ rout > 0 /\ rin \in Nat /\ rin > 0
      BY DEF Amount
    <2>2. out = (W * rout) \div K
      BY <1>3, <2>1 DEF GetAmountOutV2, WithFee, Base
    <2> HIDE DEF out, W, K
    <2>3. W * rout \in Nat
      BY <1>1, <2>1, Product
    <2>4. out \in Nat /\ K * out <= W * rout
      BY <1>1, <2>2, <2>3, Quotient
    <2>5. W * rout < K * rout
      BY <1>1, <2>1
    <2>6. out < rout
      <3>1. K * out < K * rout
        BY <2>3, <2>4, <2>5, <2>1, <1>1
      <3> QED
        BY <3>1, <2>4, <2>1, <1>1
    <2> QED
      BY <2>4, <2>6 DEF out, W, K
  <1> QED
    BY <1>2, <1>3

(* What a pair checks, in the terms above.                                 *)
LEMMA Accepts ==
    ASSUME NEW in \in Nat, NEW out \in Nat, NEW rin \in Amount, NEW rout \in Amount,
           NEW fee \in 0..BPS-1, out < rout
    PROVE  PairAccepts(in, out, rin, rout, fee)
             <=> Base(in, rin, fee) * out <= WithFee(in, fee) * rout
  <1> DEFINE W == WithFee(in, fee)
             R == rin * BPS
  <1>1. W \in Nat /\ R \in Nat /\ rout \in Nat /\ rin \in Nat /\ BPS \in Nat /\ fee \in Int
    <2>1. WithFee(in, fee) \in Nat /\ rin * BPS \in Nat
      BY Whole
    <2>2. BPS \in Nat /\ fee \in Int
      BY AmmAssumption
    <2> QED
      BY <2>1, <2>2 DEF Amount
  <1>2. (rin + in) * BPS - in * fee = R + W
    BY <1>1 DEF WithFee
  <1>3. Base(in, rin, fee) = R + W
    BY DEF Base
  <1>4. rin * rout * BPS = R * rout
    BY <1>1
  <1> HIDE DEF W, R
  <1>5. (R + W) * (rout - out) = R * rout + W * rout - (R + W) * out
    BY <1>1
  <1>6. (R + W) * (rout - out) >= R * rout <=> (R + W) * out <= W * rout
    BY <1>1, <1>5
  <1> QED
    BY <1>2, <1>3, <1>4, <1>6 DEF PairAccepts, W

(* The input asked for an output is rounded up: a pair accepts it.         *)
LEMMA AmountIn ==
    ASSUME NEW out \in Nat, NEW rin \in Amount, NEW rout \in Amount,
           NEW fee \in 0..BPS-1, out < rout
    PROVE  LET in == GetAmountInV2(out, rin, rout, fee)
           IN  in \in Nat /\ Base(in, rin, fee) * out <= WithFee(in, fee) * rout
  <1> DEFINE in == GetAmountInV2(out, rin, rout, fee)
             R  == rin * BPS
             g  == BPS - fee
             left == rout - out
  <1>1. R \in Nat \ {0} /\ g \in Nat \ {0} /\ left \in Nat \ {0} /\ rout \in Nat
    BY Whole DEF Amount
  <1>2. CASE out = 0
    <2>1. in = 0
      BY <1>2 DEF GetAmountInV2
    <2> HIDE DEF in
    <2>2. WithFee(in, fee) = 0
      BY <2>1, <1>1 DEF WithFee
    <2>3. Base(in, rin, fee) * out = 0
      BY <1>1, <1>2, <2>2 DEF Base
    <2> QED
      BY <2>1, <2>2, <2>3, <1>1 DEF in
  <1>3. CASE out # 0
    <2> DEFINE need == rin * out * BPS
               q    == need \div (left * g)
    <2>1. in = q + 1
      BY <1>3, <1>1 DEF GetAmountInV2, Amount
    <2>2. need = R * out /\ need \in Nat
      <3>1. rin \in Nat /\ BPS \in Nat
        BY Whole DEF Amount
      <3> QED
        BY <3>1, <1>1
    <2>3. left * g \in Nat \ {0}
      BY <1>1
    <2>4. q \in Nat /\ need < (left * g) * q + left * g
      <3> HIDE DEF need, left, g
      <3> QED
        BY <2>2, <2>3, Quotient
    <2> HIDE DEF in, need, q, R, g, left
    <2>5. R * out <= left * g * in
      BY <1>1, <2>1, <2>2, <2>4
    <2>6. in \in Nat
      BY <2>1, <2>4
    <2>7. (R + in * g) * out = R * out + in * g * out /\ in * g * rout = left * g * in + in * g * out
      <3>1. rout = left + out
        BY <1>1 DEF left
      <3> QED
        BY <3>1, <1>1, <2>6
    <2>8. (R + in * g) * out <= (in * g) * rout
      <3> DEFINE a == R * out
                 b == left * g * in
                 c == in * g * out
      <3>1. a \in Int /\ b \in Int /\ c \in Int
        BY <1>1, <2>6
      <3> HIDE DEF a, b, c
      <3> QED
        BY <2>5, <2>7, <3>1 DEF a, b, c
    <2> QED
      BY <2>6, <2>8 DEF Base, WithFee, in, R, g
  <1> QED
    BY <1>2, <1>3

(* In every state of the loops the job is one of the configured ones.      *)
LEMMA JobFixed == Spec => [](job \in Job)
  <1>1. Init => job \in Job
    BY DEF Init
  <1>2. job \in Job /\ [Next]_vars => (job \in Job)'
    BY DEF Next, vars, Bisect, Judge, QuickCheck, Ternary, TernaryDone, NewtonD, NewtonY,
           NewtonFails, QuoteV3, Returned
  <1> QED
    BY <1>1, <1>2, PTL DEF Spec

LEMMA SearchLegs ==
    ASSUME NEW j \in Job, j.kind \in {"search", "optimal"}, NEW i \in DOMAIN j.legs
    PROVE  /\ j.legs[i].rin \in Amount /\ j.legs[i].rout \in Amount
           /\ j.legs[i].fee \in 0..BPS-1
  <1>1. j.legs \in Seq(Leg)
    BY NumericsAssumption DEF JobType
  <1>2. j.legs[i] \in Leg
    BY <1>1
  <1> QED
    BY <1>2 DEF Leg

(* For reserves, fees and inputs of any size, a V2 pair accepts what the   *)
(* trader asks of it (GetAmountOutV2), and for any output the input that   *)
(* GetAmountInV2 asks for.                                                 *)
THEOREM AlwaysAccepted == Spec => []PairsAccept
  <1>1. job \in Job => PairsAccept
    <2> SUFFICES ASSUME job \in Job, Done("search"),
                        NEW i \in DOMAIN job.legs, NEW in \in Low..High
                 PROVE  LET leg == job.legs[i]
                            out == GetAmountOutV2(in, leg.rin, leg.rout, leg.fee)
                        IN  /\ PairAccepts(in, out, leg.rin, leg.rout, leg.fee)
                            /\ PairAccepts(GetAmountInV2(out, leg.rin, leg.rout, leg.fee), out,
                                           leg.rin, leg.rout, leg.fee)
      BY DEF PairsAccept
    <2> DEFINE leg == job.legs[i]
               out == GetAmountOutV2(in, leg.rin, leg.rout, leg.fee)
               back == GetAmountInV2(out, leg.rin, leg.rout, leg.fee)
    <2>1. leg.rin \in Amount /\ leg.rout \in Amount /\ leg.fee \in 0..BPS-1
      BY SearchLegs DEF Done
    <2>2. in \in Nat
      BY NumericsAssumption DEF Amount
    <2> HIDE DEF leg
    <2>3. /\ out \in Nat /\ out < leg.rout
          /\ Base(in, leg.rin, leg.fee) * out <= WithFee(in, leg.fee) * leg.rout
      BY <2>1, <2>2, AmountOut
    <2> HIDE DEF out
    <2>4. /\ back \in Nat
          /\ Base(back, leg.rin, leg.fee) * out <= WithFee(back, leg.fee) * leg.rout
      BY <2>1, <2>3, AmountIn
    <2> HIDE DEF back
    <2>5. PairAccepts(in, out, leg.rin, leg.rout, leg.fee)
      BY <2>1, <2>2, <2>3, Accepts
    <2>6. PairAccepts(back, out, leg.rin, leg.rout, leg.fee)
      BY <2>1, <2>3, <2>4, Accepts
    <2> QED
      BY <2>5, <2>6 DEF leg, out, back
  <1> QED
    BY <1>1, JobFixed, PTL

(* What a leg pays is at most the input times the leg's rate.              *)
LEMMA AtMostTheRate ==
    ASSUME NEW in \in Nat, NEW rin \in Amount, NEW rout \in Amount, NEW fee \in 0..BPS-1
    PROVE  LET out == GetAmountOutV2(in, rin, rout, fee)
           IN  out \in Nat /\ (rin * BPS) * out <= in * (rout * (BPS - fee))
  <1> DEFINE out == GetAmountOutV2(in, rin, rout, fee)
             W   == WithFee(in, fee)
             R   == rin * BPS
  <1>1. out \in Nat /\ (R + W) * out <= W * rout
    BY AmountOut DEF Base
  <1>2. R \in Nat /\ W \in Nat /\ rout \in Nat /\ BPS - fee \in Nat
    BY Whole DEF Amount
  <1>3. W * rout = in * (rout * (BPS - fee))
    BY <1>2 DEF WithFee
  <1> HIDE DEF out, W, R
  <1>4. R * out <= W * rout
    BY <1>1, <1>2
  <1> QED
    BY <1>1, <1>3, <1>4 DEF out, R

(* The quick check of OptimalArbInputV2 is exact: where the product of the *)
(* marginal rates is not above one, no input of any size makes a profit.   *)
THEOREM QuickCheckExact ==
    ASSUME NEW j \in Job, j.kind = "optimal", RateTop(j) <= RateBottom(j), NEW in \in Nat
    PROVE  Gain(j, in) <= 0
  <1> DEFINE a   == j.legs[1]
             b   == j.legs[2]
             mid == GetAmountOutV2(in, a.rin, a.rout, a.fee)
             out == GetAmountOutV2(mid, b.rin, b.rout, b.fee)
             R1  == a.rin * BPS
             R2  == b.rin * BPS
             S1  == a.rout * (BPS - a.fee)
             S2  == b.rout * (BPS - b.fee)
  <1>1. 1 \in DOMAIN j.legs /\ 2 \in DOMAIN j.legs
    BY NumericsAssumption DEF JobType
  <1>2. /\ a.rin \in Amount /\ a.rout \in Amount /\ a.fee \in 0..BPS-1
        /\ b.rin \in Amount /\ b.rout \in Amount /\ b.fee \in 0..BPS-1
    BY <1>1, SearchLegs
  <1>3. /\ R1 \in Nat \ {0} /\ R2 \in Nat \ {0} /\ S1 \in Nat /\ S2 \in Nat
        /\ S1 * S2 = RateTop(j) /\ R1 * R2 = RateBottom(j)
    <2> HIDE DEF a, b
    <2>1. BPS \in Nat \ {0} /\ BPS - a.fee \in Nat /\ BPS - b.fee \in Nat
      BY <1>2, AmmAssumption
    <2>2. R1 \in Nat \ {0} /\ R2 \in Nat \ {0} /\ S1 \in Nat /\ S2 \in Nat
      BY <1>2, <2>1 DEF Amount
    <2>3. S1 * S2 = a.rout * (BPS - a.fee) * b.rout * (BPS - b.fee)
      BY <1>2, <2>1 DEF Amount
    <2>4. R1 * R2 = a.rin * b.rin * BPS * BPS
      BY <1>2, <2>1 DEF Amount
    <2> QED
      BY <2>2, <2>3, <2>4 DEF RateTop, RateBottom, a, b
  <1> HIDE DEF a, b
  <1>4. mid \in Nat /\ R1 * mid <= in * S1
    BY <1>2, AtMostTheRate
  <1> HIDE DEF mid
  <1>5. out \in Nat /\ R2 * out <= mid * S2
    BY <1>2, <1>4, AtMostTheRate
  <1> HIDE DEF out
  <1>6. out <= in
    <2> DEFINE R == R1 * R2
               S == S1 * S2
    <2>1. R \in Nat \ {0} /\ S \in Nat /\ S <= R
      BY <1>3
    <2> HIDE DEF R1, R2, S1, S2
    <2>2. R * out = R1 * (R2 * out) /\ R1 * (mid * S2) = (R1 * mid) * S2
          /\ (in * S1) * S2 = in * S
      BY <1>3, <1>4, <1>5
    <2>3. R1 * (R2 * out) <= R1 * (mid * S2)
      BY <1>3, <1>4, <1>5
    <2>4. (R1 * mid) * S2 <= (in * S1) * S2
      BY <1>3, <1>4, Monotone, Product
    <2>5. R * out <= in * S
      BY <1>3, <1>4, <1>5, <2>2, <2>3, <2>4
    <2> HIDE DEF R, S
    <2>6. in * S <= in * R
      BY <2>1
    <2>7. R * out <= R * in
      BY <2>1, <2>5, <2>6, <1>5
    <2> QED
      BY <2>1, <2>7, <1>5
  <1>7. Gain(j, in) = IF mid <= 0 THEN 0 ELSE out - in
    BY DEF Gain, ProfitV2, mid, out, a, b
  <1> QED
    BY <1>4, <1>5, <1>6, <1>7

-----------------------------------------------------------------------------
(* The V3 formula                                                          *)

(* From token 0 to token 1: the new price rounded down leaves the trader a  *)
(* fraction of one unit of it.                                              *)
LEMMA QuoteDown ==
    ASSUME NEW l \in Amount, NEW p \in Amount, NEW net \in Nat, NEW q \in Nat \ {0},
           NEW k, k = l * q + net * p
    PROVE  LET quote == (l * (p - (l * q * p) \div k)) \div q
               down == (l * net * p * p) \div (q * k)
           IN  quote \in down..(down + 1 + l \div q)
  <1>0. l \in Nat \ {0} /\ p \in Nat \ {0}
    BY DEF Amount
  <1>1. k \in Nat \ {0} /\ l * q \in Nat \ {0} /\ net * p \in Nat /\ k >= l * q
    <2>1. l * q \in Nat \ {0} /\ net * p \in Nat
      BY <1>0
    <2> QED
      BY <2>1
  <1> DEFINE lqp  == l * q * p
             newP == lqp \div k
             gone == l * net * p * p
             dn   == gone \div (q * k)
             m    == l \div q
  <1>2. newP \in Nat /\ k * newP <= lqp /\ lqp < k * newP + k
    <2>1. lqp \in Nat
      BY <1>0
    <2> HIDE DEF lqp
    <2> QED
      BY <1>1, <2>1, Quotient
  <1>3. m \in Nat /\ l < q * m + q
    BY <1>0, Quotient
  <1>4. q * k \in Nat \ {0} /\ gone \in Nat
    BY <1>0, <1>1
  <1>5. dn \in Nat /\ (q * k) * dn <= gone /\ gone < (q * k) * dn + q * k
    <2> HIDE DEF gone
    <2> QED
      BY <1>4, Quotient
  <1> DEFINE delta == p - newP
  <1> HIDE DEF newP, m, dn
  <1>6. lqp \in Nat /\ lqp <= k * p
    BY <1>0, <1>1
  <1>7. delta \in Nat
    <2>1. ~(newP >= p + 1)
      <3> SUFFICES ASSUME newP >= p + 1 PROVE FALSE
        OBVIOUS
      <3>1. k * newP >= k * (p + 1)
        BY <1>0, <1>1, <1>2
      <3>2. k * (p + 1) = k * p + k
        BY <1>0, <1>1
      <3> HIDE DEF lqp
      <3>3. k * newP \in Int /\ k * p \in Int
        BY <1>0, <1>1, <1>2
      <3> QED
        BY <1>1, <1>2, <1>6, <3>1, <3>2, <3>3
    <2> QED
      BY <1>0, <1>2, <2>1
  (* How much the price moves, times k.                                    *)
  <1> DEFINE npp == net * p * p
  <1>8. npp \in Nat /\ k * p = lqp + npp /\ gone = l * npp
    BY <1>0
  <1>9. k * delta = k * p - k * newP
    BY <1>0, <1>1, <1>2
  <1> HIDE DEF lqp, delta, npp, gone
  <1>10. npp <= k * delta /\ k * delta < npp + k
    <2>1. k * newP \in Int /\ k * p \in Int
      BY <1>0, <1>1, <1>2
    <2> QED
      BY <1>1, <1>2, <1>6, <1>8, <1>9, <2>1
  <1> DEFINE quote == (l * delta) \div q
  <1>11. l * delta \in Nat /\ quote \in Nat /\ q * quote <= l * delta
         /\ l * delta < q * quote + q
    <2>1. l * delta \in Nat
      BY <1>0, <1>7
    <2> QED
      BY <2>1, Quotient
  <1>12. dn <= quote
    <2>1. l * npp <= l * (k * delta)
      BY <1>0, <1>1, <1>7, <1>8, <1>10
    <2>2. l * (k * delta) = (l * delta) * k /\ (q * k) * dn = (q * dn) * k
      BY <1>0, <1>1, <1>5, <1>7
    <2>3. (q * dn) * k <= (l * delta) * k
      <3> DEFINE a == (q * dn) * k
                 b == (l * delta) * k
      <3>1. a \in Int /\ b \in Int
        BY <1>1, <1>5, <1>11
      <3>2. a <= gone /\ gone <= b
        BY <1>5, <1>8, <2>1, <2>2
      <3> HIDE DEF a, b
      <3>3. a <= b
        BY <1>4, <3>1, <3>2
      <3> QED
        BY <3>3 DEF a, b
    <2>4. q * dn <= l * delta
      <3>1. q * dn \in Int /\ l * delta \in Int
        BY <1>5, <1>11
      <3> DEFINE x == q * dn
                 z == l * delta
      <3>2. x \in Int /\ z \in Int /\ x * k <= z * k
        BY <2>3, <3>1
      <3> HIDE DEF x, z
      <3>3. x <= z
        BY <1>1, <3>2
      <3> QED
        BY <3>3 DEF x, z
    <2> QED
      BY <1>5, <1>11, <2>4, Fits
  <1>13. quote <= dn + 1 + m
    <2> HIDE DEF quote
    <2>1. l * (k * delta) < l * (npp + k)
      BY <1>0, <1>1, <1>7, <1>8, <1>10
    <2>2. /\ l * (k * delta) = (l * delta) * k
          /\ l * (npp + k) = gone + l * k
          /\ (q * k) * dn + q * k + l * k = (q * dn + q + l) * k
      BY <1>0, <1>1, <1>5, <1>7, <1>8
    <2>3. (q * quote) * k <= (l * delta) * k
      BY <1>1, <1>11, Monotone
    <2>4. (q * quote) * k < (q * dn + q + l) * k
      <3> DEFINE a == (q * quote) * k
                 b == (l * delta) * k
                 c == (q * k) * dn + q * k
                 e == l * k
      <3>1. a \in Int /\ b \in Int /\ c \in Int /\ e \in Int
        BY <1>0, <1>1, <1>5, <1>11
      <3>2. a <= b /\ b < gone + e /\ gone < c /\ c + e = (q * dn + q + l) * k
        BY <1>5, <2>1, <2>2, <2>3
      <3> HIDE DEF a, b, c, e
      <3>3. a < c + e
        BY <1>4, <3>1, <3>2
      <3> QED
        BY <3>2, <3>3 DEF a
    <2>5. q * quote < q * dn + q + l
      <3>1. q * quote \in Int /\ q * dn + q + l \in Int
        BY <1>0, <1>5, <1>11
      <3> DEFINE x == q * quote
                 z == q * dn + q + l
      <3>2. x \in Int /\ z \in Int /\ x * k < z * k
        BY <2>4, <3>1
      <3> HIDE DEF x, z
      <3>3. x < z
        BY <1>1, <3>2, Cancel
      <3> QED
        BY <3>3 DEF x, z
    <2>6. q * dn + q + q * m + q = (dn + 2 + m) * q /\ q * quote = quote * q
      BY <1>3, <1>5, <1>11
    <2>7. quote * q < (dn + 2 + m) * q
      <3>1. q * dn \in Int /\ q * m \in Int /\ q * quote \in Int
        BY <1>3, <1>5, <1>11
      <3> QED
        BY <1>0, <1>3, <2>5, <2>6, <3>1
    <2>8. quote < dn + 2 + m
      BY <1>3, <1>5, <1>11, <2>7, Cancel
    <2> QED
      BY <1>3, <1>5, <1>11, <2>8
  <1> QED
    BY <1>3, <1>5, <1>11, <1>12, <1>13 DEF quote, delta, newP, dn, m, lqp, gone

(* From token 1 to token 0: both roundings are to the pool's advantage, and *)
(* the first is worth at most the liquidity over the square of the price.   *)
LEMMA QuoteUp ==
    ASSUME NEW l \in Amount, NEW p \in Amount, NEW net \in Nat, NEW q \in Nat \ {0}
    PROVE  LET delta == (net * q) \div l
               quote == (l * q * delta) \div (p * (p + delta))
               up == (l * q * net * q) \div (p * (p * l + net * q))
           IN  quote \in (up - 1 - (l * q) \div (p * p))..up
  <1>0. l \in Nat \ {0} /\ p \in Nat \ {0}
    BY DEF Amount
  <1> DEFINE n == net * q
             lq == l * q
             delta == n \div l
             s == n - l * delta
  <1>1. n \in Nat /\ lq \in Nat \ {0} /\ l * q * net * q = lq * n
    BY <1>0
  <1> HIDE DEF n, lq
  <1>2. delta \in Nat /\ l * delta <= n /\ n < l * delta + l
    BY <1>0, <1>1, Quotient
  <1> HIDE DEF delta
  <1>3. s \in Nat /\ s < l /\ n = l * delta + s
    <2>1. l * delta \in Int
      BY <1>0, <1>2
    <2> QED
      BY <1>0, <1>1, <1>2, <2>1
  <1> HIDE DEF s
  <1> DEFINE b == p + delta
             c == p * l + n
             quote == (lq * delta) \div (p * b)
             up == (lq * n) \div (p * c)
             m == lq \div (p * p)
  <1>4. /\ b \in Nat \ {0} /\ c \in Nat \ {0} /\ p * b \in Nat \ {0} /\ p * c \in Nat \ {0}
        /\ p * p \in Nat \ {0} /\ lq * delta \in Nat /\ lq * n \in Nat
    <2>1. p * l \in Nat \ {0}
      BY <1>0
    <2>2. b \in Nat \ {0} /\ c \in Nat \ {0}
      BY <1>0, <1>1, <1>2, <2>1
    <2> HIDE DEF b, c
    <2> QED
      BY <1>0, <1>1, <1>2, <2>2
  (* The two fractions differ by what is left of the first division.       *)
  <1>5. (lq * n) * b = (lq * delta) * c + (lq * s) * p
    <2>1. n * b = delta * c + s * p
      <3>1. n * (p + delta) = n * p + n * delta /\ delta * (p * l + n) = delta * p * l + delta * n
            /\ (l * delta + s) * p = l * delta * p + s * p
        BY <1>0, <1>1, <1>2, <1>3
      <3>2. n * p = l * delta * p + s * p
        BY <1>3, <3>1
      <3>3. n * delta = delta * n /\ l * delta * p = delta * p * l
        BY <1>0, <1>1, <1>2
      <3>4. n * p \in Int /\ n * delta \in Int /\ delta * p * l \in Int /\ s * p \in Int
        BY <1>0, <1>1, <1>2, <1>3
      <3> QED
        BY <3>1, <3>2, <3>3, <3>4
    <2> HIDE DEF b, c
    <2>2. lq * (n * b) = (lq * n) * b /\ lq * (delta * c + s * p) = (lq * delta) * c + (lq * s) * p
      BY <1>0, <1>1, <1>2, <1>3, <1>4
    <2> QED
      BY <2>1, <2>2
  <1>6. p * l <= c /\ p <= b
    BY <1>0, <1>1, <1>2
  <1> HIDE DEF b, c
  <1>7. quote \in Nat /\ (p * b) * quote <= lq * delta /\ lq * delta < (p * b) * quote + p * b
    BY <1>4, Quotient
  <1>8. up \in Nat /\ (p * c) * up <= lq * n /\ lq * n < (p * c) * up + p * c
    BY <1>4, Quotient
  <1>9. m \in Nat /\ lq < (p * p) * m + p * p
    BY <1>1, <1>4, Quotient
  <1> HIDE DEF quote, up, m
  <1> DEFINE pbc == p * b * c
             rest == (lq * s) * p
  <1>10. pbc \in Nat \ {0} /\ rest \in Nat
    <2>1. p * b \in Nat \ {0}
      BY <1>4
    <2> QED
      BY <1>0, <1>1, <1>3, <1>4, <2>1
  <1>11. /\ quote * pbc <= (lq * delta) * c
         /\ (lq * delta) * c < (quote + 1) * pbc
         /\ up * pbc <= (lq * n) * b
         /\ (lq * n) * b < (up + 1) * pbc
    <2>1. ((p * b) * quote) * c <= (lq * delta) * c
      BY <1>4, <1>7, Monotone, Product
    <2>2. (lq * delta) * c < ((p * b) * quote + p * b) * c
      BY <1>4, <1>7
    <2>3. ((p * c) * up) * b <= (lq * n) * b
      BY <1>4, <1>8, Monotone, Product
    <2>4. (lq * n) * b < ((p * c) * up + p * c) * b
      BY <1>4, <1>8
    <2>5. /\ ((p * b) * quote) * c = quote * pbc /\ ((p * c) * up) * b = up * pbc
          /\ ((p * b) * quote + p * b) * c = (quote + 1) * pbc
          /\ ((p * c) * up + p * c) * b = (up + 1) * pbc
      BY <1>0, <1>4, <1>7, <1>8
    <2> QED
      BY <2>1, <2>2, <2>3, <2>4, <2>5
  <1>12. quote <= up
    <2>1. quote * pbc < (up + 1) * pbc
      <3> DEFINE x == (lq * delta) * c
                 u == (lq * n) * b
                 v == quote * pbc
                 w == (up + 1) * pbc
      <3>1. x \in Int /\ u \in Int /\ v \in Int /\ w \in Int
        BY <1>4, <1>7, <1>8, <1>10
      <3>2. v <= x /\ u < w /\ u = x + rest
        BY <1>5, <1>11
      <3> HIDE DEF x, u, v, w, rest
      <3>3. v < w
        BY <1>10, <3>1, <3>2
      <3> QED
        BY <3>3 DEF v, w
    <2> HIDE DEF pbc
    <2>2. quote < up + 1
      BY <1>7, <1>8, <1>10, <2>1, Cancel
    <2> QED
      BY <1>7, <1>8, <2>2
  (* What the first rounding leaves is less than (m + 1) of the divisor.   *)
  <1>13. rest < (m + 1) * pbc
    <2>1. lq * s <= lq * l
      BY <1>0, <1>1, <1>3
    <2>2. lq * l < ((p * p) * m + p * p) * l
      BY <1>0, <1>1, <1>4, <1>9
    <2>3. ((p * p) * m + p * p) * l = (m + 1) * (p * (p * l))
      BY <1>0, <1>9
    <2>4. p * (p * l) <= b * c
      <3>1. p * l \in Nat
        BY <1>0
      <3>2. p * (p * l) <= b * (p * l)
        BY <1>0, <1>4, <1>6, <3>1, Monotone
      <3>3. b * (p * l) <= b * c
        <4> DEFINE pl == p * l
        <4>1. pl \in Nat /\ pl <= c
          BY <1>6, <3>1
        <4> HIDE DEF pl
        <4>2. b * pl <= b * c
          BY <1>4, <4>1
        <4> QED
          BY <4>2 DEF pl
      <3>4. p * (p * l) \in Int /\ b * (p * l) \in Int /\ b * c \in Int
        BY <1>0, <1>4, <3>1
      <3> QED
        BY <3>2, <3>3, <3>4
    <2>5. (m + 1) * (p * (p * l)) <= (m + 1) * (b * c)
      <3> DEFINE x == p * (p * l)
                 u == b * c
      <3>1. x \in Nat /\ u \in Nat /\ x <= u
        BY <1>0, <1>4, <2>4
      <3> HIDE DEF x, u
      <3>2. (m + 1) * x <= (m + 1) * u
        BY <1>9, <3>1
      <3> QED
        BY <3>2 DEF x, u
    <2> DEFINE x == lq * s
               u == (m + 1) * (b * c)
    <2>6. x \in Int /\ u \in Int /\ x < u
      <3>1. lq * l \in Int /\ (m + 1) * (p * (p * l)) \in Int /\ x \in Int /\ u \in Int
        BY <1>0, <1>1, <1>3, <1>4, <1>9
      <3> QED
        BY <2>1, <2>2, <2>3, <2>5, <3>1
    <2>7. u * p = (m + 1) * pbc
      BY <1>0, <1>4, <1>9
    <2> HIDE DEF x, u
    <2>8. x * p < u * p
      BY <1>0, <2>6
    <2> QED
      BY <2>7, <2>8 DEF x
  <1>14. up <= quote + 1 + m
    <2>1. up * pbc < (quote + 2 + m) * pbc
      <3> DEFINE x == (lq * delta) * c
                 u == (lq * n) * b
                 v == up * pbc
                 w == (quote + 1) * pbc
                 z == (m + 1) * pbc
      <3>1. x \in Int /\ u \in Int /\ v \in Int /\ w \in Int /\ z \in Int
        BY <1>4, <1>7, <1>8, <1>9, <1>10
      <3>2. v <= u /\ x < w /\ u = x + rest /\ rest < z
        BY <1>5, <1>11, <1>13
      <3>3. w + z = (quote + 2 + m) * pbc
        <4> HIDE DEF pbc
        <4> QED
          BY <1>7, <1>9, <1>10
      <3> HIDE DEF x, u, v, w, z, rest
      <3>4. v < w + z
        BY <1>10, <3>1, <3>2
      <3> QED
        BY <3>3, <3>4 DEF v
    <2> HIDE DEF pbc
    <2>2. up < quote + 2 + m
      BY <1>7, <1>8, <1>9, <1>10, <2>1, Cancel
    <2> QED
      BY <1>7, <1>8, <1>9, <2>2
  <1>15. quote \in (up - 1 - m)..up
    BY <1>7, <1>8, <1>9, <1>12, <1>14
  <1>16. c = p * l + net * q /\ b = p + (net * q) \div l
    BY DEF b, c, delta, n
  <1> QED
    BY <1>1, <1>15, <1>16 DEF quote, up, m, delta, n, lq, b

-----------------------------------------------------------------------------
(* Newton's method                                                         *)

(* Newton's method for D: with a positive balance of both coins the        *)
(* denominator is positive, and so is the next iterate.                    *)
LEMMA NextDPositive ==
    ASSUME NEW dd \in Amount, NEW bx \in Amount, NEW by \in Amount, NEW amp \in Amount
    PROVE  NextD(dd, bx, by, amp) \in Amount
  <1> DEFINE e  == (dd * dd) \div (2 * bx)
             dp == (e * dd) \div (2 * by)
  <1>1. dd \in Nat \ {0} /\ bx \in Nat \ {0} /\ by \in Nat \ {0} /\ amp \in Nat \ {0}
    BY DEF Amount
  <1>2. e \in Nat /\ (dd = 1 => e = 0)
    <2>1. dd * dd \in Nat /\ 2 * bx \in Nat \ {0} /\ 2 * bx >= 2
      BY <1>1
    <2>2. e \in Nat /\ (2 * bx) * e <= dd * dd
      BY <2>1, Quotient
    <2> HIDE DEF e
    <2>3. ASSUME dd = 1, e # 0 PROVE FALSE
      <3>1. (2 * bx) * e >= 2
        BY <1>1, <2>2, <2>3
      <3> QED
        BY <2>2, <2>3, <3>1
    <2> QED
      BY <2>2, <2>3
  <1> HIDE DEF e
  <1>3. dp \in Nat /\ (dd = 1 => dp = 0)
    <2>1. e * dd \in Nat /\ 2 * by \in Nat \ {0}
      BY <1>1, <1>2
    <2>2. dp \in Nat /\ (2 * by) * dp <= e * dd
      BY <2>1, Quotient
    <2> HIDE DEF dp
    <2>3. ASSUME dd = 1, dp # 0 PROVE FALSE
      <3>1. (2 * by) * dp >= 2
        BY <1>1, <2>2, <2>3
      <3> QED
        BY <1>2, <2>2, <2>3, <3>1
    <2> QED
      BY <2>2, <2>3
  <1> DEFINE bottom == (2 * amp - 1) * dd + 3 * dp
             rate   == 2 * amp * (bx + by) + 2 * dp
  <1>4. NextD(dd, bx, by, amp) = (rate * dd) \div bottom
    BY DEF NextD, e
  <1> HIDE DEF dp
  <1>5. bottom \in Nat \ {0} /\ rate \in Nat
    BY <1>1, <1>3
  <1>6. bottom <= rate * dd
    <2>1. 2 * amp * (bx + by) >= 2 * amp
      BY <1>1
    <2>2. rate >= 2 * amp + 2 * dp
      <3>1. 2 * amp * (bx + by) \in Int
        BY <1>1
      <3> QED
        BY <1>1, <1>3, <2>1, <3>1
    <2>3. rate * dd >= (2 * amp + 2 * dp) * dd
      <3> DEFINE z == 2 * amp + 2 * dp
      <3>1. z \in Nat /\ z <= rate
        BY <1>1, <1>3, <2>2
      <3> HIDE DEF z, rate
      <3>2. z * dd <= rate * dd
        BY <1>1, <1>5, <3>1, Monotone
      <3> QED
        BY <3>2 DEF z
    <2>4. (2 * amp + 2 * dp) * dd = (2 * amp - 1) * dd + dd + 2 * dp * dd
      BY <1>1, <1>3
    <2>5. dd + 2 * dp * dd >= 3 * dp
      <3>1. CASE dd = 1
        BY <1>3, <3>1
      <3>2. CASE dd # 1
        <4>1. dp * dd >= dp * 2
          BY <1>1, <1>3, <3>2
        <4> QED
          BY <1>1, <1>3, <4>1
      <3> QED
        BY <3>1, <3>2
    <2>6. (2 * amp - 1) * dd \in Int /\ dp * dd \in Int /\ rate * dd \in Int
      BY <1>1, <1>3, <1>5
    <2> HIDE DEF rate
    <2> QED
      BY <1>1, <1>3, <2>3, <2>4, <2>5, <2>6
  <1> HIDE DEF bottom, rate
  <1>7. rate * dd \in Nat
    BY <1>1, <1>5
  <1>8. 1 <= (rate * dd) \div bottom
    BY <1>5, <1>6, <1>7, Fits
  <1>9. (rate * dd) \div bottom \in Nat
    BY <1>5, <1>7, Quotient
  <1> QED
    BY <1>4, <1>8, <1>9 DEF Amount

(* Newton's method for y: where the slope is positive it is positive at    *)
(* the next iterate, too, unless the two are one apart.                    *)
LEMMA SlopeKept ==
    ASSUME NEW yy \in Nat, NEW c \in Nat, NEW g \in Int, 2 * yy + g > 0
    PROVE  LET z == (yy * yy + c) \div (2 * yy + g)
           IN  z \in Nat /\ (z - yy \in -1..1 \/ 2 * z + g > 0)
  <1> DEFINE slope == 2 * yy + g
             z == (yy * yy + c) \div slope
  <1>1. slope \in Nat \ {0} /\ yy * yy + c \in Nat /\ g = slope - 2 * yy
    BY Product
  <1> HIDE DEF slope
  <1>2. z \in Nat /\ yy * yy + c < slope * z + slope
    BY <1>1, Quotient
  <1> HIDE DEF z
  <1>3. ASSUME z - yy \notin -1..1, 2 * z + g <= 0 PROVE FALSE
    <2>1. slope <= 2 * (yy - z)
      BY <1>1, <1>2, <1>3
    <2>2. PICK k \in Nat : k = yy - z /\ k >= 2 /\ yy = z + k
      BY <1>1, <1>2, <1>3, <2>1
    <2>3. slope * z + slope <= (2 * k) * (z + 1)
      <3>1. slope * (z + 1) <= (2 * k) * (z + 1)
        BY <1>1, <1>2, <2>1, <2>2, Monotone
      <3>2. slope * (z + 1) = slope * z + slope
        BY <1>1, <1>2
      <3> QED
        BY <3>1, <3>2
    <2>4. yy * yy = z * z + 2 * k * z + k * k /\ (2 * k) * (z + 1) = 2 * k * z + 2 * k
      BY <1>2, <2>2
    <2>5. k * k >= 2 * k /\ z * z \in Nat /\ k * z \in Nat /\ k * k \in Nat
      BY <1>2, <2>2
    <2>6. slope * z \in Int
      BY <1>1, <1>2
    <2> HIDE DEF slope
    <2> QED
      BY <1>1, <1>2, <2>3, <2>4, <2>5, <2>6
  <1> QED
    BY <1>2, <1>3 DEF z, slope

(* What is paid is never negative.                                         *)
LEMMA PaidNat ==
    ASSUME job.y \in Nat, job.fee \in 0..BPS-1, NEW newY \in Int
    PROVE  Paid(newY) \in Nat
  <1> DEFINE dy == job.y - newY - 1
             kept == MulDiv(dy, job.fee, BPS)
  <1>1. CASE dy <= 0
    BY <1>1 DEF Paid
  <1>2. CASE ~(dy <= 0)
    <2>1. dy \in Nat /\ BPS \in Nat \ {0} /\ job.fee \in Nat /\ job.fee <= BPS
      BY <1>2, AmmAssumption
    <2>2. Paid(newY) = dy - kept
      BY <1>2 DEF Paid
    <2>3. kept = (dy * job.fee) \div BPS
      BY <2>1 DEF MulDiv
    <2> HIDE DEF dy, kept
    <2>4. dy * job.fee \in Nat /\ dy * job.fee <= dy * BPS
      BY <2>1
    <2>5. kept \in Nat /\ BPS * kept <= dy * job.fee
      BY <2>1, <2>3, <2>4, Quotient
    <2>6. kept <= dy
      <3>1. kept * BPS < (dy + 1) * BPS
        BY <2>1, <2>4, <2>5
      <3> QED
        BY <2>1, <2>5, <3>1, Cancel
    <2> QED
      BY <2>1, <2>2, <2>5, <2>6
  <1> QED
    BY <1>1, <1>2

(* What comes out of the last leg is an amount.                            *)
LEMMA OutNat ==
    ASSUME NEW j \in Job, j.kind = "search", NEW in \in Nat
    PROVE  Out(j, in) \in Nat
  <1>1. PICK n \in Nat : n = Len(j.legs) /\ DOMAIN j.legs = 1..n
    BY NumericsAssumption DEF JobType
  <1> DEFINE Quote(a, i) == GetAmountOutV2(a, j.legs[i].rin, j.legs[i].rout, j.legs[i].fee)
             IsRec(f) == f = [i \in 0..Len(j.legs) |-> IF i = 0 THEN in ELSE Quote(f[i - 1], i)]
             step == [x \in Nat \X (1..n) |-> Quote(x[1], x[2])]
  <1>2. \A a \in Nat, i \in 1..n : Quote(a, i) \in Nat
    BY <1>1, SearchLegs, AmountOut
  <1> HIDE DEF Quote
  <1>3. step \in [Nat \X (1..n) -> Nat] /\ \A a \in Nat, i \in 1..n : step[<<a, i>>] = Quote(a, i)
    BY <1>2
  <1> HIDE DEF step
  <1>4. PICK g \in [0..n -> Nat] : g[0] = in /\ \A i \in 1..n : g[i] = step[<<g[i - 1], i>>]
    <2>1. PICK g \in [0..n -> Nat] : StepByStep(g, n, in, step)
      BY <1>3, Recursion
    <2> QED
      BY <2>1 DEF StepByStep
  <1>5. IsRec(g)
    <2>1. ASSUME NEW i \in 0..n PROVE g[i] = IF i = 0 THEN in ELSE Quote(g[i - 1], i)
      <3>1. CASE i = 0
        BY <1>4, <3>1
      <3>2. CASE i # 0
        <4>1. i \in 1..n /\ g[i - 1] \in Nat
          BY <1>1, <3>2
        <4> QED
          BY <1>3, <1>4, <3>2, <4>1
      <3> QED
        BY <3>1, <3>2
    <2> QED
      BY <1>1, <2>1
  <1> DEFINE amount == CHOOSE f : IsRec(f)
  <1>6. IsRec(amount)
    <2> HIDE DEF IsRec
    <2> QED
      BY <1>5
  <1>7. Out(j, in) = amount[n]
    BY <1>1 DEF Out, Quote
  <1> HIDE DEF amount
  <1>8. \A i \in 0..n : amount[i] = IF i = 0 THEN in ELSE Quote(amount[i - 1], i)
    BY <1>1, <1>6
  <1> DEFINE T == {m \in Nat : m <= n => amount[m] \in Nat}
  <1>9. 0 \in T
    BY <1>1, <1>8
  <1>10. ASSUME NEW m \in T PROVE m + 1 \in T
    <2> SUFFICES ASSUME m + 1 <= n PROVE amount[m + 1] \in Nat
      OBVIOUS
    <2>1. amount[m] \in Nat /\ m + 1 \in 0..n /\ m + 1 \in 1..n /\ m + 1 # 0 /\ (m + 1) - 1 = m
      BY <1>1
    <2>2. amount[m + 1] = Quote(amount[m], m + 1)
      BY <1>8, <2>1
    <2> QED
      BY <1>2, <2>1, <2>2
  <1>11. T = Nat
    <2> HIDE DEF T
    <2>1. T \subseteq Nat
      BY DEF T
    <2> QED
      BY <1>9, <1>10, <2>1, SetInduction
  <1>12. amount[n] \in Nat
    BY <1>11
  <1> QED
    BY <1>7, <1>12

-----------------------------------------------------------------------------
(* The loops                                                               *)

(* Where each kind of job may be.                                          *)
Phases == [search |-> {"bisect", "done"}, optimal |-> {"check", "ternary", "done"},
           curve |-> {"D", "Y", "done", "failed"}, v3 |-> {"quote", "done"}]

(* What GetY divides by.                                                   *)
Slope(yy) == 2 * yy + (job.x + job.dx + d \div (2 * job.amp)) - d

JobInv    == job \in Job /\ pc \in Phases[job.kind]
SearchInv == job.kind = "search" => low \in Low..High /\ high \in Low..High /\ low <= high
CurveInv  == job.kind = "curve" => d \in Nat \ {0} /\ y \in Nat /\ (pc = "Y" => Slope(y) > 0)
Quoted    ==
    Done("v3") => result = GetAmountOutV3(job.dx, job.p, job.l, job.zeroForOne, job.fee)

NInv == TypeOK /\ JobInv /\ SearchInv /\ CurveInv /\ Quoted

LEMMA Kinds ==
    ASSUME NEW j \in Job
    PROVE  /\ j.kind \in {"search", "optimal", "curve", "v3"}
           /\ j.kind = "curve" => /\ j.x \in Nat /\ j.y \in Nat \ {0} /\ j.amp \in Nat \ {0}
                                  /\ j.dx \in Nat \ {0} /\ j.fee \in 0..BPS-1
           /\ j.kind = "v3" => /\ j.p \in Amount /\ j.l \in Amount /\ j.dx \in Amount
                               /\ j.zeroForOne \in BOOLEAN /\ j.fee \in 0..BPS-1
           /\ j.kind = "optimal" => /\ 1 \in DOMAIN j.legs /\ 2 \in DOMAIN j.legs
  <1>1. j \in JobType /\ (j.kind = "optimal" => Len(j.legs) = 2)
    BY NumericsAssumption
  <1>2. CASE j \in [kind : {"search", "optimal"}, legs : Seq(Leg)]
    BY <1>1, <1>2
  <1>3. CASE j \in [kind : {"curve"}, x : Nat, y : Amount, amp : Amount, dx : Amount, fee : 0..BPS-1]
    BY <1>3 DEF Amount
  <1>4. CASE j \in [kind : {"v3"}, p : Amount, l : Amount, dx : Amount, zeroForOne : BOOLEAN,
                    fee : 0..BPS-1]
    BY <1>4
  <1> QED
    BY <1>1, <1>2, <1>3, <1>4 DEF JobType

(* Where the loop of a job is.                                             *)
LEMMA PhaseIs ==
    ASSUME JobInv
    PROVE  /\ pc \in {"bisect"} => job.kind = "search"
           /\ pc \in {"check", "ternary"} => job.kind = "optimal"
           /\ pc \in {"D", "Y", "failed"} => job.kind = "curve"
           /\ pc \in {"quote"} => job.kind = "v3"
  BY Kinds DEF JobInv, Phases

LEMMA InitLoops == Init => NInv
  <1> SUFFICES ASSUME Init PROVE NInv
    OBVIOUS
  <1>1. job \in Job /\ pc = Loop[job.kind] /\ turn = 0 /\ low = Low /\ high = High
        /\ best = None /\ y = 0 /\ result = None
        /\ d = IF job.kind = "curve" THEN job.x + job.y ELSE 0
    BY DEF Init
  <1>2. /\ Low \in Nat /\ High \in Nat /\ Low < High
        /\ Iterations \in Nat /\ Rounds \in Nat /\ MaxNewton \in Nat
    BY NumericsAssumption DEF Amount
  <1>3. job.kind \in {"search", "optimal", "curve", "v3"}
    BY <1>1, Kinds
  <1>4. JobInv /\ pc # "Y" /\ pc # "done"
    BY <1>1, <1>3 DEF JobInv, Phases, Loop
  <1>5. SearchInv
    BY <1>1, <1>2 DEF SearchInv
  <1>6. CurveInv /\ d \in Nat
    BY <1>1, <1>4, Kinds DEF CurveInv
  <1>7. Quoted
    BY <1>4 DEF Quoted, Done
  <1>8. turn \in 0..Limit[job.kind]
    BY <1>1, <1>2, <1>3 DEF Limit
  <1>9. pc \in {"bisect", "check", "ternary", "D", "Y", "quote", "done", "failed"}
    BY <1>1, <1>3 DEF Loop
  <1>10. TypeOK
    BY <1>1, <1>2, <1>6, <1>8, <1>9 DEF TypeOK
  <1> QED
    BY <1>4, <1>5, <1>6, <1>7, <1>10 DEF NInv

(* A profit is a whole number.                                             *)
LEMMA ProfitInt ==
    ASSUME NEW j \in Job, j.kind = "search", NEW in \in Nat
    PROVE  Profit(j, in) \in Int
  <1>1. Out(j, in) \in Nat
    BY OutNat
  <1> QED
    BY <1>1 DEF Profit

(* The search halves its interval, and what it remembers is a gain.        *)
LEMMA BisectTyped ==
    ASSUME NInv, Bisect
    PROVE  NInv'
  <1>1. /\ job \in Job /\ job.kind = "search" /\ pc = "bisect" /\ turn < Iterations
        /\ turn \in 0..Limit[job.kind] /\ turn' = turn + 1
        /\ UNCHANGED <<job, pc, d, y, result>>
    BY PhaseIs DEF NInv, JobInv, TypeOK, Bisect
  <1>2. low \in Low..High /\ high \in Low..High /\ low <= high
    BY <1>1 DEF NInv, SearchInv
  <1>3. Low \in Nat \ {0} /\ High \in Nat /\ Iterations \in Nat
    BY NumericsAssumption DEF Amount
  <1> DEFINE mid == (low + high) \div 2
             p   == Profit(job, mid)
  <1>4. mid \in Nat /\ low <= mid /\ mid <= high
    BY <1>2, <1>3
  <1>5. /\ best' = IF Better(p) THEN [in |-> mid, profit |-> p] ELSE best
        /\ \/ low' = mid /\ high' = high
           \/ high' = mid /\ low' = low
    BY DEF Bisect
  <1> HIDE DEF mid
  <1>6. p \in Int
    BY <1>1, <1>4, ProfitInt
  <1> HIDE DEF p
  <1>7. /\ low' \in Low..High /\ high' \in Low..High /\ low' <= high'
        /\ low' \in Nat /\ high' \in Nat
    BY <1>2, <1>3, <1>4, <1>5
  <1>8. best' \in {None} \cup [in : Low..High, profit : Amount]
    <2>1. best \in {None} \cup [in : Low..High, profit : Amount]
      BY DEF NInv, TypeOK
    <2>2. CASE Better(p)
      <3>1. p \in Amount /\ mid \in Low..High
        BY <1>2, <1>3, <1>4, <1>6, <2>2 DEF Better, Amount
      <3> QED
        BY <1>5, <2>2, <3>1
    <2> QED
      BY <1>5, <2>1, <2>2
  <1>9. turn' \in 0..Limit[job.kind]
    BY <1>1, <1>3 DEF Limit
  <1>10. TypeOK'
    BY <1>1, <1>7, <1>8, <1>9 DEF NInv, TypeOK
  <1> QED
    BY <1>1, <1>7, <1>10 DEF NInv, JobInv, SearchInv, CurveInv, Quoted, Done

(* What is above the threshold is a profit.                                *)
LEMMA NetProfits ==
    ASSUME NEW gross \in Nat, NEW in \in Nat, IsProfitable(NetProfit(gross, GasCost, in), MinProfit)
    PROVE  NetProfit(gross, GasCost, in) \in Amount
  <1> DEFINE loan == IF in > 0 THEN MulDiv(in, 5, BPS) ELSE 0
             net  == NetProfit(gross, GasCost, in)
  <1>1. MulDiv(in, 5, BPS) \in Nat
    <2>1. in * 5 \in Nat /\ BPS \in Nat \ {0}
      BY AmmAssumption
    <2> QED
      BY <2>1, Quotient DEF MulDiv
  <1>2. loan \in Nat
    BY <1>1
  <1>3. net = gross - GasCost - loan
    BY DEF NetProfit
  <1> HIDE DEF loan, net
  <1>4. net \in Int /\ MinProfit \in Nat
    BY <1>2, <1>3, NumericsAssumption
  <1>5. net > MinProfit
    BY DEF IsProfitable, net
  <1> QED
    BY <1>4, <1>5 DEF Amount, net

LEMMA JudgeTyped ==
    ASSUME NInv, Judge
    PROVE  NInv'
  <1>1. /\ job \in Job /\ job.kind = "search" /\ pc = "bisect" /\ pc' = "done"
        /\ UNCHANGED <<job, turn, low, high, best, d, y>>
    BY PhaseIs DEF NInv, JobInv, Judge, Return
  <1>2. best \in {None} \cup [in : Low..High, profit : Amount]
    BY DEF NInv, TypeOK
  <1>3. result' = None \/ result' \in [in : Low..High, gross : Amount, net : Amount]
    <2>1. CASE best = None
      BY <2>1 DEF Judge, Return
    <2>2. CASE best # None
      <3>1. best.in \in Low..High /\ best.profit \in Amount
        BY <1>2, <2>2
      <3> DEFINE net == NetProfit(best.profit, GasCost, best.in)
      <3>2. result' = IF IsProfitable(net, MinProfit)
                        THEN [in |-> best.in, gross |-> best.profit, net |-> net] ELSE None
        BY <2>2 DEF Judge, Return
      <3>3. best.in \in Nat /\ best.profit \in Nat
        BY <3>1, NumericsAssumption DEF Amount
      <3>4. IsProfitable(net, MinProfit) => net \in Amount
        BY <3>3, NetProfits
      <3> HIDE DEF net
      <3> QED
        BY <3>1, <3>2, <3>4
    <2> QED
      BY <2>1, <2>2
  <1>4. TypeOK'
    BY <1>1, <1>3 DEF NInv, TypeOK
  <1> QED
    BY <1>1, <1>4 DEF NInv, JobInv, Phases, SearchInv, CurveInv, Quoted, Done

(* The smaller of two reserves, halved.                                    *)
LEMMA UpperNat ==
    ASSUME NEW j \in Job, j.kind = "optimal"
    PROVE  Upper(j) \in Nat
  <1> DEFINE a == j.legs[1].rin
             b == j.legs[2].rin
  <1>1. a \in Nat /\ b \in Nat
    BY Kinds, SearchLegs DEF Amount
  <1> HIDE DEF a, b
  <1>2. \E x \in {a, b} : \A z \in {a, b} : x =< z
    BY <1>1
  <1>3. Min({a, b}) \in {a, b}
    BY <1>2 DEF Min
  <1> DEFINE m == Min({a, b})
  <1>4. m \in Nat
    BY <1>1, <1>3
  <1>5. Upper(j) = m \div 2
    BY DEF Upper, a, b
  <1> HIDE DEF m
  <1> QED
    BY <1>4, <1>5

LEMMA QuickCheckTyped ==
    ASSUME NInv, QuickCheck
    PROVE  NInv'
  <1>1. /\ job \in Job /\ job.kind = "optimal" /\ pc = "check"
        /\ UNCHANGED <<job, turn, best, d, y>>
        /\ \/ pc' = "done" /\ result' = 0 /\ UNCHANGED <<low, high>>
           \/ pc' = "ternary" /\ low' = 1 /\ high' = Upper(job) /\ UNCHANGED result
    BY PhaseIs DEF NInv, JobInv, QuickCheck, Return
  <1>2. Upper(job) \in Nat
    BY <1>1, UpperNat
  <1>3. TypeOK'
    BY <1>1, <1>2 DEF NInv, TypeOK
  <1> QED
    BY <1>1, <1>3 DEF NInv, JobInv, Phases, SearchInv, CurveInv, Quoted, Done

(* Each third is inside the interval.                                      *)
LEMMA TernaryTyped ==
    ASSUME NInv, Ternary
    PROVE  NInv'
  <1>1. /\ job \in Job /\ job.kind = "optimal" /\ pc = "ternary" /\ turn < Rounds /\ high - low > 2
        /\ turn \in 0..Limit[job.kind] /\ turn' = turn + 1
        /\ UNCHANGED <<job, pc, best, d, y, result>>
    BY PhaseIs DEF NInv, JobInv, TypeOK, Ternary, Searching
  <1>2. low \in Nat /\ high \in Nat
    BY DEF NInv, TypeOK
  <1> DEFINE third == (high - low) \div 3
  <1>3. \/ low' = low + third /\ high' = high
        \/ high' = high - third /\ low' = low
    BY DEF Ternary
  <1>4. third \in Nat /\ third <= high
    BY <1>1, <1>2
  <1> HIDE DEF third
  <1>5. low' \in Nat /\ high' \in Nat
    BY <1>2, <1>3, <1>4
  <1>6. turn' \in 0..Limit[job.kind]
    BY <1>1, NumericsAssumption DEF Limit, Amount
  <1>7. TypeOK'
    BY <1>1, <1>5, <1>6 DEF NInv, TypeOK
  <1> QED
    BY <1>1, <1>7 DEF NInv, JobInv, SearchInv, CurveInv, Quoted, Done

LEMMA TernaryDoneTyped ==
    ASSUME NInv, TernaryDone
    PROVE  NInv'
  <1>1. /\ job \in Job /\ job.kind = "optimal" /\ pc = "ternary" /\ pc' = "done"
        /\ UNCHANGED <<job, turn, low, high, best, d, y>>
    BY PhaseIs DEF NInv, JobInv, TernaryDone, Return
  <1>2. low \in Nat /\ high \in Nat
    BY DEF NInv, TypeOK
  <1> DEFINE in == (low + high) \div 2
  <1>3. result' = in \/ result' = 0
    BY DEF TernaryDone, Return
  <1>4. in \in Nat
    BY <1>2
  <1> HIDE DEF in
  <1>5. TypeOK'
    BY <1>1, <1>3, <1>4 DEF NInv, TypeOK
  <1> QED
    BY <1>1, <1>5 DEF NInv, JobInv, Phases, SearchInv, CurveInv, Quoted, Done

(* GetD stays positive, and GetY starts where its slope is.                *)
LEMMA NewtonDTyped ==
    ASSUME NInv, NewtonD
    PROVE  NInv'
  <1>1. /\ job \in Job /\ job.kind = "curve" /\ pc = "D" /\ turn < MaxNewton
        /\ turn \in 0..Limit[job.kind] /\ d \in Nat \ {0} /\ y \in Nat
        /\ d' = NextD(d, job.x, job.y, job.amp)
        /\ UNCHANGED <<job, low, high, best, result>>
        /\ \/ pc' = "Y" /\ turn' = 0 /\ y' = d'
           \/ pc' = "D" /\ turn' = turn + 1 /\ y' = y
    BY PhaseIs DEF NInv, JobInv, TypeOK, CurveInv, NewtonD
  <1>2. /\ job.x \in Nat \ {0} /\ job.y \in Nat \ {0} /\ job.amp \in Nat \ {0}
        /\ job.dx \in Nat \ {0} /\ MaxNewton \in Nat
    <2>1. job.x # 0
      BY <1>1 DEF NewtonD, EmptyCoin
    <2> QED
      BY <1>1, <2>1, Kinds, NumericsAssumption DEF Amount
  <1>3. d' \in Nat \ {0}
    BY <1>1, <1>2, NextDPositive DEF Amount
  <1>4. ASSUME y' = d' PROVE Slope(y)' > 0
    <2> DEFINE e == d' \div (2 * job.amp)
    <2>1. e \in Nat
      BY <1>2, <1>3, Quotient
    <2>2. Slope(y)' = 2 * y' + (job.x + job.dx + e) - d'
      BY <1>1 DEF Slope
    <2> HIDE DEF e
    <2> QED
      BY <1>2, <1>3, <1>4, <2>1, <2>2
  <1>5. turn' \in 0..Limit[job.kind]
    BY <1>1, <1>2 DEF Limit
  <1>6. CurveInv'
    BY <1>1, <1>3, <1>4 DEF CurveInv
  <1>7. TypeOK'
    BY <1>1, <1>3, <1>5 DEF NInv, TypeOK
  <1> QED
    BY <1>1, <1>6, <1>7 DEF NInv, JobInv, Phases, SearchInv, Quoted, Done

(* GetY never divides by zero.                                             *)
LEMMA NewtonYTyped ==
    ASSUME NInv, NewtonY
    PROVE  NInv'
  <1>1. /\ job \in Job /\ job.kind = "curve" /\ pc = "Y" /\ turn < MaxNewton
        /\ turn \in 0..Limit[job.kind] /\ d \in Nat \ {0} /\ y \in Nat /\ Slope(y) > 0
        /\ y' = NextY(y, job.x + job.dx)
        /\ UNCHANGED <<job, low, high, best, d>>
        /\ \/ Close(y', y) /\ pc' = "done" /\ result' = Paid(y') /\ turn' = turn
           \/ ~Close(y', y) /\ pc' = "Y" /\ result' = result /\ turn' = turn + 1
    BY PhaseIs DEF NInv, JobInv, TypeOK, CurveInv, NewtonY, Return
  <1>2. /\ job.x \in Nat /\ job.y \in Nat /\ job.amp \in Nat \ {0} /\ job.dx \in Nat \ {0}
        /\ job.fee \in 0..BPS-1 /\ MaxNewton \in Nat
    BY <1>1, Kinds, NumericsAssumption DEF Amount
  <1> DEFINE newX == job.x + job.dx
             f == (d * d) \div (2 * newX)
             c == (f * d) \div (4 * job.amp)
             e == d \div (2 * job.amp)
             g == newX + e - d
  <1>3. newX \in Nat \ {0}
    BY <1>2
  <1> HIDE DEF newX
  <1>4. f \in Nat
    <2>1. d * d \in Nat /\ 2 * newX \in Nat \ {0}
      BY <1>1, <1>3
    <2> QED
      BY <2>1, Quotient
  <1> HIDE DEF f
  <1>5. c \in Nat
    <2>1. f * d \in Nat /\ 4 * job.amp \in Nat \ {0}
      BY <1>1, <1>2, <1>4
    <2> QED
      BY <2>1, Quotient
  <1>6. e \in Nat
    BY <1>1, <1>2, Quotient
  <1>7. y' = (y * y + c) \div (2 * y + (newX + e) - d)
    BY <1>1 DEF NextY, newX, f
  <1>8. Slope(y) = 2 * y + (newX + e) - d
    BY DEF Slope, newX
  <1> HIDE DEF c, e
  <1>9. g \in Int /\ 2 * y + (newX + e) - d = 2 * y + g
    BY <1>1, <1>3, <1>6
  <1> HIDE DEF g
  <1>10. y' \in Nat /\ (Close(y', y) \/ 2 * y' + g > 0)
    <2>1. 2 * y + g > 0 /\ y' = (y * y + c) \div (2 * y + g)
      BY <1>1, <1>7, <1>8, <1>9
    <2> QED
      BY <1>1, <1>5, <1>9, <2>1, SlopeKept DEF Close
  <1>11. Slope(y)' = 2 * y' + g
    <2>1. Slope(y)' = 2 * y' + (newX + e) - d
      BY <1>1 DEF Slope, newX, e
    <2> QED
      BY <1>1, <1>3, <1>6, <1>10, <2>1 DEF g
  <1>12. CurveInv'
    BY <1>1, <1>10, <1>11 DEF CurveInv
  <1>13. Paid(y') \in Nat
    BY <1>2, <1>10, PaidNat
  <1>14. turn' \in 0..Limit[job.kind]
    BY <1>1, <1>2 DEF Limit
  <1>15. TypeOK'
    BY <1>1, <1>10, <1>13, <1>14 DEF NInv, TypeOK
  <1> QED
    BY <1>1, <1>12, <1>15 DEF NInv, JobInv, Phases, SearchInv, Quoted, Done

LEMMA NewtonFailsTyped ==
    ASSUME NInv, NewtonFails
    PROVE  NInv'
  <1>1. /\ job.kind = "curve" /\ pc' = "failed"
        /\ UNCHANGED <<job, turn, low, high, best, d, y, result>>
    BY PhaseIs DEF NInv, NewtonFails, EmptyCoin
  <1>2. TypeOK'
    BY <1>1 DEF NInv, TypeOK
  <1> QED
    BY <1>1, <1>2 DEF NInv, JobInv, Phases, SearchInv, CurveInv, Quoted, Done

(* What goes in net of the fee.                                            *)
LEMMA NetNat ==
    ASSUME NEW j \in Job, j.kind = "v3"
    PROVE  MulDiv(j.dx, BPS - j.fee, BPS) \in Nat
  <1>1. j.dx \in Nat /\ j.fee \in 0..BPS-1 /\ BPS \in Nat \ {0}
    BY Kinds, AmmAssumption DEF Amount
  <1>2. j.dx * (BPS - j.fee) \in Nat
    BY <1>1
  <1> QED
    BY <1>1, <1>2, Quotient DEF MulDiv

(* GetAmountOutV3 against the exact formula, as V3Bounded puts it.         *)
Bounded(j, quote) ==
    LET net  == MulDiv(j.dx, BPS - j.fee, BPS)
        down == (j.l * net * j.p * j.p) \div (Q96 * (j.l * Q96 + net * j.p))
        up   == (j.l * Q96 * net * Q96) \div (j.p * (j.p * j.l + net * Q96))
    IN  IF j.zeroForOne
          THEN quote \in down..(down + 1 + j.l \div Q96)
          ELSE quote \in (up - 1 - (j.l * Q96) \div (j.p * j.p))..up

LEMMA QuoteBounded ==
    ASSUME NEW j \in Job, j.kind = "v3"
    PROVE  LET quote == GetAmountOutV3(j.dx, j.p, j.l, j.zeroForOne, j.fee)
           IN  quote \in Nat /\ Bounded(j, quote)
  <1>1. j.p \in Amount /\ j.l \in Amount /\ j.zeroForOne \in BOOLEAN /\ Q96 \in Nat \ {0}
    BY Kinds, AmmAssumption
  <1>2. j.p \in Nat \ {0} /\ j.l \in Nat \ {0}
    BY <1>1 DEF Amount
  <1> DEFINE net == MulDiv(j.dx, BPS - j.fee, BPS)
             quote == GetAmountOutV3(j.dx, j.p, j.l, j.zeroForOne, j.fee)
  <1>3. net \in Nat
    BY NetNat
  <1>4. CASE j.zeroForOne
    <2> DEFINE k == j.l * Q96 + net * j.p
               down == (j.l * net * j.p * j.p) \div (Q96 * k)
               m == j.l \div Q96
    <2>1. quote = (j.l * (j.p - (j.l * Q96 * j.p) \div k)) \div Q96
      BY <1>1, <1>4 DEF GetAmountOutV3, MulDiv
    <2> HIDE DEF net, quote
    <2>2. quote \in down..(down + 1 + m)
      BY <1>1, <1>3, <2>1, QuoteDown
    <2>3. down \in Nat /\ m \in Nat
      <3>1. j.l * net * j.p * j.p \in Nat /\ Q96 * k \in Nat \ {0}
        <4>1. j.l * Q96 \in Nat \ {0} /\ net * j.p \in Nat
          BY <1>1, <1>2, <1>3
        <4>2. k \in Nat \ {0}
          BY <4>1
        <4> HIDE DEF k
        <4> QED
          BY <1>1, <1>2, <1>3, <4>2
      <3> HIDE DEF k
      <3> QED
        BY <1>1, <1>2, <3>1, Quotient
    <2>4. quote \in Nat
      <3> HIDE DEF down, m
      <3> QED
        BY <2>2, <2>3
    <2> QED
      BY <1>4, <2>2, <2>4 DEF Bounded, net, quote
  <1>5. CASE ~j.zeroForOne
    <2> DEFINE delta == (net * Q96) \div j.l
               up == (j.l * Q96 * net * Q96) \div (j.p * (j.p * j.l + net * Q96))
               m == (j.l * Q96) \div (j.p * j.p)
    <2>1. quote = (j.l * Q96 * delta) \div (j.p * (j.p + delta))
      BY <1>2, <1>5 DEF GetAmountOutV3, MulDiv
    <2> HIDE DEF net, quote
    <2>2. quote \in (up - 1 - m)..up
      BY <1>1, <1>3, <2>1, QuoteUp
    <2>3. quote \in Nat
      <3>1. net * Q96 \in Nat
        BY <1>1, <1>3
      <3>2. delta \in Nat
        BY <1>2, <3>1, Quotient
      <3> HIDE DEF delta
      <3>3. j.l * Q96 * delta \in Nat /\ j.p * (j.p + delta) \in Nat \ {0}
        BY <1>1, <1>2, <3>2
      <3> QED
        BY <2>1, <3>3, Quotient
    <2> QED
      BY <1>5, <2>2, <2>3 DEF Bounded, net, quote
  <1> QED
    BY <1>1, <1>4, <1>5

LEMMA QuoteTyped ==
    ASSUME NInv, QuoteV3
    PROVE  NInv'
  <1>1. /\ job \in Job /\ job.kind = "v3" /\ pc' = "done"
        /\ result' = GetAmountOutV3(job.dx, job.p, job.l, job.zeroForOne, job.fee)
        /\ UNCHANGED <<job, turn, low, high, best, d, y>>
    BY PhaseIs DEF NInv, JobInv, QuoteV3, Return
  <1>2. result' \in Nat
    BY <1>1, QuoteBounded
  <1>3. TypeOK'
    BY <1>1, <1>2 DEF NInv, TypeOK
  <1> QED
    BY <1>1, <1>3 DEF NInv, JobInv, Phases, SearchInv, CurveInv, Quoted, Done

LEMMA AlwaysTyped == Spec => []NInv
  <1>1. Init => NInv
    BY InitLoops
  <1>2. ASSUME NInv, [Next]_vars PROVE NInv'
    <2>1. CASE UNCHANGED vars
      BY <1>2, <2>1 DEF vars, NInv, TypeOK, JobInv, SearchInv, CurveInv, Slope, Quoted, Done
    <2> QED
      BY <1>2, <2>1, BisectTyped, JudgeTyped, QuickCheckTyped, TernaryTyped, TernaryDoneTyped,
         NewtonDTyped, NewtonYTyped, NewtonFailsTyped, QuoteTyped DEF Next, Returned
  <1> QED
    BY <1>1, <1>2, PTL DEF Spec

(* For jobs, bounds and costs of any size: every loop stays within its     *)
(* interval and its number of iterations, Newton's iterates for D and y    *)
(* never divide by zero or turn negative, what is paid is not negative,    *)
(* and an opportunity that is returned makes a profit.                     *)
THEOREM NumericsTypes == Spec => []TypeOK
  <1>1. NInv => TypeOK
    BY DEF NInv
  <1> QED
    BY <1>1, AlwaysTyped, PTL

(* For any price, liquidity, input and fee: a V3 quote from token 1 to     *)
(* token 0 never exceeds the exact amount, one from token 0 to token 1 by  *)
(* at most one unit and the liquidity over Q96 (uniswapv3.go:18).          *)
THEOREM QuotesBounded == Spec => []V3Bounded
  <1>1. NInv => V3Bounded
    <2> SUFFICES ASSUME NInv, Done("v3") PROVE Bounded(job, result)
      BY DEF V3Bounded, Bounded
    <2>1. /\ job \in Job /\ job.kind = "v3"
          /\ result = GetAmountOutV3(job.dx, job.p, job.l, job.zeroForOne, job.fee)
      BY DEF NInv, JobInv, Quoted, Done
    <2> QED
      BY <2>1, QuoteBounded
  <1> QED
    BY <1>1, AlwaysTyped, PTL
(* What the loops return is real: the gross profit of an opportunity is    *)
(* what its input earns through all the legs and its net profit is above   *)
(* the threshold, the input of an arbitrage gains, and a Curve pool keeps  *)
(* some of the coin it pays.                                               *)
Real ==
    /\ best # None => best.profit = Profit(job, best.in)
    /\ Done("search") /\ result # None =>
         /\ result.gross = Profit(job, result.in)
         /\ result.net = NetProfit(result.gross, GasCost, result.in)
         /\ IsProfitable(result.net, MinProfit)
    /\ Done("optimal") /\ result # 0 => Gain(job, result) > 0
    /\ Done("curve") => result < job.y

(* At most the balance lost, less one unit, is paid.                       *)
LEMMA PaidBelow ==
    ASSUME job.y \in Nat \ {0}, job.fee \in 0..BPS-1, NEW newY \in Nat
    PROVE  Paid(newY) < job.y
  <1> DEFINE dy == job.y - newY - 1
             kept == MulDiv(dy, job.fee, BPS)
  <1>1. CASE dy <= 0
    BY <1>1 DEF Paid
  <1>2. CASE ~(dy <= 0)
    <2>1. dy \in Nat /\ dy < job.y /\ BPS \in Nat \ {0} /\ job.fee \in Nat
      BY <1>2, AmmAssumption
    <2>2. Paid(newY) = dy - kept /\ kept = (dy * job.fee) \div BPS
      BY <1>2, <2>1 DEF Paid, MulDiv
    <2> HIDE DEF dy, kept
    <2>3. kept \in Nat
      BY <2>1, <2>2, Product, Quotient
    <2> QED
      BY <2>1, <2>2, <2>3
  <1> QED
    BY <1>1, <1>2

LEMMA RealStep ==
    ASSUME NInv, NInv', Real, [Next]_vars
    PROVE  Real'
  <1>1. CASE Bisect
    <2>1. /\ pc = "bisect" /\ UNCHANGED <<job, pc, result>>
          /\ \/ best' = best
             \/ \E mid : best' = [in |-> mid, profit |-> Profit(job, mid)]
      BY <1>1 DEF Bisect
    <2>2. \A in : Profit(job, in)' = Profit(job, in)
      BY <2>1 DEF Profit, Out
    <2> QED
      BY <2>1, <2>2 DEF Real, Done
  <1>2. CASE Judge
    <2>1. /\ pc' = "done" /\ job.kind = "search" /\ UNCHANGED <<job, best>>
          /\ result' = IF best = None THEN None
                       ELSE LET net == NetProfit(best.profit, GasCost, best.in)
                            IN  IF IsProfitable(net, MinProfit)
                                  THEN [in |-> best.in, gross |-> best.profit, net |-> net]
                                  ELSE None
      BY <1>2, PhaseIs DEF Judge, Return, NInv
    <2>2. \A in : Profit(job, in)' = Profit(job, in)
      BY <2>1 DEF Profit, Out
    <2> QED
      BY <2>1, <2>2 DEF Real, Done
  <1>3. CASE QuickCheck \/ Ternary \/ TernaryDone
    <2>1. /\ job.kind = "optimal" /\ UNCHANGED <<job, best>>
          /\ pc' = "done" => result' = 0 \/ Gain(job, result') > 0
      BY <1>3, PhaseIs DEF QuickCheck, Ternary, TernaryDone, Searching, Return, NInv
    <2>2. \A in : Profit(job, in)' = Profit(job, in) /\ Gain(job, in)' = Gain(job, in)
      BY <2>1 DEF Profit, Out, Gain
    <2> QED
      BY <2>1, <2>2 DEF Real, Done
  <1>4. CASE NewtonD \/ NewtonY \/ NewtonFails
    <2>1. /\ job.kind = "curve" /\ UNCHANGED <<job, best>>
          /\ pc' = "done" => result' = Paid(y')
      BY <1>4, PhaseIs DEF NewtonD, NewtonY, NewtonFails, EmptyCoin, Return, NInv
    <2>2. Paid(y') < job.y
      <3>1. y' \in Nat /\ job \in Job
        BY DEF NInv, TypeOK, JobInv
      <3> QED
        BY <2>1, <3>1, Kinds, PaidBelow
    <2>3. \A in : Profit(job, in)' = Profit(job, in)
      BY <2>1 DEF Profit, Out
    <2> QED
      BY <2>1, <2>2, <2>3 DEF Real, Done
  <1>5. CASE QuoteV3 \/ UNCHANGED vars
    <2>1. /\ UNCHANGED <<job, best>>
          /\ job.kind = "v3" \/ UNCHANGED <<pc, result>>
      BY <1>5, PhaseIs DEF QuoteV3, vars, NInv
    <2>2. \A in : Profit(job, in)' = Profit(job, in) /\ Gain(job, in)' = Gain(job, in)
      BY <2>1 DEF Profit, Out, Gain
    <2> QED
      BY <2>1, <2>2 DEF Real, Done
  <1> QED
    BY <1>1, <1>2, <1>3, <1>4, <1>5 DEF Next, Returned

(* For all reserves, fees and cycles: the opportunities of checkDirection  *)
(* and evaluateCycle (crossdex.go, triangular.go) earn what they say and   *)
(* are above the threshold, OptimalArbInputV2 returns an input that gains, *)
(* and GetDyCurve pays less than the pool's balance.                       *)
THEOREM ReturnsAreReal == Spec => []Real
  <1>1. Init => Real
    BY Kinds DEF Init, Real, Done, Loop
  <1> QED
    BY <1>1, RealStep, AlwaysTyped, PTL DEF Spec
=============================================================================
