------------------------------- MODULE Numerics -------------------------------
(***************************************************************************)
(* The loops that turn pool states into amounts, one job at a time and one *)
(* action per iteration:                                                   *)
(*   "search"   checkDirection of the cross-DEX and the Curve strategy and *)
(*              evaluateCycle of the triangular one (the same loop with    *)
(*              other constants), through two or more V2 pools             *)
(*   "optimal"  OptimalArbInputV2                                          *)
(*   "curve"    GetDyCurve: GetD and GetY, both by Newton's iteration      *)
(*   "v3"       GetAmountOutV3, which has no loop                          *)
(* A job is its inputs.  Amounts are scaled: the search starts from        *)
(* Low..High, 10^15..10^21 wei (10^23 for Curve) in the program.           *)
(***************************************************************************)
EXTENDS Amm

CONSTANTS Job,         \* the jobs, in the four forms of JobType
          Low, High,   \* where the search for the best input starts
          GasCost,     \* gasEstimate times gasPrice
          MinProfit,   \* minProfitWei
          Iterations,  \* iterations of the search (64)
          Rounds,      \* of the ternary search at most (200)
          MaxNewton,   \* of Newton's method at most (256)
          None         \* nil

Amount == Nat \ {0}
Leg    == [rin : Amount, rout : Amount, fee : 0..BPS-1]
JobType ==
    [kind : {"search", "optimal"}, legs : Seq(Leg)]
    \cup [kind : {"curve"}, x : Nat, y : Amount, amp : Amount, dx : Amount, fee : 0..BPS-1]
    \cup [kind : {"v3"}, p : Amount, l : Amount, dx : Amount, zeroForOne : BOOLEAN,
          fee : 0..BPS-1]

ASSUME NumericsAssumption ==
    /\ Job \subseteq JobType
    /\ \A j \in Job : j.kind = "optimal" => Len(j.legs) = 2
    /\ Low \in Amount /\ High \in Amount /\ Low < High
    /\ GasCost \in Nat /\ MinProfit \in Nat
    /\ Iterations \in Amount /\ Rounds \in Amount /\ MaxNewton \in Amount

VARIABLES
    job,    \* the job
    pc,     \* the loop it is in; "done" or "failed" at the end
    turn,   \* iterations of the loop so far
    low, high,  \* the interval of a search
    best,   \* the best [in, profit] a search has seen
    d, y,   \* Newton's iterates
    result  \* what the function returns

vars == <<job, pc, turn, low, high, best, d, y, result>>

-----------------------------------------------------------------------------
Loop == [search |-> "bisect", optimal |-> "check", curve |-> "D", v3 |-> "quote"]

Init ==
    /\ job \in Job
    /\ pc = Loop[job.kind]
    /\ turn = 0
    /\ low = Low /\ high = High
    /\ best = None
    /\ d = IF job.kind = "curve" THEN job.x + job.y ELSE 0
    /\ y = 0
    /\ result = None

Return(r) == pc' = "done" /\ result' = r

-----------------------------------------------------------------------------
(* checkDirection, evaluateCycle                                           *)

(* Through all legs; nothing is paid for nothing.                          *)
Out(j, in) ==
    LET amount[i \in 0..Len(j.legs)] ==
            IF i = 0 THEN in
            ELSE GetAmountOutV2(amount[i - 1], j.legs[i].rin, j.legs[i].rout, j.legs[i].fee)
    IN  amount[Len(j.legs)]

(* profitFn, simulate, simulateCycle: a leg that pays nothing is no profit. *)
Profit(j, in) == LET out == Out(j, in) IN IF out <= 0 THEN -1 ELSE out - in

(* Mutant: a first midpoint is kept even at a loss.                        *)
BetterOrLoss(p) == best = None \/ p > best.profit

Better(p) == p > 0 /\ (best = None \/ p > best.profit)

(* Mutant: an unprofitable midpoint sends the search upwards.              *)
BisectUp ==
    /\ pc = "bisect" /\ turn < Iterations
    /\ LET mid == (low + high) \div 2
           up  == mid + (high - mid) \div 2
           p   == Profit(job, mid)
       IN  /\ best' = IF Better(p) THEN [in |-> mid, profit |-> p] ELSE best
           /\ IF p <= 0 \/ Profit(job, up) > p THEN low' = mid /\ UNCHANGED high
                                              ELSE high' = mid /\ UNCHANGED low
    /\ turn' = turn + 1
    /\ UNCHANGED <<job, pc, d, y, result>>

(* The upper half is kept if its midpoint is better than this one.         *)
Bisect ==
    /\ pc = "bisect" /\ turn < Iterations
    /\ LET mid == (low + high) \div 2
           up  == mid + (high - mid) \div 2
           p   == Profit(job, mid)
       IN  /\ best' = IF Better(p) THEN [in |-> mid, profit |-> p] ELSE best
           /\ IF p > 0 /\ Profit(job, up) > p THEN low' = mid /\ UNCHANGED high
                                              ELSE high' = mid /\ UNCHANGED low
    /\ turn' = turn + 1
    /\ UNCHANGED <<job, pc, d, y, result>>

(* The opportunity, or nil when gas, loan and threshold leave no profit.   *)
Judge ==
    /\ pc = "bisect" /\ turn = Iterations
    /\ Return(IF best = None THEN None
              ELSE LET net == NetProfit(best.profit, GasCost, best.in)
                   IN  IF IsProfitable(net, MinProfit)
                         THEN [in |-> best.in, gross |-> best.profit, net |-> net]
                         ELSE None)
    /\ UNCHANGED <<job, turn, low, high, best, d, y>>

-----------------------------------------------------------------------------
(* OptimalArbInputV2                                                       *)

Gain(j, in) == ProfitV2(in, j.legs[1].rin, j.legs[1].rout, j.legs[1].fee,
                            j.legs[2].rin, j.legs[2].rout, j.legs[2].fee)

(* The product of the marginal rates, as a fraction.                       *)
RateTop(j)    == j.legs[1].rout * (BPS - j.legs[1].fee) * j.legs[2].rout * (BPS - j.legs[2].fee)
RateBottom(j) == j.legs[1].rin * j.legs[2].rin * BPS * BPS

(* Half of the smaller of r0a and r0b, which are amounts of two tokens.    *)
Upper(j) == Min({j.legs[1].rin, j.legs[2].rin}) \div 2

QuickCheck ==
    /\ pc = "check"
    /\ IF RateTop(job) <= RateBottom(job) THEN Return(0) /\ UNCHANGED <<low, high>>
       ELSE /\ pc' = "ternary"
            /\ low' = 1 /\ high' = Upper(job)
            /\ UNCHANGED result
    /\ UNCHANGED <<job, turn, best, d, y>>

Searching == pc = "ternary" /\ turn < Rounds /\ high - low > 2

(* Mutant: the wrong third is dropped.                                     *)
TernaryWrong ==
    /\ Searching
    /\ LET third == (high - low) \div 3
       IN  IF Gain(job, low + third) < Gain(job, high - third)
             THEN high' = high - third /\ UNCHANGED low
             ELSE low' = low + third /\ UNCHANGED high
    /\ turn' = turn + 1
    /\ UNCHANGED <<job, pc, best, d, y, result>>

Ternary ==
    /\ Searching
    /\ LET third == (high - low) \div 3
       IN  IF Gain(job, low + third) < Gain(job, high - third)
             THEN low' = low + third /\ UNCHANGED high
             ELSE high' = high - third /\ UNCHANGED low
    /\ turn' = turn + 1
    /\ UNCHANGED <<job, pc, best, d, y, result>>

TernaryDone ==
    /\ pc = "ternary" /\ ~Searching
    /\ LET in == (low + high) \div 2
       IN  Return(IF Gain(job, in) > 0 THEN in ELSE 0)
    /\ UNCHANGED <<job, turn, low, high, best, d, y>>

-----------------------------------------------------------------------------
(* GetDyCurve, for a pool of two coins: coin 0 in, coin 1 out.             *)

Close(a, b) == a - b \in -1..1

(* One iteration of GetD from dd, for the balances bx and by.              *)
NextD(dd, bx, by, amp) ==
    LET dp == (((dd * dd) \div (2 * bx)) * dd) \div (2 * by)
    IN  ((2 * amp * (bx + by) + 2 * dp) * dd) \div ((2 * amp - 1) * dd + 3 * dp)

(* Reserves of which one is zero have no D.                                *)
EmptyCoin == pc = "D" /\ (job.x = 0 \/ job.y = 0)

NewtonD ==
    /\ pc = "D" /\ ~EmptyCoin /\ turn < MaxNewton
    /\ d' = NextD(d, job.x, job.y, job.amp)
    /\ IF Close(d', d) THEN pc' = "Y" /\ turn' = 0 /\ y' = d'
                       ELSE turn' = turn + 1 /\ UNCHANGED <<pc, y>>
    /\ UNCHANGED <<job, low, high, best, result>>

(* GetY's c and b for the balance newX of coin 0.                          *)
NextY(yy, newX) ==
    LET c == (((d * d) \div (2 * newX)) * d) \div (4 * job.amp)
        b == newX + d \div (2 * job.amp)
    IN  (yy * yy + c) \div (2 * yy + b - d)

(* What is paid: one less than the balance lost, and less the fee.         *)
Paid(newY) == LET dy == job.y - newY - 1
              IN  IF dy <= 0 THEN 0 ELSE dy - MulDiv(dy, job.fee, BPS)

(* Mutant: the balance that is lost is rounded up.                         *)
NewtonYGenerous ==
    /\ pc = "Y" /\ turn < MaxNewton
    /\ y' = NextY(y, job.x + job.dx)
    /\ IF Close(y', y) THEN Return(Paid(y' - 2)) /\ UNCHANGED turn
                       ELSE turn' = turn + 1 /\ UNCHANGED <<pc, result>>
    /\ UNCHANGED <<job, low, high, best, d>>

NewtonY ==
    /\ pc = "Y" /\ turn < MaxNewton
    /\ y' = NextY(y, job.x + job.dx)
    /\ IF Close(y', y) THEN Return(Paid(y')) /\ UNCHANGED turn
                       ELSE turn' = turn + 1 /\ UNCHANGED <<pc, result>>
    /\ UNCHANGED <<job, low, high, best, d>>

(* "zero balance in pool", "did not converge".                             *)
NewtonFails ==
    /\ EmptyCoin \/ (pc \in {"D", "Y"} /\ turn = MaxNewton)
    /\ pc' = "failed"
    /\ UNCHANGED <<job, turn, low, high, best, d, y, result>>

-----------------------------------------------------------------------------
QuoteV3 ==
    /\ pc = "quote"
    /\ Return(GetAmountOutV3(job.dx, job.p, job.l, job.zeroForOne, job.fee))
    /\ UNCHANGED <<job, turn, low, high, best, d, y>>

Returned == pc \in {"done", "failed"} /\ UNCHANGED vars

Next == \/ Bisect \/ Judge
        \/ QuickCheck \/ Ternary \/ TernaryDone
        \/ NewtonD \/ NewtonY \/ NewtonFails
        \/ QuoteV3
        \/ Returned

Spec == Init /\ [][Next]_vars

-----------------------------------------------------------------------------
(* How often the loop of a job may go round.                               *)
Limit == [search |-> Iterations, optimal |-> Rounds, curve |-> MaxNewton, v3 |-> 0]

(* Type correctness of the loops' variables: the search stays in its       *)
(* interval and remembers gains only, the loops end, Newton's iterates are *)
(* natural numbers (nothing is divided by zero), and an opportunity makes  *)
(* a profit.                                                               *)
TypeOK ==
    /\ job \in Job
    /\ pc \in {"bisect", "check", "ternary", "D", "Y", "quote", "done", "failed"}
    /\ turn \in 0..Limit[job.kind]
    /\ low \in Nat /\ high \in Nat
    /\ best \in {None} \cup [in : Low..High, profit : Amount]
    /\ d \in Nat /\ y \in Nat
    /\ result = None \/ IF job.kind = "search"
                          THEN result \in [in : Low..High, gross : Amount, net : Amount]
                          ELSE result \in Nat

Done(kind) == pc = "done" /\ job.kind = kind

(* What rounding down on every leg can cost, in units of the first token.  *)
Rounding(j) == FoldLeft(LAMBDA u, leg : (u * leg.rout) \div leg.rin + 1, 0, j.legs)

(* "Binary search for optimal input" (curvestable.go:80): the search does  *)
(* not find the best input, since it drops the part above a midpoint as    *)
(* soon as the next quarter is no better.  The profit being concave, that  *)
(* part can hold at most half as much again: the search finds two thirds   *)
(* of the best profit, up to the rounding of the legs, and it finds a      *)
(* profit whenever some input makes a larger one than the rounding.        *)
NearBest ==
    Done("search") =>
        LET found == IF best = None THEN 0 ELSE best.profit
        IN  \A in \in Low..High : 2 * Profit(job, in) <= 3 * found + 4 * Rounding(job)

(* The product of the reserves, both with the fee kept out, may not shrink: *)
(* what a V2 pair checks at the end of a swap.                             *)
PairAccepts(in, out, rin, rout, fee) ==
    ((rin + in) * BPS - in * fee) * (rout - out) >= rin * rout * BPS

(* No leg of an opportunity asks a pair for more than it accepts to pay on  *)
(* chain, whatever goes in, and the input GetAmountInV2 asks for an output *)
(* is one the pair accepts for it.                                         *)
PairsAccept ==
    Done("search") =>
        \A i \in DOMAIN job.legs, in \in Low..High :
            LET leg == job.legs[i]
                out == GetAmountOutV2(in, leg.rin, leg.rout, leg.fee)
            IN  /\ PairAccepts(in, out, leg.rin, leg.rout, leg.fee)
                /\ PairAccepts(GetAmountInV2(out, leg.rin, leg.rout, leg.fee), out,
                               leg.rin, leg.rout, leg.fee)

(* The inputs that may pay: no more comes out than the second pool holds.  *)
Payable(j) == 1..j.legs[2].rout

(* An input gains more than the result does, by more than the steps that   *)
(* the two roundings make in the profit.                                   *)
Beats(in) ==
    LET gain  == IF result = 0 THEN 0 ELSE Gain(job, result)
        slack == IF RateTop(job) <= RateBottom(job) THEN 0
                 ELSE RateTop(job) \div RateBottom(job) + 1 + 2 * Rounding(job)
    IN  Gain(job, in) > gain + slack

(* When the quick check says there is no arbitrage, no input makes a       *)
(* profit.  Otherwise no input beats the result, but for one reason: it    *)
(* lies above the bound of the search, which has then ended at that bound, *)
(* or found no profit there (uniswapv2.go:75).                             *)
OptimalNearBest ==
    Done("optimal") =>
        \A in \in Payable(job) :
            Beats(in) => /\ in > Upper(job)
                         /\ result \in {0} \cup (Upper(job) - 1)..Upper(job)

(* "finds the optimal input amount for cross-DEX arbitrage between two     *)
(* constant product pools" (uniswapv2.go:48): no input beats the result.   *)
(* It does not hold, as the bound of the search is half the smaller of two *)
(* reserves of different tokens.                                           *)
OptimalOfAll == Done("optimal") => \A in \in Payable(job) : ~Beats(in)

(* The sign of D^3 + (2A - 1) * 4xy * D - 2A * 4xy * (x + y), whose root   *)
(* is the D of the balances x and y.                                       *)
BelowD(dd, bx, by, amp) ==
    dd * dd * dd + (2 * amp - 1) * 4 * bx * by * dd <= 2 * amp * 4 * bx * by * (bx + by)

(* Newton's method ends for every pool with an amplification above 1, and  *)
(* D is the root, up to the rounding; a swap pays less than the pool has   *)
(* and does not lower D by more than that rounding.                        *)
CurveKept ==
    job.kind = "curve" /\ job.amp > 1 /\ job.x > 0 =>
        /\ pc # "failed"
        /\ pc = "done" => /\ BelowD(d - 2, job.x, job.y, job.amp)
                          /\ ~BelowD(d + 2, job.x, job.y, job.amp)
                          /\ result < job.y
                          /\ BelowD(d - 2, job.x + job.dx, job.y - result, job.amp)

(* A V3 quote against the exact formula.  From token 1 to token 0 every    *)
(* rounding favours the pool.  From token 0 to token 1 the rounded-down    *)
(* new price favours the trader: the quote may exceed what the pool pays,  *)
(* by at most one unit of the square-root price times the liquidity.       *)
V3Bounded ==
    Done("v3") =>
        LET net  == MulDiv(job.dx, BPS - job.fee, BPS)
            down == (job.l * net * job.p * job.p) \div (Q96 * (job.l * Q96 + net * job.p))
            up   == (job.l * Q96 * net * Q96) \div (job.p * (job.p * job.l + net * Q96))
        IN  IF job.zeroForOne
              THEN result \in down..(down + 1 + job.l \div Q96)
              ELSE result \in (up - 1 - (job.l * Q96) \div (job.p * job.p))..up
=============================================================================
