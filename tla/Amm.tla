--------------------------------- MODULE Amm ---------------------------------
(***************************************************************************)
(* The formulas of internal/math as functions of integers: what a pool     *)
(* pays for an input, what it asks for an output, and what is left of a    *)
(* profit.  big.Int does not overflow and its Div rounds down for positive *)
(* divisors, as \div does.                                                 *)
(***************************************************************************)
EXTENDS Integers, SequencesExt

CONSTANTS BPS,  \* basis points in the whole (10000)
          Q96   \* the denominator of a V3 square-root price (2^96)

ASSUME AmmAssumption == BPS \in Nat \ {0} /\ Q96 \in Nat \ {0}

(* A division by zero is answered with zero.                               *)
MulDiv(a, b, denom) == IF denom = 0 THEN 0 ELSE (a * b) \div denom

(* Mutant: the quotient is rounded up.                                     *)
GetAmountOutV2Up(amountIn, reserveIn, reserveOut, fee) ==
    IF amountIn <= 0 \/ reserveIn <= 0 \/ reserveOut <= 0 THEN 0
    ELSE LET withFee == amountIn * (BPS - fee)
         IN  (withFee * reserveOut) \div (reserveIn * BPS + withFee) + 1

GetAmountOutV2(amountIn, reserveIn, reserveOut, fee) ==
    IF amountIn <= 0 \/ reserveIn <= 0 \/ reserveOut <= 0 THEN 0
    ELSE LET withFee == amountIn * (BPS - fee)
         IN  (withFee * reserveOut) \div (reserveIn * BPS + withFee)

(* Zero when the pool cannot pay that much.                                *)
GetAmountInV2(amountOut, reserveIn, reserveOut, fee) ==
    IF amountOut <= 0 \/ reserveIn <= 0 \/ reserveOut <= amountOut THEN 0
    ELSE (reserveIn * amountOut * BPS)
            \div ((reserveOut - amountOut) * (BPS - fee)) + 1

(* Mutant: the fee is left with the trader.                                *)
GetAmountOutV3NoFee(amountIn, sqrtPrice, liquidity, zeroForOne, fee) ==
    LET lq96  == liquidity * Q96
        delta == MulDiv(amountIn, Q96, liquidity)
    IN  IF zeroForOne
        THEN MulDiv(liquidity,
                    sqrtPrice - (lq96 * sqrtPrice) \div (lq96 + amountIn * sqrtPrice),
                    Q96)
        ELSE (lq96 * delta) \div (sqrtPrice * (sqrtPrice + delta))

(* The new square-root price is rounded down, too.                         *)
GetAmountOutV3(amountIn, sqrtPrice, liquidity, zeroForOne, fee) ==
    LET net   == MulDiv(amountIn, BPS - fee, BPS)
        lq96  == liquidity * Q96
        delta == MulDiv(net, Q96, liquidity)
    IN  IF zeroForOne
        THEN MulDiv(liquidity,
                    sqrtPrice - (lq96 * sqrtPrice) \div (lq96 + net * sqrtPrice),
                    Q96)
        ELSE (lq96 * delta) \div (sqrtPrice * (sqrtPrice + delta))

(* What both legs of a trade bring: buying on pool A, selling on pool B.   *)
ProfitV2(amountIn, r0a, r1a, feeA, r0b, r1b, feeB) ==
    LET mid == GetAmountOutV2(amountIn, r0a, r1a, feeA)
    IN  IF mid <= 0 THEN 0
        ELSE GetAmountOutV2(mid, r0b, r1b, feeB) - amountIn

(* The flash loan costs 5 basis points, rounded down.                      *)
NetProfit(gross, gasCost, principal) ==
    gross - gasCost - IF principal > 0 THEN MulDiv(principal, 5, BPS) ELSE 0

IsProfitable(net, minProfit) == net > minProfit
=============================================================================
