------------------------------ MODULE PumpCurve ------------------------------
(***************************************************************************)
(* The arithmetic of the bonding curve, without state: the quotes and fees *)
(* of the vendored SDK (docs/pump-sdk/src/bondingCurve.ts and fees.ts) and *)
(* the launch quote of the bot (pumpfun/quote.rs).  Amounts are naturals:  *)
(* bn.js does not wrap, and quote.rs widens to u128.                       *)
(***************************************************************************)
EXTENDS Integers, Sequences

CONSTANT ONE_BILLION_SUPPLY \* the supply a tier is looked up with (fees.ts)

Bps == 10000                \* basis points in a whole

Least(a, b) == IF a <= b THEN a ELSE b

ceilDiv(a, b) == (a + b - 1) \div b

fee(amount, bps) == ceilDiv(amount * bps, Bps)

------------------------------------------------------------------------------
(***************************************************************************)
(* A curve is [vT, vS, rT, rS, creator, mayhem, complete]: the virtual and *)
(* real reserves of tokens and lamports, whether a creator is set, whether *)
(* the coin is in mayhem mode, and whether all tokens are sold.  A global  *)
(* account g holds the initial reserves and the flat fees.                 *)
(***************************************************************************)
newBondingCurve_AllReal(g) ==
    [vT |-> g.vT, vS |-> g.vS, rT |-> g.vT, rS |-> 0,
     creator |-> FALSE, mayhem |-> g.mayhem, complete |-> FALSE]

newBondingCurve(g) ==
    [vT |-> g.vT, vS |-> g.vS, rT |-> g.rT, rS |-> 0,
     creator |-> FALSE, mayhem |-> g.mayhem, complete |-> FALSE]

BuySolQuote_Floor(tokens, vT, vS) == (tokens * vS) \div (vT - tokens)

BuySolQuote(tokens, vT, vS) == (tokens * vS) \div (vT - tokens) + 1

BuyTokenQuote(sol, vT, vS) == (sol * vT) \div (vS + sol)

SellSolQuote_OldReserves(tokens, vT, vS) == (tokens * vS) \div vT

SellSolQuote(tokens, vT, vS) == (tokens * vS) \div (vT + tokens)

bondingCurveMarketCap(supply, c) == (c.vS * supply) \div c.vT

------------------------------------------------------------------------------
(* Tiers are ordered by threshold; the last one reached applies, the first *)
(* one when none is.                                                       *)
calculateFeeTier(tiers, cap) ==
    LET reached == {i \in DOMAIN tiers : cap >= tiers[i].threshold}
        last == IF reached = {} THEN 1
                ELSE CHOOSE i \in reached : \A j \in reached : j <= i
    IN  tiers[last]

(* Without a fee configuration (null, here no tiers) the flat fees apply.  *)
computeFeesBps(g, tiers, supply, c) ==
    IF tiers = << >> THEN [protocol |-> g.protocol, creator |-> g.creator]
    ELSE calculateFeeTier(tiers, bondingCurveMarketCap(supply, c))

creatorBps(f, c, isNew) == IF isNew \/ c.creator THEN f.creator ELSE 0

(* getFee looks the tier up with the supply at creation unless the coin is *)
(* in mayhem mode, and rounds the two fees up one by one.                  *)
getFee(g, tiers, supply, c, amount, isNew) ==
    LET f == computeFeesBps(g, tiers,
                            IF c.mayhem THEN supply ELSE ONE_BILLION_SUPPLY, c)
    IN  fee(amount, f.protocol) + fee(amount, creatorBps(f, c, isNew))

(* The budget less both fees, rounded down once: the tier is looked up     *)
(* with the supply of today.                                               *)
inputAmount_NoFee(g, tiers, supply, c, amount, isNew) ==
    LET f == computeFeesBps(g, tiers, supply, c)
    IN  ((amount - 1) * Bps) \div (f.protocol + Bps)

inputAmount(g, tiers, supply, c, amount, isNew) ==
    LET f == computeFeesBps(g, tiers, supply, c)
    IN  ((amount - 1) * Bps) \div (f.protocol + creatorBps(f, c, isNew) + Bps)

getBuyTokenAmountFromSolAmount(g, tiers, supply, c, amount, isNew) ==
    IF amount = 0 \/ c.vT = 0 THEN 0
    ELSE Least(BuyTokenQuote(inputAmount(g, tiers, supply, c, amount, isNew),
                             c.vT, c.vS),
               c.rT)

getBuySolAmountFromTokenAmount(g, tiers, supply, c, amount, isNew) ==
    IF amount = 0 \/ c.vT = 0 THEN 0
    ELSE LET cost == BuySolQuote(Least(amount, c.rT), c.vT, c.vS)
         IN  cost + getFee(g, tiers, supply, c, cost, isNew)

getSellSolAmountFromTokenAmount(g, tiers, supply, c, amount) ==
    IF amount = 0 \/ c.vT = 0 THEN 0
    ELSE LET out == SellSolQuote(amount, c.vT, c.vS)
         IN  out - getFee(g, tiers, supply, c, out, FALSE)

------------------------------------------------------------------------------
(* quote.rs: a buy of sol lamports in the transaction that creates the     *)
(* curve, under fees the code fixes.                                       *)
PROTOCOL_FEE_BPS == 95
CREATOR_FEE_BPS == 30

required(x) == x + fee(x, PROTOCOL_FEE_BPS) + fee(x, CREATOR_FEE_BPS)

net_sol_NoDecrement(sol) ==
    (sol * Bps) \div (Bps + PROTOCOL_FEE_BPS + CREATOR_FEE_BPS)

net_sol(sol) ==
    LET x == (sol * Bps) \div (Bps + PROTOCOL_FEE_BPS + CREATOR_FEE_BPS)
    IN  IF required(x) > sol THEN x - 1 ELSE x

amount_tokens(sol, vT, vS) ==
    IF net_sol(sol) = 0 \/ vT = 0 THEN 0
    ELSE BuyTokenQuote(net_sol(sol) - 1, vT, vS)

==============================================================================
