-------------------------------- MODULE Trade --------------------------------
(***************************************************************************)
(* One coin from its launch to its migration: the bot creates the curve    *)
(* and buys in the same transaction (pumpfun/quote.rs), its wallets buy    *)
(* for an exact sum and sell at any price, and users of the SDK fetch the  *)
(* curve, quote, and send an order with a limit that lands later, between  *)
(* the trades of others.  The program that executes trades is not in the   *)
(* repository; it is modelled from the quotes the SDK and the IDL promise. *)
(***************************************************************************)
EXTENDS PumpCurve, FiniteSets

CONSTANTS
    Users,      \* of the SDK
    Globals,    \* the contents the global account may have
    tiers,      \* the fee configuration, << >> for none
    Supply,     \* tokenTotalSupply of a new coin
    SolAmounts, \* lamports of a buy
    TokenAmounts,
    Slippages,  \* in tenths of a percent, Math.floor(slippage * 10)
    MaxTrades   \* bound: trades that change the curve

(* Reserves are positive, and some tokens stay behind for the migration.   *)
ASSUME GlobalsAssumption ==
    /\ ONE_BILLION_SUPPLY \in Nat /\ Supply \in Nat /\ MaxTrades \in Nat
    /\ \A g \in Globals :
         /\ g.vT \in Nat /\ g.vS \in Nat \ {0} /\ g.rT \in Nat \ {0}
         /\ g.rT < g.vT
         /\ g.mayhem \in BOOLEAN /\ g.protocol \in Nat /\ g.creator \in Nat
    /\ tiers \in Seq([threshold : Nat, protocol : Nat, creator : Nat])
    /\ \A f \in {tiers[i] : i \in DOMAIN tiers} \cup Globals :
         f.protocol + f.creator <= Bps
    /\ SolAmounts \subseteq Nat \ {0}
    /\ TokenAmounts \subseteq Nat \ {0}
    /\ Slippages \subseteq Nat

(* quote.rs:33-41: the program charges a new curve what the code fixes.    *)
ASSUME LaunchFeesAssumption ==
    \A g \in Globals :
        LET f == computeFeesBps(g, tiers,
                    IF g.mayhem THEN Supply ELSE ONE_BILLION_SUPPLY,
                    newBondingCurve(g))
        IN  /\ f.protocol \in 0 .. PROTOCOL_FEE_BPS
            /\ f.creator \in 0 .. CREATOR_FEE_BPS

VARIABLES
    global, \* the program's account of initial reserves and flat fees
    cached, \* what the bot read of it when it started
    curve,  \* the bonding curve, all zero before the launch and once migrated
    born,   \* history: the global account the curve was created from
    supply, \* of the mint: holders may burn
    launch, \* history: the fate of the launch, and whether cached was current
    order,  \* per user: the transaction that has not landed
    trades

vars == << global, cached, curve, born, supply, launch, order, trades >>

NoCurve == [vT |-> 0, vS |-> 0, rT |-> 0, rS |-> 0,
            creator |-> FALSE, mayhem |-> FALSE, complete |-> FALSE]
NoLaunch == [fate |-> "none", fresh |-> FALSE, quoted |-> 0, got |-> 0]
NoOrder == [kind |-> "none"]

Live == launch.fate = "landed" /\ ~curve.complete

Init ==
    /\ global \in Globals
    /\ cached = global
    /\ curve = NoCurve
    /\ born = global
    /\ supply = Supply
    /\ launch = NoLaunch
    /\ order = [u \in Users |-> NoOrder]
    /\ trades = 0

------------------------------------------------------------------------------
(* The program's side.                                                     *)

(* A curve after n tokens were sold for sol lamports, and after n came back. *)
Sold(c, n, sol) ==
    [c EXCEPT !.vT = @ - n, !.vS = @ + sol, !.rT = @ - n, !.rS = @ + sol,
              !.complete = (c.rT = n)]
Returned(c, n, sol) ==
    [c EXCEPT !.vT = @ + n, !.vS = @ - sol, !.rT = @ + n, !.rS = @ - sol]

(* buy: at most what is left, refused above the limit (TooMuchSolRequired). *)
BuyCost(g, c, s, n) == getBuySolAmountFromTokenAmount(g, tiers, s, c, n, FALSE)
Bought(c, n) ==
    LET m == Least(n, c.rT) IN Sold(c, m, BuySolQuote(m, c.vT, c.vS))

(* buyExactSolIn: the budget less the fees, and less the overshoot of      *)
(* rounding both fees up.                                                  *)
ExactNet(g, c, s, budget) ==
    LET f == computeFeesBps(g, tiers,
                            IF c.mayhem THEN s ELSE ONE_BILLION_SUPPLY, c)
        cr == creatorBps(f, c, FALSE)
        net == (budget * Bps) \div (Bps + f.protocol + cr)
        over == net + fee(net, f.protocol) + fee(net, cr) - budget
    IN  IF over > 0 THEN net - over ELSE net

CreatedFrom(g) == [newBondingCurve(g) EXCEPT !.creator = TRUE]

------------------------------------------------------------------------------
(* The bot: create_v2 and buy in one transaction, priced when the bot      *)
(* started.  A refused buy takes the creation with it.                     *)
Launch(sol) ==
    LET n == amount_tokens(sol, cached.vT, cached.vS)
        c == CreatedFrom(global)
        lands == n > 0 /\ BuyCost(global, c, Supply, n) <= sol
    IN  /\ launch.fate = "none"
        /\ launch' = [fate |-> IF lands THEN "landed" ELSE "refused",
                      fresh |-> cached = global,
                      quoted |-> n, got |-> Least(n, c.rT)]
        /\ curve' = IF lands THEN Bought(c, n) ELSE curve
        /\ born' = IF lands THEN global ELSE born
        /\ UNCHANGED << global, cached, supply, order, trades >>

(* The wallets' buys, with min_tokens_out = 0, *)
WalletBuy(sol) ==
    LET net == ExactNet(global, curve, supply, sol)
        n == Least(BuyTokenQuote(net - 1, curve.vT, curve.vS), curve.rT)
    IN  /\ Live /\ trades < MaxTrades
        /\ net \in Nat \ {0} /\ n > 0
        /\ curve' = Sold(curve, n, net)
        /\ trades' = trades + 1
        /\ UNCHANGED << global, cached, born, supply, launch, order >>

(* and sells, of the dev and the wallets, with min_sol_output = 0.         *)
Sell(n) ==
    /\ Live /\ trades < MaxTrades
    /\ n \in 1 .. born.rT - curve.rT
    /\ getSellSolAmountFromTokenAmount(global, tiers, supply, curve, n) >= 0
    /\ curve' = Returned(curve, n, SellSolQuote(n, curve.vT, curve.vS))
    /\ trades' = trades + 1
    /\ UNCHANGED << global, cached, born, supply, launch, order >>

------------------------------------------------------------------------------
(* Users of the SDK: fetchBuyState or fetchSellState, a quote and the      *)
(* limit of buyInstruction or sellInstructions.                            *)
maxSolCost(sol, slippage) == sol + (sol * slippage) \div 1000
minSolOutput(sol, slippage) == sol - (sol * slippage) \div 1000

Place(u, kind, n, limit, room) ==
    /\ order[u] = NoOrder
    /\ Live /\ n \in Nat \ {0}
    /\ order' = [order EXCEPT ![u] =
                    [kind |-> kind, n |-> n, limit |-> limit, room |-> room,
                     c |-> curve, g |-> global, s |-> supply]]
    /\ UNCHANGED << global, cached, curve, born, supply, launch, trades >>

(* Spend sol lamports: the tokens are quoted. *)
PlaceBuyForSol(u, sol, slippage) ==
    Place(u, "buy",
          getBuyTokenAmountFromSolAmount(global, tiers, supply, curve, sol, FALSE),
          maxSolCost(sol, slippage), (sol * slippage) \div 1000)

(* Buy n tokens: the price is quoted. *)
PlaceBuyOfTokens(u, n, slippage) ==
    LET sol == getBuySolAmountFromTokenAmount(global, tiers, supply, curve, n, FALSE)
    IN  Place(u, "buy", n, maxSolCost(sol, slippage), (sol * slippage) \div 1000)

PlaceSell(u, n, slippage) ==
    LET sol == getSellSolAmountFromTokenAmount(global, tiers, supply, curve, n)
    IN  /\ n <= born.rT - curve.rT
        /\ Place(u, "sell", n, minSolOutput(sol, slippage),
                 (sol * slippage) \div 1000)

(* What the program answers to an order. *)
Acceptable(o, g, c, s) ==
    /\ ~c.complete
    /\ \/ /\ o.kind = "buy"
          /\ BuyCost(g, c, s, o.n) <= o.limit
       \/ /\ o.kind = "sell"
          /\ getSellSolAmountFromTokenAmount(g, tiers, s, c, o.n) >= o.limit

Lands(u) ==
    LET o == order[u] IN
    /\ o # NoOrder /\ trades < MaxTrades
    /\ Acceptable(o, global, curve, supply)
    /\ o.kind = "sell" => o.n <= born.rT - curve.rT
    /\ curve' = IF o.kind = "buy" THEN Bought(curve, o.n)
                ELSE Returned(curve, o.n, SellSolQuote(o.n, curve.vT, curve.vS))
    /\ order' = [order EXCEPT ![u] = NoOrder]
    /\ trades' = trades + 1
    /\ UNCHANGED << global, cached, born, supply, launch >>

Refused(u) ==
    /\ order[u] # NoOrder
    /\ ~Acceptable(order[u], global, curve, supply)
    /\ order' = [order EXCEPT ![u] = NoOrder]
    /\ UNCHANGED << global, cached, curve, born, supply, launch, trades >>

------------------------------------------------------------------------------
(* The rest of the world. *)

(* The pump admins may change the reserves of coins to come. *)
SetParams(g) ==
    /\ g # global
    /\ launch.fate = "none"
    /\ global' = g
    /\ UNCHANGED << cached, curve, born, supply, launch, order, trades >>

(* A holder burns tokens: the curve does not see it, its market cap does.  *)
Burn(n) ==
    /\ Live
    /\ supply = Supply
    /\ n <= born.rT - curve.rT
    /\ supply' = supply - n
    /\ UNCHANGED << global, cached, curve, born, launch, order, trades >>

(* A complete curve is emptied into the AMM pool. *)
Migrate ==
    /\ curve.complete /\ curve.vT > 0
    /\ curve' = [curve EXCEPT !.vT = 0, !.vS = 0, !.rT = 0, !.rS = 0]
    /\ UNCHANGED << global, cached, born, supply, launch, order, trades >>

Next ==
    \/ \E sol \in SolAmounts : Launch(sol) \/ WalletBuy(sol)
    \/ \E n \in TokenAmounts : Sell(n) \/ Burn(n)
    \/ \E u \in Users, s \in Slippages :
         \/ \E sol \in SolAmounts : PlaceBuyForSol(u, sol, s)
         \/ \E n \in TokenAmounts : PlaceBuyOfTokens(u, n, s) \/ PlaceSell(u, n, s)
    \/ \E u \in Users : Lands(u) \/ Refused(u)
    \/ \E g \in Globals : SetParams(g)
    \/ Migrate

Spec == Init /\ [][Next]_vars

------------------------------------------------------------------------------
(* Outside the launch and the migration, the reserves only make sense      *)
(* together: the virtual ones are the real ones plus what was never real.  *)
TypeOK ==
    /\ global \in Globals /\ cached \in Globals /\ born \in Globals
    /\ curve \in [vT : Nat, vS : Nat, rT : Nat, rS : Nat,
                  creator : BOOLEAN, mayhem : BOOLEAN, complete : BOOLEAN]
    /\ supply \in Int
    /\ launch \in [fate : {"none", "landed", "refused"}, fresh : BOOLEAN,
                   quoted : Nat, got : Nat]
    /\ launch.fate = "landed" /\ curve.vT > 0 =>
         /\ curve.vS = born.vS + curve.rS
         /\ born.vT - curve.vT = born.rT - curve.rT
         /\ curve.rT = 0 <=> curve.complete

(* The launch buy is priced minutes before it lands and has no slippage,   *)
(* yet the program never charges more than the lamports it allows, so the  *)
(* transaction is only refused when the global account changed after the   *)
(* bot had read it, or when the budget buys nothing (quote.rs, launch.rs). *)
LaunchBuyLands ==
    launch.fate = "refused" => ~launch.fresh \/ launch.quoted = 0

(* Whatever is bought, sold and burned in whatever order, the lamports in  *)
(* the curve pay for every token outside it (the quotes of bondingCurve.ts *)
(* round against the trader).                                              *)
Solvent ==
    Live => SellSolQuote(born.rT - curve.rT, curve.vT, curve.vS) <= curve.rS

(* The budget quote and the program look up the same tier. *)
SameTier(o) ==
    o.s = ONE_BILLION_SUPPLY \/ o.c.mayhem \/ tiers = << >>
        \/ calculateFeeTier(tiers, bondingCurveMarketCap(o.s, o.c))
         = calculateFeeTier(tiers, bondingCurveMarketCap(ONE_BILLION_SUPPLY, o.c))

(* A quote is good while nobody else trades: an order that lands on the    *)
(* curve it was priced on, with two lamports of slippage, is accepted: the *)
(* budget quote takes the fees off at once, and the program rounds the     *)
(* cost and each fee up.  The exception is a supply that was burned across *)
(* a tier, because the budget quote looks the tier up with the supply and  *)
(* getFee does not (fees.ts, sdk.ts).                                      *)
FreshQuotesLand ==
    \A u \in Users :
        LET o == order[u] IN
        o # NoOrder /\ o.room >= 2 /\ SameTier(o)
            => Acceptable(o, o.g, o.c, o.s)

(* No trade lowers the product of the virtual reserves, so no sequence of  *)
(* buys and sells takes lamports out of the curve that were not put in     *)
(* (bondingCurve.ts: every quote is rounded in favour of the curve).       *)
ProductNeverFalls ==
    [][Live /\ curve'.vT > 0 => curve'.vT * curve'.vS >= curve.vT * curve.vS]_vars

==============================================================================
