---------------------------- MODULE Trade_proofs ----------------------------
(***************************************************************************)
(* The curve of Trade pays for every token it sold, its product never      *)
(* falls, the launch buy is never refused for its price, and an order      *)
(* lands on the curve it was quoted on: for all reserves, fees, amounts    *)
(* and users.  The lemmas about the quotes come first; each is one         *)
(* inequality between products.                                            *)
(***************************************************************************)
EXTENDS Trade, WellFoundedInduction, TLAPS

(* The quotient of naturals. *)
LEMMA DivBounds ==
    ASSUME NEW a \in Nat, NEW b \in Nat \ {0}
    PROVE  /\ a \div b \in Nat
           /\ (a \div b) * b <= a
           /\ a < (a \div b) * b + b
  BY SMT

(* A product grows with its factors. *)
LEMMA Products ==
    ASSUME NEW a \in Nat, NEW b \in Nat, NEW c \in Nat, NEW d \in Nat, a <= c, b <= d
    PROVE  /\ a * b \in Nat /\ c * d \in Nat
           /\ a * b <= c * d
  <1>1. a * b \in Nat /\ c * b \in Nat /\ c * d \in Nat
    BY SMT
  <1>2. a * b <= c * b
    BY SMT
  <1>3. c * b <= c * d
    BY SMT
  <1> QED
    BY <1>1, <1>2, <1>3

(* A quotient is at most q when the dividend is at most q divisors, *)
LEMMA DivAtMost ==
    ASSUME NEW a \in Nat, NEW b \in Nat \ {0}, NEW q \in Nat, a <= q * b
    PROVE  a \div b \in Nat /\ a \div b <= q
  <1> DEFINE d == a \div b
  <1>1. d \in Nat /\ d * b <= a
    BY DivBounds
  <1> HIDE DEF d
  <1>2. SUFFICES ASSUME d >= q + 1 PROVE FALSE
    BY <1>1 DEF d
  <1>3. d * b >= (q + 1) * b
    BY <1>1, <1>2, Products
  <1>4. (q + 1) * b = q * b + b
    BY SMT
  <1> QED
    BY <1>1, <1>3, <1>4

(* and at least q when the dividend is. *)
LEMMA DivAtLeast ==
    ASSUME NEW a \in Nat, NEW b \in Nat \ {0}, NEW q \in Nat, q * b <= a
    PROVE  q <= a \div b
  <1> DEFINE d == a \div b
  <1>1. d \in Nat /\ a < d * b + b
    BY DivBounds
  <1> HIDE DEF d
  <1>2. SUFFICES ASSUME d + 1 <= q PROVE FALSE
    BY <1>1 DEF d
  <1>3. (d + 1) * b <= q * b
    BY <1>1, <1>2, Products
  <1>4. (d + 1) * b = d * b + b
    BY <1>1
  <1> QED
    BY <1>1, <1>3, <1>4

(* Fees are naturals and grow with the amount and the rate. *)
LEMMA FeeGrows ==
    ASSUME NEW a \in Nat, NEW b \in Nat, NEW p \in Nat, NEW q \in Nat, a <= b, p <= q
    PROVE  fee(a, p) \in Nat /\ fee(b, q) \in Nat /\ fee(a, p) <= fee(b, q)
  <1>1. a * p \in Nat /\ b * q \in Nat /\ a * p <= b * q
    BY Products
  <1> DEFINE x == a * p  y == b * q
  <1> HIDE DEF x, y
  <1>2. (x + 9999) \div 10000 <= (y + 9999) \div 10000
    BY <1>1 DEF x, y
  <1> QED
    BY <1>1, <1>2 DEF fee, ceilDiv, Bps, x, y

LEMMA FeeIsNat ==
    ASSUME NEW a \in Nat, NEW p \in Nat
    PROVE  fee(a, p) \in Nat
  <1>1. a <= a /\ p <= p
    OBVIOUS
  <1> QED
    BY <1>1, FeeGrows

------------------------------------------------------------------------------
(* BuySolQuote pays for the tokens that leave, *)
LEMMA BuyCovers ==
    ASSUME NEW n \in Nat, NEW vT \in Nat, NEW vS \in Nat, n < vT
    PROVE  /\ BuySolQuote(n, vT, vS) \in Nat \ {0}
           /\ n * vS <= BuySolQuote(n, vT, vS) * (vT - n)
  <1> DEFINE d == vT - n  a == n * vS  q == a \div d
  <1>1. d \in Nat \ {0} /\ a \in Nat
    BY Products
  <1>2. q \in Nat /\ a < q * d + d
    BY <1>1, DivBounds
  <1> HIDE DEF q, a, d
  <1>3. (q + 1) * d = q * d + d
    BY <1>1, <1>2
  <1>4. BuySolQuote(n, vT, vS) = q + 1
    BY DEF BuySolQuote, q, a, d
  <1>5. BuySolQuote(n, vT, vS) \in Nat \ {0} /\ a <= BuySolQuote(n, vT, vS) * d
    BY <1>1, <1>2, <1>3, <1>4
  <1> QED
    BY <1>5 DEF a, d

(* and costs at most one lamport more than what BuyTokenQuote was given.   *)
LEMMA BuyCostAtMost ==
    ASSUME NEW x \in Nat, NEW vT \in Nat, NEW vS \in Nat \ {0},
           NEW n \in Nat, n < vT, n <= BuyTokenQuote(x, vT, vS)
    PROVE  BuySolQuote(n, vT, vS) <= x + 1
  <1> DEFINE k == BuyTokenQuote(x, vT, vS)
  <1>1. x * vT \in Nat /\ vS + x \in Nat \ {0}
    BY Products
  <1>2. k \in Nat /\ k * (vS + x) <= x * vT
    BY <1>1, DivBounds DEF BuyTokenQuote
  <1>3. n * (vS + x) <= x * vT
    <2>1. n * (vS + x) <= k * (vS + x)
      BY <1>1, <1>2, Products
    <2> HIDE DEF k
    <2>2. n * (vS + x) \in Nat /\ k * (vS + x) \in Nat
      BY <1>1, <1>2, Products
    <2> QED
      BY <1>1, <1>2, <2>1, <2>2
  <1>4. n * (vS + x) = n * vS + n * x /\ x * (vT - n) = x * vT - x * n /\ n * x = x * n
    BY SMT
  <1>5. n * vS <= x * (vT - n)
    <2>1. n * vS \in Nat /\ n * x \in Nat
      BY Products
    <2> QED
      BY <1>1, <1>3, <1>4, <2>1
  <1>6. (n * vS) \div (vT - n) \in Nat /\ (n * vS) \div (vT - n) <= x
    <2> DEFINE a == n * vS  d == vT - n
    <2>1. a \in Nat /\ d \in Nat \ {0} /\ a <= x * d
      BY <1>5, Products
    <2> HIDE DEF a, d
    <2>2. a \div d \in Nat /\ a \div d <= x
      BY <2>1, DivAtMost
    <2> QED
      BY <2>2 DEF a, d
  <1> QED
    BY <1>6 DEF BuySolQuote

(* A sale leaves the product of the reserves no smaller. *)
LEMMA SaleKeepsProduct ==
    ASSUME NEW vT \in Nat, NEW vS \in Nat, NEW n \in Nat, n <= vT, NEW s \in Nat,
           n * vS <= s * (vT - n)
    PROVE  vT * vS <= (vT - n) * (vS + s)
  <1>1. (vT - n) * (vS + s) = vT * vS - n * vS + s * (vT - n)
    BY SMT
  <1>2. vT * vS \in Nat /\ n * vS \in Nat /\ s * (vT - n) \in Nat
    BY Products
  <1> QED
    BY <1>1, <1>2

(* Neither does a return at the quoted price. *)
LEMMA ReturnKeepsProduct ==
    ASSUME NEW vT \in Nat, NEW vS \in Nat, NEW n \in Nat \ {0}
    PROVE  /\ SellSolQuote(n, vT, vS) \in Nat
           /\ vT * vS <= (vT + n) * (vS - SellSolQuote(n, vT, vS))
  <1> DEFINE a == n * vS  d == vT + n  q == a \div d
  <1>1. a \in Nat /\ d \in Nat \ {0}
    BY Products
  <1>2. q \in Nat /\ q * d <= a
    BY <1>1, DivBounds
  <1> HIDE DEF q
  <1>3. (vT + n) * (vS - q) = vT * vS + n * vS - q * (vT + n)
    BY <1>2
  <1>4. vT * vS \in Nat /\ q * d \in Nat
    BY <1>1, <1>2, Products
  <1>5. SellSolQuote(n, vT, vS) = q
    BY DEF SellSolQuote, q
  <1> QED
    BY <1>1, <1>2, <1>3, <1>4, <1>5


------------------------------------------------------------------------------
(***************************************************************************)
(* What the trades keep of a curve c created from b: the virtual reserves  *)
(* are the real ones plus what was never real, the curve is complete when  *)
(* nothing real is left, and the product is at least what it was at birth. *)
(***************************************************************************)
Curves == [vT : Nat, vS : Nat, rT : Nat, rS : Nat,
           creator : BOOLEAN, mayhem : BOOLEAN, complete : BOOLEAN]

Book(c, b) ==
    /\ c \in Curves
    /\ c.vS = b.vS + c.rS
    /\ b.vT - c.vT = b.rT - c.rT
    /\ c.rT <= b.rT
    /\ c.rT = 0 <=> c.complete
    /\ b.vT * b.vS <= c.vT * c.vS

(* The price s pays for n tokens of c. *)
Covers(s, n, c) == n * c.vS <= s * (c.vT - n)

(* The sums that tokens leaving or coming back keep. *)
LEMMA Moves ==
    ASSUME NEW bT \in Nat, NEW bS \in Nat, NEW bR \in Nat,
           NEW vT \in Nat, NEW vS \in Nat, NEW rT \in Nat, NEW rS \in Nat,
           vS = bS + rS, bT - vT = bR - rT, rT <= bR,
           NEW n \in Nat \ {0}, NEW s \in Nat
    PROVE  /\ n <= rT =>
                /\ vS + s = bS + (rS + s) /\ bT - (vT - n) = bR - (rT - n)
                /\ rT - n <= bR
                /\ rT - n = 0 <=> rT = n
           /\ s <= rS /\ n <= bR - rT =>
                /\ vS - s = bS + (rS - s) /\ bT - (vT + n) = bR - (rT + n)
                /\ rT + n <= bR /\ rT + n # 0
  BY SMT

(* The launch starts with the books in order. *)
LEMMA NewCurve ==
    ASSUME NEW g \in Globals
    PROVE  /\ Book(CreatedFrom(g), g)
           /\ CreatedFrom(g).vT = g.vT /\ CreatedFrom(g).vS = g.vS
           /\ CreatedFrom(g).rT = g.rT /\ CreatedFrom(g).mayhem = g.mayhem
           /\ CreatedFrom(g).creator /\ ~CreatedFrom(g).complete
  <1> DEFINE c == CreatedFrom(g)
  <1>1. c = [vT |-> g.vT, vS |-> g.vS, rT |-> g.rT, rS |-> 0,
             creator |-> TRUE, mayhem |-> g.mayhem, complete |-> FALSE]
    <2> DEFINE r == [vT |-> g.vT, vS |-> g.vS, rT |-> g.rT, rS |-> 0,
                     creator |-> FALSE, mayhem |-> g.mayhem, complete |-> FALSE]
    <2>1. newBondingCurve(g) = r
      BY DEF newBondingCurve
    <2>2. c = [r EXCEPT !.creator = TRUE]
      BY <2>1, Zenon DEF CreatedFrom
    <2> QED
      BY <2>2
  <1>2. /\ g.vT \in Nat /\ g.vS \in Nat \ {0} /\ g.rT \in Nat \ {0}
        /\ g.mayhem \in BOOLEAN
    BY GlobalsAssumption
  <1>3. g.vT * g.vS \in Nat
    BY <1>2, Products
  <1> HIDE DEF c
  <1>4. Book(c, g)
    BY <1>1, <1>2, <1>3 DEF Book, Curves
  <1> QED
    BY <1>1, <1>4 DEF c

(* Selling at least at the quoted price keeps them in order, *)
LEMMA SoldKeepsBook ==
    ASSUME NEW b \in Globals, NEW c, Book(c, b),
           NEW n \in Nat \ {0}, n <= c.rT, NEW s \in Nat, Covers(s, n, c)
    PROVE  /\ Book(Sold(c, n, s), b)
           /\ c.vT * c.vS <= Sold(c, n, s).vT * Sold(c, n, s).vS
  <1> DEFINE d == Sold(c, n, s)
  <1>1. /\ c \in Curves /\ c.vS = b.vS + c.rS /\ b.vT - c.vT = b.rT - c.rT
        /\ c.rT <= b.rT
    BY DEF Book
  <1>2. b.vT \in Nat /\ b.vS \in Nat /\ b.rT \in Nat /\ b.rT < b.vT
    BY GlobalsAssumption
  <1>3. /\ c.vT \in Nat /\ c.vS \in Nat /\ c.rT \in Nat /\ c.rS \in Nat
        /\ n <= c.vT
    BY <1>1, <1>2 DEF Curves
  <1>4. /\ d = [c EXCEPT !.vT = c.vT - n, !.vS = c.vS + s, !.rT = c.rT - n,
                         !.rS = c.rS + s, !.complete = (c.rT = n)]
    BY DEF Sold
  <1> HIDE DEF d
  <1>5. /\ d \in Curves /\ d.vT = c.vT - n /\ d.vS = c.vS + s /\ d.rT = c.rT - n
        /\ d.rS = c.rS + s /\ d.complete = (c.rT = n)
    <2>1. /\ c.vT - n \in Nat /\ c.vS + s \in Nat /\ c.rT - n \in Nat
          /\ c.rS + s \in Nat /\ (c.rT = n) \in BOOLEAN
      BY <1>3
    <2>2. c \in Curves
      BY <1>1
    <2> QED
      BY <2>1, <2>2, <1>4, Zenon DEF Curves
  <1>6. c.vT * c.vS <= d.vT * d.vS
    BY <1>3, <1>5, SaleKeepsProduct DEF Covers
  <1>7. /\ b.vT * b.vS \in Nat /\ c.vT * c.vS \in Nat /\ d.vT * d.vS \in Nat
    BY <1>2, <1>3, <1>5, Products DEF Curves
  <1>8. b.vT * b.vS <= d.vT * d.vS
    BY <1>6, <1>7 DEF Book
  <1>9. d.vS = b.vS + d.rS /\ b.vT - d.vT = b.rT - d.rT /\ d.rT <= b.rT
    <2>1. /\ c.vS + s = b.vS + (c.rS + s) /\ b.vT - (c.vT - n) = b.rT - (c.rT - n)
          /\ c.rT - n <= b.rT
      BY <1>1, <1>2, <1>3, Moves
    <2> QED
      BY <1>5, <2>1, Zenon
  <1>10. d.rT = 0 <=> d.complete
    <2>1. c.rT - n = 0 <=> c.rT = n
      BY <1>3
    <2> QED
      BY <1>5, <2>1, Zenon
  <1> QED
    BY <1>5, <1>6, <1>8, <1>9, <1>10 DEF Book, d

(* The lamports in the curve pay for n tokens, if no more than that were   *)
(* sold.                                                                   *)
LEMMA BookIsSolvent ==
    ASSUME NEW b \in Globals, NEW c, Book(c, b), ~c.complete,
           NEW n \in Nat, n <= b.rT - c.rT
    PROVE  /\ c.vT \in Nat \ {0}
           /\ SellSolQuote(n, c.vT, c.vS) \in Nat
           /\ SellSolQuote(n, c.vT, c.vS) <= c.rS
  <1>1. /\ c \in Curves /\ c.vS = b.vS + c.rS /\ b.vT - c.vT = b.rT - c.rT
        /\ c.rT <= b.rT /\ b.vT * b.vS <= c.vT * c.vS
    BY DEF Book
  <1>2. b.vT \in Nat /\ b.vS \in Nat /\ b.rT \in Nat /\ b.rT < b.vT
    BY GlobalsAssumption
  <1>3. c.vT \in Nat \ {0} /\ c.vS \in Nat /\ c.rT \in Nat /\ c.rS \in Nat
    BY <1>1, <1>2 DEF Curves
  <1> DEFINE h == b.vT - c.vT
  <1>4. h \in Nat /\ n <= h
    BY <1>1, <1>2, <1>3
  <1>5. h * b.vS <= c.rS * c.vT
    <2>1. b.vT * b.vS = c.vT * b.vS + h * b.vS
      BY <1>2, <1>3
    <2>2. c.vT * c.vS = c.vT * b.vS + c.rS * c.vT
      BY <1>1, <1>2, <1>3
    <2>3. /\ c.vT * b.vS \in Nat /\ h * b.vS \in Nat /\ c.rS * c.vT \in Nat
      BY <1>2, <1>3, <1>4, Products
    <2> HIDE DEF h
    <2> QED
      BY <1>1, <2>1, <2>2, <2>3
  <1> HIDE DEF h
  <1>6. /\ n * b.vS \in Nat /\ h * b.vS \in Nat /\ n * b.vS <= h * b.vS
        /\ c.rS * c.vT \in Nat /\ n * c.rS \in Nat /\ n * c.vS \in Nat
    BY <1>2, <1>3, <1>4, Products
  <1>7. n * c.vS = n * b.vS + n * c.rS /\ c.rS * (c.vT + n) = c.rS * c.vT + n * c.rS
    BY <1>1, <1>2, <1>3
  <1>8. n * c.vS <= c.rS * (c.vT + n)
    BY <1>5, <1>6, <1>7
  <1>9. c.vT + n \in Nat \ {0}
    BY <1>3
  <1> QED
    BY <1>3, <1>6, <1>8, <1>9, DivAtMost DEF SellSolQuote

(* and taking tokens back at the quoted price. *)
LEMMA ReturnedKeepsBook ==
    ASSUME NEW b \in Globals, NEW c, Book(c, b), ~c.complete,
           NEW n \in Nat \ {0}, n <= b.rT - c.rT
    PROVE  LET d == Returned(c, n, SellSolQuote(n, c.vT, c.vS))
           IN  /\ Book(d, b) /\ ~d.complete
               /\ c.vT * c.vS <= d.vT * d.vS
  <1> DEFINE s == SellSolQuote(n, c.vT, c.vS)
             d == Returned(c, n, s)
  <1>1. /\ c \in Curves /\ c.vS = b.vS + c.rS /\ b.vT - c.vT = b.rT - c.rT
        /\ c.rT <= b.rT /\ b.vT * b.vS <= c.vT * c.vS
        /\ c.rT # 0
    BY DEF Book
  <1>2. b.vT \in Nat /\ b.vS \in Nat /\ b.rT \in Nat /\ b.rT < b.vT
    BY GlobalsAssumption
  <1>3. /\ c.vT \in Nat /\ c.vS \in Nat /\ c.rT \in Nat /\ c.rS \in Nat
    BY <1>1 DEF Curves
  <1>4. s \in Nat /\ s <= c.rS
    BY BookIsSolvent
  <1>5. s \in Nat /\ c.vT * c.vS <= (c.vT + n) * (c.vS - s)
    BY <1>3, ReturnKeepsProduct
  <1> HIDE DEF s
  <1>6. d = [c EXCEPT !.vT = c.vT + n, !.vS = c.vS - s, !.rT = c.rT + n,
                      !.rS = c.rS - s]
    BY DEF Returned
  <1> HIDE DEF d
  <1>7. /\ d \in Curves /\ d.vT = c.vT + n /\ d.vS = c.vS - s /\ d.rT = c.rT + n
        /\ d.rS = c.rS - s /\ d.complete = c.complete
    <2>1. /\ c.vT + n \in Nat /\ c.vS - s \in Nat /\ c.rT + n \in Nat
          /\ c.rS - s \in Nat
      BY <1>1, <1>2, <1>3, <1>4
    <2>2. c \in Curves
      BY <1>1
    <2> QED
      BY <2>1, <2>2, <1>6, Zenon DEF Curves
  <1>8. c.vT * c.vS <= d.vT * d.vS
    BY <1>5, <1>7
  <1>9. /\ b.vT * b.vS \in Nat /\ c.vT * c.vS \in Nat /\ d.vT * d.vS \in Nat
    BY <1>2, <1>3, <1>7, Products DEF Curves
  <1>10. b.vT * b.vS <= d.vT * d.vS
    BY <1>1, <1>8, <1>9
  <1>11. /\ d.vS = b.vS + d.rS /\ b.vT - d.vT = b.rT - d.rT /\ d.rT <= b.rT
         /\ d.rT # 0
    <2>1. /\ c.vS - s = b.vS + (c.rS - s) /\ b.vT - (c.vT + n) = b.rT - (c.rT + n)
          /\ c.rT + n <= b.rT /\ c.rT + n # 0
      BY <1>1, <1>2, <1>3, <1>4, Moves
    <2> QED
      BY <1>7, <2>1, Zenon
  <1> QED
    BY <1>7, <1>8, <1>10, <1>11 DEF Book, d, s

------------------------------------------------------------------------------
(* A buy is bought at the quoted price, and not more than is left. *)
LEMMA BoughtKeepsBook ==
    ASSUME NEW b \in Globals, NEW c, Book(c, b), ~c.complete, NEW n \in Nat \ {0}
    PROVE  /\ Book(Bought(c, n), b)
           /\ c.vT * c.vS <= Bought(c, n).vT * Bought(c, n).vS
  <1> DEFINE m == Least(n, c.rT)
             s == BuySolQuote(m, c.vT, c.vS)
  <1>1. /\ c \in Curves /\ b.vT - c.vT = b.rT - c.rT /\ c.rT # 0
    BY DEF Book
  <1>2. b.vT \in Nat /\ b.rT \in Nat /\ b.rT < b.vT
    BY GlobalsAssumption
  <1>3. /\ c.vT \in Nat /\ c.vS \in Nat /\ c.rT \in Nat \ {0}
        /\ c.rT < c.vT
    BY <1>1, <1>2 DEF Curves
  <1>4. m \in Nat \ {0} /\ m <= c.rT /\ m < c.vT
    BY <1>3 DEF Least
  <1> HIDE DEF m
  <1>5. s \in Nat \ {0} /\ m * c.vS <= s * (c.vT - m)
    BY <1>3, <1>4, BuyCovers
  <1>6. Bought(c, n) = Sold(c, m, s)
    BY DEF Bought, m
  <1> HIDE DEF s
  <1> QED
    BY <1>4, <1>5, <1>6, SoldKeepsBook DEF Covers

(* So is the wallets' buy for a budget. *)
LEMMA ExactKeepsBook ==
    ASSUME NEW b \in Globals, NEW c, Book(c, b), ~c.complete,
           NEW net \in Nat \ {0}, NEW n, n = Least(BuyTokenQuote(net - 1, c.vT, c.vS), c.rT),
           n > 0
    PROVE  /\ Book(Sold(c, n, net), b)
           /\ c.vT * c.vS <= Sold(c, n, net).vT * Sold(c, n, net).vS
  <1> DEFINE k == BuyTokenQuote(net - 1, c.vT, c.vS)
             x == net - 1
  <1>1. /\ c \in Curves /\ b.vT - c.vT = b.rT - c.rT /\ c.vS = b.vS + c.rS
    BY DEF Book
  <1>2. b.vT \in Nat /\ b.rT \in Nat /\ b.rT < b.vT /\ b.vS \in Nat \ {0}
    BY GlobalsAssumption
  <1>3. /\ c.vT \in Nat /\ c.vS \in Nat \ {0} /\ c.rT \in Nat
        /\ c.rT < c.vT
    BY <1>1, <1>2 DEF Curves
  <1>4. x * c.vT \in Nat /\ c.vS + x \in Nat \ {0} /\ x \in Nat
    BY <1>3, Products
  <1>5. k \in Nat
    BY <1>4, DivBounds DEF BuyTokenQuote
  <1>6. n \in Nat /\ n <= k /\ n <= c.rT /\ n < c.vT
    BY <1>3, <1>5 DEF Least
  <1>7. BuySolQuote(n, c.vT, c.vS) <= x + 1
    BY <1>3, <1>4, <1>6, BuyCostAtMost
  <1>8. /\ BuySolQuote(n, c.vT, c.vS) \in Nat
        /\ n * c.vS <= BuySolQuote(n, c.vT, c.vS) * (c.vT - n)
    BY <1>3, <1>6, BuyCovers
  <1>9. /\ BuySolQuote(n, c.vT, c.vS) * (c.vT - n) <= net * (c.vT - n)
        /\ BuySolQuote(n, c.vT, c.vS) * (c.vT - n) \in Nat
        /\ net * (c.vT - n) \in Nat /\ n * c.vS \in Nat
    BY <1>3, <1>6, <1>7, <1>8, Products
  <1>10. n * c.vS <= net * (c.vT - n)
    BY <1>8, <1>9
  <1> QED
    BY <1>6, <1>10, SoldKeepsBook DEF Covers

------------------------------------------------------------------------------
(* The launch quote: with its fees, net_sol is within the budget: one      *)
(* decrement makes up for rounding both fees up.                           *)
LEMMA NetSolFits ==
    ASSUME NEW sol \in Nat
    PROVE  net_sol(sol) \in Nat /\ required(net_sol(sol)) <= sol
  <1> DEFINE x == (sol * 10000) \div 10125
  <1>1. x \in Nat /\ x * 10125 <= sol * 10000
    BY SMT
  <1> HIDE DEF x
  <1>2. \A y \in Nat : required(y) = y + (y * 95 + 9999) \div 10000
                                      + (y * 30 + 9999) \div 10000
    BY DEF required, fee, ceilDiv, Bps, PROTOCOL_FEE_BPS, CREATOR_FEE_BPS
  <1>3. net_sol(sol) = IF required(x) > sol THEN x - 1 ELSE x
    BY DEF net_sol, x, Bps, PROTOCOL_FEE_BPS, CREATOR_FEE_BPS
  <1>4. CASE required(x) > sol
    <2>1. x # 0
      BY <1>2, <1>4
    <2>2. x - 1 \in Nat /\ required(x - 1) <= sol
      BY <1>1, <1>2, <2>1
    <2> QED
      BY <1>3, <1>4, <2>2
  <1>5. CASE ~(required(x) > sol)
    <2>1. required(x) \in Int
      BY <1>1, <1>2
    <2> QED
      BY <1>1, <1>3, <1>5, <2>1
  <1> QED
    BY <1>4, <1>5

(* With the global account it was quoted from, the launch buy costs no     *)
(* more than its budget.                                                   *)
LEMMA LaunchCost ==
    ASSUME NEW g \in Globals, NEW sol \in Nat
    PROVE  LET n == amount_tokens(sol, g.vT, g.vS)
           IN  /\ n \in Nat
               /\ n > 0 => BuyCost(g, CreatedFrom(g), Supply, n) <= sol
  <1> DEFINE n == amount_tokens(sol, g.vT, g.vS)
             x == net_sol(sol)
             c == CreatedFrom(g)
             s == IF g.mayhem THEN Supply ELSE ONE_BILLION_SUPPLY
             f == computeFeesBps(g, tiers, s, newBondingCurve(g))
             m == Least(n, g.rT)
             cost == BuySolQuote(m, g.vT, g.vS)
  <1>1. x \in Nat /\ required(x) <= sol
    BY NetSolFits
  <1>2. /\ g.vT \in Nat \ {0} /\ g.vS \in Nat \ {0} /\ g.rT \in Nat \ {0}
        /\ g.rT < g.vT
    BY GlobalsAssumption
  <1>3. CASE n = 0
    BY <1>3
  <1>4. ASSUME n # 0
        PROVE  n \in Nat /\ BuyCost(g, c, Supply, n) <= sol
    <2>1. x # 0 /\ n = BuyTokenQuote(x - 1, g.vT, g.vS)
      BY <1>2, <1>4 DEF amount_tokens
    <2>2. x - 1 \in Nat /\ (x - 1) * g.vT \in Nat /\ g.vS + (x - 1) \in Nat \ {0}
      BY <1>1, <1>2, <2>1, Products
    <2>3. n \in Nat
      BY <2>1, <2>2, DivBounds DEF BuyTokenQuote
    <2> HIDE DEF n, x
    <2>4. m \in Nat /\ m <= n /\ m < g.vT
      BY <1>2, <2>3 DEF Least
    <2>5. cost \in Nat /\ cost <= (x - 1) + 1
      BY <1>2, <2>1, <2>2, <2>4, BuyCostAtMost, BuyCovers
    <2>6. cost <= x
      BY <1>1, <2>5
    <2> HIDE DEF m, cost
    <2>7. /\ c.vT = g.vT /\ c.vS = g.vS /\ c.rT = g.rT /\ c.mayhem = g.mayhem
          /\ c.creator
      BY NewCurve
    <2>8. bondingCurveMarketCap(s, c) = bondingCurveMarketCap(s, newBondingCurve(g))
      BY <2>7 DEF bondingCurveMarketCap, newBondingCurve
    <2>9. computeFeesBps(g, tiers, s, c) = f
      BY <2>8, Zenon DEF computeFeesBps
    <2>10. /\ f.protocol \in Nat /\ f.protocol <= PROTOCOL_FEE_BPS
           /\ f.creator \in Nat /\ f.creator <= CREATOR_FEE_BPS
           /\ PROTOCOL_FEE_BPS \in Nat /\ CREATOR_FEE_BPS \in Nat
      <3>1. f.protocol \in 0 .. PROTOCOL_FEE_BPS /\ f.creator \in 0 .. CREATOR_FEE_BPS
        BY LaunchFeesAssumption
      <3> HIDE DEF f
      <3> QED
        BY <3>1 DEF PROTOCOL_FEE_BPS, CREATOR_FEE_BPS
    <2>11. getFee(g, tiers, Supply, c, cost, FALSE)
             = fee(cost, f.protocol) + fee(cost, f.creator)
      <3>1. (IF c.mayhem THEN Supply ELSE ONE_BILLION_SUPPLY) = s
        BY <2>7
      <3> HIDE DEF s, f
      <3>2. creatorBps(f, c, FALSE) = f.creator
        BY <2>7 DEF creatorBps
      <3> QED
        BY <2>9, <3>1, <3>2 DEF getFee
    <2> HIDE DEF f, s
    <2>12. /\ fee(cost, f.protocol) \in Nat /\ fee(x, PROTOCOL_FEE_BPS) \in Nat
           /\ fee(cost, f.protocol) <= fee(x, PROTOCOL_FEE_BPS)
      BY <1>1, <2>5, <2>6, <2>10, FeeGrows
    <2>13. /\ fee(cost, f.creator) \in Nat /\ fee(x, CREATOR_FEE_BPS) \in Nat
           /\ fee(cost, f.creator) <= fee(x, CREATOR_FEE_BPS)
      BY <1>1, <2>5, <2>6, <2>10, FeeGrows
    <2>14. BuyCost(g, c, Supply, n) = cost + getFee(g, tiers, Supply, c, cost, FALSE)
      <3>1. c.vT # 0
        BY <1>2, <2>7
      <3> HIDE DEF c
      <3> QED
        BY <1>4, <2>7, <3>1 DEF BuyCost, getBuySolAmountFromTokenAmount, m, cost
    <2> HIDE DEF c
    <2>15. required(x) = x + fee(x, PROTOCOL_FEE_BPS) + fee(x, CREATOR_FEE_BPS)
      BY DEF required
    <2>16. BuyCost(g, c, Supply, n) = cost + (fee(cost, f.protocol) + fee(cost, f.creator))
      BY <2>11, <2>14
    <2>17. cost + (fee(cost, f.protocol) + fee(cost, f.creator)) <= sol
      BY <1>1, <2>5, <2>6, <2>12, <2>13, <2>15
    <2> QED
      BY <2>3, <2>16, <2>17, Zenon
  <1> QED
    BY <1>3, <1>4

------------------------------------------------------------------------------
(* A set of naturals has a least member. *)
LEMMA LeastMember ==
    ASSUME NEW T \in SUBSET Nat, T # {}
    PROVE  \E x \in T : \A y \in T : x <= y
  <1>1. PICK x \in T : \A y \in T : ~ (<<y, x>> \in OpToRel(<, Nat))
    BY Zenon, WFMin, NatLessThanWellFounded
  <1>2. \A y \in T : ~ (y < x)
    BY Zenon, <1>1 DEF OpToRel
  <1> QED
    BY <1>2

(* The rates in force are naturals and less than the whole. *)
LEMMA RatesOK ==
    ASSUME NEW g \in Globals, NEW s, NEW c
    PROVE  LET f == computeFeesBps(g, tiers, s, c)
           IN  f.protocol \in Nat /\ f.creator \in Nat /\ f.protocol + f.creator <= Bps
  <1> DEFINE cap == bondingCurveMarketCap(s, c)
             reached == {i \in DOMAIN tiers : cap >= tiers[i].threshold}
             last == IF reached = {} THEN 1
                     ELSE CHOOSE i \in reached : \A j \in reached : j <= i
  <1>1. CASE tiers = << >>
    BY <1>1, GlobalsAssumption DEF computeFeesBps
  <1>2. CASE tiers # << >>
    <2>1. /\ tiers \in Seq([threshold : Nat, protocol : Nat, creator : Nat])
          /\ Len(tiers) \in Nat \ {0} /\ DOMAIN tiers = 1 .. Len(tiers)
      BY <1>2, GlobalsAssumption
    <2> DEFINE len == Len(tiers)
    <2>2. reached \subseteq 1 .. len /\ len \in Nat \ {0}
      BY <2>1
    <2> HIDE DEF reached, len
    <2>3. last \in 1 .. len
      <3>1. CASE reached = {}
        BY <2>2, <3>1
      <3>2. CASE reached # {}
        <4> DEFINE T == {len - i : i \in reached}
        <4>1. T \in SUBSET Nat /\ T # {}
          <5>1. \A i \in reached : i \in Nat /\ i <= len
            BY <2>2
          <5>2. \A i \in reached : len - i \in Nat
            BY <2>2, <5>1
          <5> QED
            BY <3>2, <5>2, Zenon
        <4>2. PICK x \in T : \A y \in T : x <= y
          BY <4>1, LeastMember
        <4>3. PICK i \in reached : x = len - i
          BY <4>2
        <4>4. \A j \in reached : j <= i
          <5>1. TAKE j \in reached
          <5>2. len - i <= len - j
            BY <4>2, <4>3
          <5> QED
            BY <2>2, <5>2
        <4>5. last \in reached
          BY <3>2, <4>4, Zenon
        <4> QED
          BY <2>2, <4>5
      <3> QED
        BY <3>1, <3>2
    <2>4. computeFeesBps(g, tiers, s, c) = tiers[last]
      BY <1>2, Zenon DEF computeFeesBps, calculateFeeTier, reached
    <2> HIDE DEF last
    <2>5. tiers[last] \in [threshold : Nat, protocol : Nat, creator : Nat]
      <3> DEFINE R == [threshold : Nat, protocol : Nat, creator : Nat]
      <3>1. tiers \in Seq(R) /\ last \in 1 .. Len(tiers)
        BY <2>1, <2>3 DEF len
      <3> HIDE DEF R
      <3>2. tiers[last] \in R
        BY <3>1
      <3> QED
        BY <3>2 DEF R
    <2>6. tiers[last].protocol + tiers[last].creator <= Bps
      <3>1. tiers[last] \in {tiers[i] : i \in DOMAIN tiers}
        BY <2>1, <2>3 DEF len
      <3> QED
        BY <3>1, GlobalsAssumption, Zenon
    <2> QED
      BY <2>4, <2>5, <2>6
  <1> QED
    BY <1>1, <1>2

(* The creator's rate is its rate or none. *)
LEMMA CreatorRate ==
    ASSUME NEW g \in Globals, NEW s, NEW c
    PROVE  LET f == computeFeesBps(g, tiers, s, c)
               r == creatorBps(f, c, FALSE)
           IN  f.protocol \in Nat /\ r \in Nat /\ f.protocol + r <= Bps
  <1> DEFINE f == computeFeesBps(g, tiers, s, c)
  <1>1. f.protocol \in Nat /\ f.creator \in Nat /\ f.protocol + f.creator <= Bps
    BY RatesOK
  <1> HIDE DEF f
  <1>2. creatorBps(f, c, FALSE) \in {f.creator, 0}
    BY DEF creatorBps
  <1>3. creatorBps(f, c, FALSE) \in Nat /\ f.protocol + creatorBps(f, c, FALSE) <= Bps
    <2>1. CASE creatorBps(f, c, FALSE) = f.creator
      BY <1>1, <2>1
    <2>2. CASE creatorBps(f, c, FALSE) = 0
      <3>1. 0 \in Nat /\ f.protocol + 0 <= Bps
        BY <1>1 DEF Bps
      <3> QED
        BY <2>2, <3>1, Zenon
    <2> QED
      BY <1>2, <2>1, <2>2
  <1> QED
    BY <1>1, <1>3 DEF f

(* Fees on a natural are naturals. *)
LEMMA FeeNat ==
    ASSUME NEW g \in Globals, NEW s, NEW c, NEW a \in Nat
    PROVE  getFee(g, tiers, s, c, a, FALSE) \in Nat
  <1> DEFINE t == IF c.mayhem THEN s ELSE ONE_BILLION_SUPPLY
             f == computeFeesBps(g, tiers, t, c)
             r == creatorBps(f, c, FALSE)
  <1>1. f.protocol \in Nat /\ r \in Nat
    BY CreatorRate
  <1> HIDE DEF f, r
  <1>2. fee(a, f.protocol) \in Nat /\ fee(a, r) \in Nat
    BY <1>1, FeeIsNat, Zenon
  <1>3. getFee(g, tiers, s, c, a, FALSE) = fee(a, f.protocol) + fee(a, r)
    BY Zenon DEF getFee, f, r
  <1> DEFINE u == fee(a, f.protocol)  v == fee(a, r)
  <1> HIDE DEF u, v
  <1>4. u + v \in Nat
    BY <1>2 DEF u, v
  <1> QED
    BY <1>3, <1>4, Zenon DEF u, v

(* Products of a sum. *)
LEMMA Distribute ==
    ASSUME NEW x \in Nat, NEW p \in Nat, NEW r \in Nat
    PROVE  /\ (x + 1) * p = x * p + p /\ (x + 1) * r = x * r + r
           /\ x * (p + r + 10000) = x * p + x * r + x * 10000
           /\ x * p \in Nat /\ x * r \in Nat
           /\ (x + 1) * p \in Nat /\ (x + 1) * r \in Nat
  BY SMT

(* The lesser of two numbers. *)
LEMMA LeastBounds ==
    ASSUME NEW a \in Nat, NEW b \in Nat
    PROVE  Least(a, b) \in Nat /\ Least(a, b) <= a /\ Least(a, b) <= b
  BY DEF Least

(* The budget quote takes both fees off at once and rounds once; the fees  *)
(* it then meets are at most two lamports more.                            *)
Within(x, p, r, amount) == x * p + x * r + x * 10000 <= (amount - 1) * 10000

LEMMA BudgetInput ==
    ASSUME NEW p \in Nat, NEW r \in Nat, NEW amount \in Nat \ {0}
    PROVE  LET x == ((amount - 1) * Bps) \div (p + r + Bps)
           IN  x \in Nat /\ Within(x, p, r, amount)
  <1> DEFINE A == (amount - 1) * 10000  D == p + r + 10000
             x == ((amount - 1) * Bps) \div (p + r + Bps)
  <1>1. A \in Nat /\ D \in Nat \ {0}
    BY SMT
  <1>2. x = A \div D
    BY DEF Bps
  <1> HIDE DEF A, D, x
  <1>3. x \in Nat /\ x * D <= A
    BY <1>1, <1>2, DivBounds
  <1>4. x * D = x * p + x * r + x * 10000
    BY <1>3, Distribute DEF D
  <1>5. x \in Nat /\ x * p + x * r + x * 10000 <= A
    BY <1>3, <1>4
  <1> QED
    BY <1>5 DEF A, x, Within

LEMMA BudgetSum ==
    ASSUME NEW p \in Nat, NEW r \in Nat, p + r <= Bps, NEW amount \in Nat \ {0},
           NEW x \in Nat, Within(x, p, r, amount),
           NEW t \in Nat, t <= x + 1
    PROVE  t + (fee(t, p) + fee(t, r)) <= amount + 2
  <1> DEFINE y == x + 1  F == fee(y, p)  G == fee(y, r)
  <1>2. x * p \in Nat /\ x * r \in Nat
    BY Distribute
  <1>3. y * p = x * p + p /\ y * r = x * r + r /\ y * p \in Nat /\ y * r \in Nat
    BY Distribute
  <1>4. /\ F \in Nat /\ F * 10000 <= y * p + 9999
        /\ G \in Nat /\ G * 10000 <= y * r + 9999
    <2> DEFINE P == y * p + 9999  R == y * r + 9999
    <2>1. P \in Nat /\ R \in Nat
      BY <1>3
    <2>2. F = P \div 10000 /\ G = R \div 10000
      BY <1>3 DEF fee, ceilDiv, Bps
    <2> HIDE DEF P, R, F, G
    <2>3. F \in Nat /\ F * 10000 <= P /\ G \in Nat /\ G * 10000 <= R
      BY <2>1, <2>2
    <2> QED
      BY <2>3 DEF P, R
  <1>5. /\ fee(t, p) \in Nat /\ fee(t, p) <= F
        /\ fee(t, r) \in Nat /\ fee(t, r) <= G
    <2>1. t <= y /\ y \in Nat /\ p <= p /\ r <= r
      OBVIOUS
    <2> HIDE DEF y
    <2>2. fee(t, p) \in Nat /\ fee(t, p) <= fee(y, p)
      BY <2>1, FeeGrows
    <2>3. fee(t, r) \in Nat /\ fee(t, r) <= fee(y, r)
      BY <2>1, FeeGrows
    <2> QED
      BY <2>2, <2>3
  <1> DEFINE P == x * p  R == x * r
  <1> HIDE DEF F, G, P, R
  <1>6. y + (F + G) <= amount + 2
    <2>1. P + R + x * 10000 <= (amount - 1) * 10000 /\ P \in Nat /\ R \in Nat
      BY <1>2 DEF P, R, Within
    <2>2. F * 10000 <= P + p + 9999 /\ G * 10000 <= R + r + 9999
      BY <1>3, <1>4 DEF P, R
    <2>3. p + r <= 10000
      BY DEF Bps
    <2> QED
      BY <1>4, <2>1, <2>2, <2>3
  <1> QED
    BY <1>4, <1>5, <1>6

(* The price of a buy. *)
LEMMA BuyPrice ==
    ASSUME NEW b \in Globals, NEW c, Book(c, b), ~c.complete,
           NEW g \in Globals, NEW s, NEW n \in Nat \ {0}
    PROVE  LET m == Least(n, c.rT)
               cost == BuySolQuote(m, c.vT, c.vS)
           IN  /\ m \in Nat /\ m < c.vT
               /\ cost \in Nat
               /\ BuyCost(g, c, s, n) = cost + getFee(g, tiers, s, c, cost, FALSE)
               /\ BuyCost(g, c, s, n) \in Nat
  <1> DEFINE m == Least(n, c.rT)
             cost == BuySolQuote(m, c.vT, c.vS)
             F == getFee(g, tiers, s, c, cost, FALSE)
  <1>1. /\ c \in Curves /\ b.vT - c.vT = b.rT - c.rT /\ b.vT \in Nat /\ b.rT \in Nat
        /\ b.rT < b.vT
    BY GlobalsAssumption DEF Book
  <1>2. c.vT \in Nat \ {0} /\ c.vS \in Nat /\ c.rT \in Nat /\ c.rT < c.vT
    BY <1>1 DEF Curves
  <1>3. m \in Nat /\ m < c.vT
    BY <1>2 DEF Least
  <1> HIDE DEF m
  <1>4. cost \in Nat
    BY <1>2, <1>3, BuyCovers
  <1>5. BuyCost(g, c, s, n) = cost + F
    BY <1>2 DEF BuyCost, getBuySolAmountFromTokenAmount, m
  <1> HIDE DEF cost
  <1>6. F \in Nat
    BY <1>4, FeeNat
  <1> HIDE DEF F
  <1>7. cost + F \in Nat
    BY <1>4, <1>6
  <1> QED
    BY <1>3, <1>4, <1>5, <1>7, Zenon DEF m, cost, F

(* The price of a sell is a number. *)
LEMMA SellPrice ==
    ASSUME NEW b \in Globals, NEW c, Book(c, b), ~c.complete,
           NEW g \in Globals, NEW s, NEW n \in Nat \ {0}
    PROVE  getSellSolAmountFromTokenAmount(g, tiers, s, c, n) \in Int
  <1> DEFINE out == SellSolQuote(n, c.vT, c.vS)
             F == getFee(g, tiers, s, c, out, FALSE)
  <1>1. c.vT \in Nat /\ c.vS \in Nat
    BY DEF Book, Curves
  <1>2. out \in Nat
    BY <1>1, ReturnKeepsProduct
  <1> HIDE DEF out
  <1>3. F \in Nat
    BY <1>2, FeeNat
  <1> HIDE DEF F
  <1>4. out - F \in Int /\ 0 \in Int
    BY <1>2, <1>3
  <1>5. getSellSolAmountFromTokenAmount(g, tiers, s, c, n) \in {0, out - F}
    BY Zenon DEF getSellSolAmountFromTokenAmount, out, F
  <1> QED
    BY <1>4, <1>5

(* The tokens quoted for a budget cost at most two lamports more than the  *)
(* budget, while the program looks the same tier up.                       *)
LEMMA BudgetQuote ==
    ASSUME NEW b \in Globals, NEW c, Book(c, b), ~c.complete,
           NEW g \in Globals, NEW s, NEW amount \in Nat \ {0},
           NEW n \in Nat \ {0},
           n = getBuyTokenAmountFromSolAmount(g, tiers, s, c, amount, FALSE),
           computeFeesBps(g, tiers, IF c.mayhem THEN s ELSE ONE_BILLION_SUPPLY, c)
             = computeFeesBps(g, tiers, s, c)
    PROVE  BuyCost(g, c, s, n) <= amount + 2
  <1> DEFINE f == computeFeesBps(g, tiers, s, c)
             r == creatorBps(f, c, FALSE)
             x == inputAmount(g, tiers, s, c, amount, FALSE)
             m == Least(n, c.rT)
             cost == BuySolQuote(m, c.vT, c.vS)
             F == getFee(g, tiers, s, c, cost, FALSE)
  <1>1. f.protocol \in Nat /\ r \in Nat /\ f.protocol + r <= Bps
    BY CreatorRate
  <1>2. x = ((amount - 1) * Bps) \div (f.protocol + r + Bps)
    BY Zenon DEF inputAmount
  <1>3. F = fee(cost, f.protocol) + fee(cost, r)
    BY Zenon DEF getFee
  <1>4. /\ c.vT \in Nat \ {0} /\ c.vS \in Nat \ {0} /\ c.rT \in Nat
    <2>1. /\ c \in Curves /\ b.vT - c.vT = b.rT - c.rT /\ c.vS = b.vS + c.rS
      BY DEF Book
    <2>2. b.vT \in Nat /\ b.rT \in Nat /\ b.rT < b.vT /\ b.vS \in Nat \ {0}
      BY GlobalsAssumption
    <2> QED
      BY <2>1, <2>2 DEF Curves
  <1>5. /\ m \in Nat /\ m < c.vT /\ cost \in Nat
        /\ BuyCost(g, c, s, n) = cost + F
    BY BuyPrice
  <1>6. n = Least(BuyTokenQuote(x, c.vT, c.vS), c.rT)
    BY <1>4 DEF getBuyTokenAmountFromSolAmount
  <1> HIDE DEF f, r, x, cost, m, F
  <1>7. x \in Nat /\ Within(x, f.protocol, r, amount)
    BY <1>1, <1>2, BudgetInput
  <1>8. BuyTokenQuote(x, c.vT, c.vS) \in Nat
    <2>1. x * c.vT \in Nat /\ c.vS + x \in Nat \ {0}
      BY <1>4, <1>7, Products
    <2> QED
      BY <2>1, DivBounds DEF BuyTokenQuote
  <1>9. m <= BuyTokenQuote(x, c.vT, c.vS)
    <2> DEFINE k == BuyTokenQuote(x, c.vT, c.vS)
    <2> HIDE DEF k
    <2>1. k \in Nat /\ n = Least(k, c.rT)
      BY <1>6, <1>8 DEF k
    <2>2. m <= n
      BY <1>4, LeastBounds DEF m
    <2>3. m <= k
      <3>1. n <= k
        BY <1>4, <2>1, LeastBounds
      <3>2. \A i, j, l \in Nat : i <= j /\ j <= l => i <= l
        OBVIOUS
      <3>3. m \in Nat /\ n \in Nat
        BY <1>5
      <3> QED
        BY <2>1, <2>2, <3>1, <3>2, <3>3, Zenon
    <2> QED
      BY <2>3 DEF k
  <1>10. cost <= x + 1
    BY <1>4, <1>5, <1>7, <1>9, BuyCostAtMost DEF cost
  <1>11. cost + (fee(cost, f.protocol) + fee(cost, r)) <= amount + 2
    <2> DEFINE q == f.protocol
    <2>1. q \in Nat /\ r \in Nat /\ q + r <= Bps
      BY <1>1
    <2>2. x \in Nat /\ Within(x, q, r, amount)
      BY <1>7
    <2> HIDE DEF q
    <2>3. cost \in Nat /\ cost <= x + 1
      BY <1>5, <1>10
    <2>4. cost + (fee(cost, q) + fee(cost, r)) <= amount + 2
      BY <2>1, <2>2, <2>3, BudgetSum
    <2> QED
      BY <2>4 DEF q
  <1> QED
    BY <1>3, <1>5, <1>11, Zenon

------------------------------------------------------------------------------
(***************************************************************************)
(* The inductive invariant.  There is no curve before the launch; until    *)
(* its migration the curve's books are in order; and only a landed launch  *)
(* has orders, each for some tokens.                                       *)
(***************************************************************************)
NoCurveYet == launch.fate # "landed" => curve = NoCurve

BookOK == launch.fate = "landed" /\ (curve.vT > 0 \/ ~curve.complete) => Book(curve, born)

OrderOK(o, l) == o # NoOrder => l.fate = "landed" /\ o.n \in Nat \ {0}

(* FreshQuotesLand of one order. *)
Fresh(o) == o # NoOrder /\ o.room >= 2 /\ SameTier(o) => Acceptable(o, o.g, o.c, o.s)

OrdersOK ==
    /\ order = [u \in Users |-> order[u]]
    /\ \A u \in Users : OrderOK(order[u], launch) /\ Fresh(order[u])

IInv == TypeOK /\ NoCurveYet /\ BookOK /\ OrdersOK /\ LaunchBuyLands

(* What ProductNeverFalls says of one step. *)
ProductStep == Live /\ curve'.vT > 0 => curve'.vT * curve'.vS >= curve.vT * curve.vS

(* The empty curve has the type. *)
LEMMA NoCurveType == NoCurve \in Curves
  BY DEF NoCurve, Curves

LEMMA InitOK == Init => IInv
  <1> SUFFICES ASSUME Init PROVE IInv
    OBVIOUS
  <1>1. /\ global \in Globals /\ cached = global /\ curve = NoCurve /\ born = global
        /\ supply = Supply /\ launch = NoLaunch /\ order = [u \in Users |-> NoOrder]
    BY DEF Init
  <1>2. launch.fate = "none" /\ launch \in [fate : {"none", "landed", "refused"},
                              fresh : BOOLEAN, quoted : Nat, got : Nat]
    BY <1>1 DEF NoLaunch
  <1>3. TypeOK
    <2>1. supply \in Int
      BY <1>1, GlobalsAssumption
    <2> QED
      BY <1>1, <1>2, <2>1, NoCurveType DEF TypeOK, Curves
  <1>4. NoCurveYet /\ BookOK /\ LaunchBuyLands
    BY <1>1, <1>2 DEF NoCurveYet, BookOK, LaunchBuyLands
  <1>5. OrdersOK
    BY <1>1 DEF OrdersOK, OrderOK, Fresh
  <1> QED
    BY <1>3, <1>4, <1>5 DEF IInv

(* A trade that keeps the books keeps the invariant. *)
LEMMA TradeKeeps ==
    ASSUME IInv, Live, Book(curve', born), OrdersOK',
           UNCHANGED << global, cached, born, supply, launch >>
    PROVE  IInv'
  <1>1. curve' \in Curves /\ BookOK'
    BY DEF Book, BookOK
  <1>2. launch'.fate = "landed" /\ NoCurveYet' /\ LaunchBuyLands'
    BY DEF Live, NoCurveYet, LaunchBuyLands, IInv
  <1>3. /\ curve'.vS = born.vS + curve'.rS /\ born.vT - curve'.vT = born.rT - curve'.rT
        /\ (curve'.rT = 0 <=> curve'.complete)
    BY DEF Book
  <1>4. TypeOK'
    BY <1>1, <1>3, Zenon DEF TypeOK, IInv, Curves
  <1> QED
    BY <1>1, <1>2, <1>4 DEF IInv

(* A live curve has its books in order, and they pay for what was sold. *)
LEMMA LiveBook ==
    ASSUME IInv, Live
    PROVE  born \in Globals /\ Book(curve, born) /\ ~curve.complete
  BY DEF IInv, Live, BookOK, TypeOK

LEMMA SolventOK == IInv => Solvent
  <1> SUFFICES ASSUME IInv, Live
               PROVE  SellSolQuote(born.rT - curve.rT, curve.vT, curve.vS) <= curve.rS
    BY DEF Solvent
  <1> DEFINE n == born.rT - curve.rT
  <1>1. born \in Globals /\ Book(curve, born) /\ ~curve.complete
    BY LiveBook
  <1>2. n \in Nat /\ n <= born.rT - curve.rT
    <2>1. born.rT \in Nat /\ curve.rT \in Nat /\ curve.rT <= born.rT
      BY <1>1, GlobalsAssumption DEF Book, Curves
    <2> QED
      BY <2>1
  <1> HIDE DEF n
  <1>3. SellSolQuote(n, curve.vT, curve.vS) <= curve.rS
    BY <1>1, <1>2, BookIsSolvent
  <1> QED
    BY <1>3 DEF n

(* Orders stay in order while the launch does. *)
LEMMA OrdersStay ==
    ASSUME OrdersOK, order' = order, launch' = launch
    PROVE  OrdersOK'
  BY DEF OrdersOK, OrderOK

LEMMA OrderGone ==
    ASSUME OrdersOK, NEW u \in Users, order' = [order EXCEPT ![u] = NoOrder], launch' = launch
    PROVE  OrdersOK'
  <1>1. order' = [v \in Users |-> IF v = u THEN NoOrder ELSE order[v]]
    BY DEF OrdersOK
  <1>2. \A v \in Users : order'[v] = NoOrder \/ order'[v] = order[v]
    BY <1>1
  <1>3. order' = [v \in Users |-> order'[v]]
    BY <1>1
  <1>4. \A v \in Users : OrderOK(order'[v], launch') /\ Fresh(order'[v])
    BY <1>2 DEF OrdersOK, OrderOK, Fresh
  <1> QED
    BY <1>3, <1>4 DEF OrdersOK, OrderOK

(* A new order is good on the curve it was quoted on. *)
LEMMA OrderPlaced ==
    ASSUME IInv, Live, NEW u \in Users, NEW kind, NEW n \in Nat \ {0}, NEW limit, NEW room,
           LET o == [kind |-> kind, n |-> n, limit |-> limit, room |-> room,
                     c |-> curve, g |-> global, s |-> supply]
           IN  room >= 2 /\ SameTier(o) => Acceptable(o, global, curve, supply),
           Place(u, kind, n, limit, room)
    PROVE  IInv' /\ ProductStep
  <1> DEFINE o == [kind |-> kind, n |-> n, limit |-> limit, room |-> room,
                   c |-> curve, g |-> global, s |-> supply]
  <1>1. /\ order' = [order EXCEPT ![u] = o]
        /\ UNCHANGED << global, cached, curve, born, supply, launch >>
    BY DEF Place
  <1>2. launch.fate = "landed" /\ o.n = n /\ o.room = room /\ o.c = curve /\ o.g = global
        /\ o.s = supply
    BY DEF Live
  <1>3. OrderOK(o, launch) /\ Fresh(o)
    <2>1. OrderOK(o, launch)
      BY <1>2 DEF OrderOK
    <2> HIDE DEF o
    <2>2. room >= 2 /\ SameTier(o) => Acceptable(o, global, curve, supply)
      BY DEF o
    <2> QED
      BY <1>2, <2>1, <2>2 DEF Fresh
  <1> HIDE DEF o
  <1>4. order = [v \in Users |-> order[v]]
    BY DEF IInv, OrdersOK
  <1>5. order' = [v \in Users |-> IF v = u THEN o ELSE order[v]]
    BY <1>1, <1>4
  <1>6. \A v \in Users : OrderOK(order'[v], launch) /\ Fresh(order'[v])
    <2>1. \A v \in Users : order'[v] = o \/ order'[v] = order[v]
      BY <1>5
    <2> QED
      BY <1>3, <2>1 DEF IInv, OrdersOK
  <1>7. OrdersOK'
    BY <1>1, <1>5, <1>6 DEF OrdersOK
  <1>8. Book(curve', born)
    BY <1>1, LiveBook
  <1>9. IInv'
    BY <1>1, <1>7, <1>8, TradeKeeps
  <1>10. ProductStep
    <2>1. curve \in Curves
      BY LiveBook DEF Book
    <2>2. curve.vT * curve.vS \in Nat
      BY <2>1, Products DEF Curves
    <2> DEFINE k == curve.vT * curve.vS
    <2> HIDE DEF k
    <2>3. k >= k
      BY <2>2 DEF k
    <2> QED
      BY <1>1, <2>3 DEF ProductStep, k
  <1> QED
    BY <1>9, <1>10

(* The tier of a quote and of the program are the same unless the supply   *)
(* was burned across one.                                                  *)
LEMMA SameRates ==
    ASSUME NEW o, SameTier(o), NEW g
    PROVE  computeFeesBps(g, tiers, IF o.c.mayhem THEN o.s ELSE ONE_BILLION_SUPPLY, o.c)
             = computeFeesBps(g, tiers, o.s, o.c)
  BY DEF SameTier, computeFeesBps

LEMMA RoomIsNat ==
    ASSUME NEW sol \in Nat, NEW slippage \in Nat
    PROVE  (sol * slippage) \div 1000 \in Nat
  <1>1. sol * slippage \in Nat
    BY Products
  <1> QED
    BY <1>1

LEMMA PlaceBuyForSolOK ==
    ASSUME IInv, NEW u \in Users, NEW sol \in SolAmounts, NEW slippage \in Slippages,
           PlaceBuyForSol(u, sol, slippage)
    PROVE  IInv' /\ ProductStep
  <1> DEFINE n == getBuyTokenAmountFromSolAmount(global, tiers, supply, curve, sol, FALSE)
             room == (sol * slippage) \div 1000
             limit == maxSolCost(sol, slippage)
             o == [kind |-> "buy", n |-> n, limit |-> limit, room |-> room,
                   c |-> curve, g |-> global, s |-> supply]
  <1>1. Place(u, "buy", n, limit, room)
    BY DEF PlaceBuyForSol
  <1>2. Live /\ n \in Nat \ {0} /\ global \in Globals
    BY <1>1 DEF Place, IInv, TypeOK
  <1>3. sol \in Nat \ {0} /\ slippage \in Nat
    BY GlobalsAssumption
  <1>4. room \in Nat /\ limit = sol + room
    BY <1>3, RoomIsNat DEF maxSolCost
  <1>5. /\ o.kind = "buy" /\ o.n = n /\ o.limit = limit /\ o.room = room /\ o.c = curve
        /\ o.g = global /\ o.s = supply
    OBVIOUS
  <1> HIDE DEF n, room, limit
  <1>6. born \in Globals /\ Book(curve, born) /\ ~curve.complete
    BY <1>2, LiveBook
  <1>7. ASSUME room >= 2, SameTier(o)
        PROVE  Acceptable(o, global, curve, supply)
    <2>1. computeFeesBps(global, tiers, IF curve.mayhem THEN supply ELSE ONE_BILLION_SUPPLY, curve)
            = computeFeesBps(global, tiers, supply, curve)
      BY <1>5, <1>7, SameRates
    <2>2. BuyCost(global, curve, supply, n) <= sol + 2
      BY <1>2, <1>3, <1>6, <2>1, BudgetQuote DEF n
    <2>3. BuyCost(global, curve, supply, n) \in Nat
      BY <1>2, <1>6, BuyPrice
    <2>4. BuyCost(global, curve, supply, n) <= limit
      BY <1>3, <1>4, <1>7, <2>2, <2>3
    <2> QED
      BY <1>5, <1>6, <2>4 DEF Acceptable
  <1> QED
    BY <1>1, <1>2, <1>7, OrderPlaced

LEMMA PlaceBuyOfTokensOK ==
    ASSUME IInv, NEW u \in Users, NEW n \in TokenAmounts, NEW slippage \in Slippages,
           PlaceBuyOfTokens(u, n, slippage)
    PROVE  IInv' /\ ProductStep
  <1> DEFINE sol == getBuySolAmountFromTokenAmount(global, tiers, supply, curve, n, FALSE)
             room == (sol * slippage) \div 1000
             limit == maxSolCost(sol, slippage)
             o == [kind |-> "buy", n |-> n, limit |-> limit, room |-> room,
                   c |-> curve, g |-> global, s |-> supply]
  <1>1. Place(u, "buy", n, limit, room)
    BY DEF PlaceBuyOfTokens
  <1>2. Live /\ n \in Nat \ {0} /\ global \in Globals /\ slippage \in Nat
    BY <1>1, GlobalsAssumption DEF Place, IInv, TypeOK
  <1>3. born \in Globals /\ Book(curve, born) /\ ~curve.complete
    BY <1>2, LiveBook
  <1>4. sol = BuyCost(global, curve, supply, n) /\ sol \in Nat
    <2>1. sol = BuyCost(global, curve, supply, n)
      BY DEF BuyCost
    <2>2. BuyCost(global, curve, supply, n) \in Nat
      BY <1>2, <1>3, BuyPrice
    <2> QED
      BY <2>1, <2>2, Zenon
  <1> HIDE DEF sol
  <1>5. room \in Nat /\ limit = sol + room
    BY <1>2, <1>4, RoomIsNat DEF maxSolCost
  <1>6. o.kind = "buy" /\ o.n = n /\ o.limit = limit
    OBVIOUS
  <1> HIDE DEF room, limit
  <1>7. BuyCost(global, curve, supply, n) <= limit
    BY <1>4, <1>5
  <1>8. Acceptable(o, global, curve, supply)
    BY <1>3, <1>6, <1>7 DEF Acceptable
  <1> QED
    BY <1>1, <1>2, <1>8, OrderPlaced

LEMMA PlaceSellOK ==
    ASSUME IInv, NEW u \in Users, NEW n \in TokenAmounts, NEW slippage \in Slippages,
           PlaceSell(u, n, slippage)
    PROVE  IInv' /\ ProductStep
  <1> DEFINE sol == getSellSolAmountFromTokenAmount(global, tiers, supply, curve, n)
             room == (sol * slippage) \div 1000
             limit == minSolOutput(sol, slippage)
             o == [kind |-> "sell", n |-> n, limit |-> limit, room |-> room,
                   c |-> curve, g |-> global, s |-> supply]
  <1>1. Place(u, "sell", n, limit, room)
    BY DEF PlaceSell
  <1>2. Live /\ n \in Nat \ {0} /\ global \in Globals /\ slippage \in Nat
    BY <1>1, GlobalsAssumption DEF Place, IInv, TypeOK
  <1>3. born \in Globals /\ Book(curve, born) /\ ~curve.complete
    BY <1>2, LiveBook
  <1>4. sol \in Int
    BY <1>2, <1>3, SellPrice
  <1>5. o.kind = "sell" /\ o.n = n /\ o.limit = limit
    OBVIOUS
  <1>6. sol = getSellSolAmountFromTokenAmount(global, tiers, supply, curve, n)
    OBVIOUS
  <1>7. limit = sol - room
    BY DEF minSolOutput
  <1> HIDE DEF sol
  <1>8. sol * slippage \in Int /\ room \in Int
    BY <1>2, <1>4
  <1> HIDE DEF room, limit
  <1>9. ASSUME room >= 2
        PROVE  Acceptable(o, global, curve, supply)
    <2>1. sol >= limit
      BY <1>4, <1>7, <1>8, <1>9
    <2> QED
      BY <1>3, <1>5, <1>6, <2>1 DEF Acceptable
  <1> QED
    BY <1>1, <1>2, <1>9, OrderPlaced

(* A trade: the books stay in order and the product does not fall. *)
LEMMA TradeOK ==
    ASSUME IInv, Live, Book(curve', born),
           curve.vT * curve.vS <= curve'.vT * curve'.vS,
           OrdersOK', UNCHANGED << global, cached, born, supply, launch >>
    PROVE  IInv' /\ ProductStep
  <1>1. IInv'
    BY TradeKeeps
  <1> DEFINE j == curve.vT * curve.vS  k == curve'.vT * curve'.vS
  <1>2. curve \in Curves /\ curve' \in Curves
    BY LiveBook DEF Book
  <1>3. j \in Nat /\ k \in Nat /\ j <= k
    BY <1>2, Products DEF Curves
  <1> HIDE DEF j, k
  <1>4. k >= j
    BY <1>3
  <1>5. ProductStep
    BY <1>4 DEF ProductStep, j, k
  <1> QED
    BY <1>1, <1>5

(* Steps that leave the curve alone do not lower the product. *)
LEMMA SameProduct ==
    ASSUME IInv, UNCHANGED curve
    PROVE  ProductStep
  <1> SUFFICES ASSUME Live PROVE curve'.vT * curve'.vS >= curve.vT * curve.vS
    BY DEF ProductStep
  <1> DEFINE j == curve.vT * curve.vS
  <1>1. curve \in Curves
    BY LiveBook DEF Book
  <1>2. j \in Nat
    BY <1>1, Products DEF Curves
  <1> HIDE DEF j
  <1>3. j >= j
    BY <1>2
  <1> QED
    BY <1>3 DEF j

LEMMA WalletBuyOK ==
    ASSUME IInv, NEW sol \in SolAmounts, WalletBuy(sol)
    PROVE  IInv' /\ ProductStep
  <1> DEFINE net == ExactNet(global, curve, supply, sol)
             n == Least(BuyTokenQuote(net - 1, curve.vT, curve.vS), curve.rT)
  <1>1. /\ Live /\ net \in Nat \ {0} /\ n > 0 /\ curve' = Sold(curve, n, net)
        /\ UNCHANGED << global, cached, born, supply, launch, order >>
    BY DEF WalletBuy
  <1> HIDE DEF net
  <1>2. born \in Globals /\ Book(curve, born) /\ ~curve.complete
    BY <1>1, LiveBook
  <1>3. /\ Book(Sold(curve, n, net), born)
        /\ curve.vT * curve.vS <= Sold(curve, n, net).vT * Sold(curve, n, net).vS
    BY <1>1, <1>2, ExactKeepsBook
  <1>4. OrdersOK'
    BY <1>1, OrdersStay DEF IInv
  <1> HIDE DEF n
  <1>5. Book(curve', born) /\ curve.vT * curve.vS <= curve'.vT * curve'.vS
    BY <1>1, <1>3, Zenon
  <1> QED
    BY <1>1, <1>4, <1>5, TradeOK

LEMMA SellOK ==
    ASSUME IInv, NEW n \in TokenAmounts, Sell(n)
    PROVE  IInv' /\ ProductStep
  <1> DEFINE d == Returned(curve, n, SellSolQuote(n, curve.vT, curve.vS))
  <1>1. /\ Live /\ curve' = d /\ n \in 1 .. born.rT - curve.rT
        /\ UNCHANGED << global, cached, born, supply, launch, order >>
    BY DEF Sell
  <1>2. born \in Globals /\ Book(curve, born) /\ ~curve.complete
    BY <1>1, LiveBook
  <1>3. n \in Nat \ {0} /\ n <= born.rT - curve.rT
    <2>1. n \in Nat \ {0}
      BY GlobalsAssumption
    <2>2. born.rT \in Nat /\ curve.rT \in Nat
      BY <1>2, GlobalsAssumption DEF Book, Curves
    <2> QED
      BY <1>1, <2>1, <2>2
  <1>4. Book(d, born) /\ curve.vT * curve.vS <= d.vT * d.vS
    BY <1>2, <1>3, ReturnedKeepsBook
  <1>5. OrdersOK'
    BY <1>1, OrdersStay DEF IInv
  <1> HIDE DEF d
  <1>6. Book(curve', born) /\ curve.vT * curve.vS <= curve'.vT * curve'.vS
    BY <1>1, <1>4, Zenon
  <1> QED
    BY <1>1, <1>5, <1>6, TradeOK

LEMMA LandsOK ==
    ASSUME IInv, NEW u \in Users, Lands(u)
    PROVE  IInv' /\ ProductStep
  <1> DEFINE o == order[u]
             out == SellSolQuote(o.n, curve.vT, curve.vS)
  <1>1. /\ o # NoOrder /\ Acceptable(o, global, curve, supply)
        /\ (o.kind = "sell" => o.n <= born.rT - curve.rT)
        /\ curve' = IF o.kind = "buy" THEN Bought(curve, o.n) ELSE Returned(curve, o.n, out)
        /\ order' = [order EXCEPT ![u] = NoOrder]
        /\ UNCHANGED << global, cached, born, supply, launch >>
    BY DEF Lands
  <1>2. launch.fate = "landed" /\ o.n \in Nat \ {0}
    BY <1>1 DEF IInv, OrdersOK, OrderOK
  <1>3. Live /\ o.kind \in {"buy", "sell"}
    BY <1>1, <1>2 DEF Acceptable, Live
  <1>4. born \in Globals /\ Book(curve, born) /\ ~curve.complete
    BY <1>3, LiveBook
  <1>5. OrdersOK'
    BY <1>1, OrderGone DEF IInv
  <1> HIDE DEF o
  <1>6. Book(curve', born) /\ curve.vT * curve.vS <= curve'.vT * curve'.vS
    <2>1. CASE o.kind = "buy"
      <3>1. /\ Book(Bought(curve, o.n), born)
            /\ curve.vT * curve.vS <= Bought(curve, o.n).vT * Bought(curve, o.n).vS
        BY <1>2, <1>4, BoughtKeepsBook
      <3>2. curve' = Bought(curve, o.n)
        BY <1>1, <2>1
      <3> QED
        BY <3>1, <3>2, Zenon
    <2>2. CASE o.kind = "sell"
      <3> DEFINE d == Returned(curve, o.n, out)
      <3>1. Book(d, born) /\ curve.vT * curve.vS <= d.vT * d.vS
        BY <1>1, <1>2, <1>4, <2>2, ReturnedKeepsBook
      <3>2. curve' = d
        BY <1>1, <2>2
      <3> HIDE DEF d
      <3> QED
        BY <3>1, <3>2, Zenon
    <2> QED
      BY <1>3, <2>1, <2>2
  <1> QED
    BY <1>1, <1>3, <1>5, <1>6, TradeOK

LEMMA LaunchOK ==
    ASSUME IInv, NEW sol \in SolAmounts, Launch(sol)
    PROVE  IInv' /\ ProductStep
  <1> DEFINE n == amount_tokens(sol, cached.vT, cached.vS)
             c == CreatedFrom(global)
             lands == n > 0 /\ BuyCost(global, c, Supply, n) <= sol
             got == Least(n, c.rT)
  <1>1. /\ launch.fate = "none"
        /\ launch' = [fate |-> IF lands THEN "landed" ELSE "refused",
                      fresh |-> cached = global, quoted |-> n, got |-> got]
        /\ curve' = IF lands THEN Bought(c, n) ELSE curve
        /\ born' = IF lands THEN global ELSE born
        /\ UNCHANGED << global, cached, supply, order >>
    BY DEF Launch
  <1>2. /\ global \in Globals /\ cached \in Globals /\ born \in Globals /\ supply \in Int
        /\ sol \in Nat /\ curve \in Curves /\ curve = NoCurve
    BY <1>1, NoCurveType, GlobalsAssumption DEF IInv, TypeOK, NoCurveYet
  <1>3. n \in Nat /\ (n > 0 /\ cached = global => BuyCost(global, c, Supply, n) <= sol)
    BY <1>2, LaunchCost
  <1>4. Book(c, global) /\ ~c.complete /\ c.rT \in Nat
    BY <1>2, NewCurve DEF Book, Curves
  <1> HIDE DEF c, n
  <1>5. got \in Nat
    BY <1>3, <1>4, LeastBounds
  <1>6. lands => n \in Nat \ {0} /\ Book(Bought(c, n), global)
    BY <1>2, <1>3, <1>4, BoughtKeepsBook
  <1> HIDE DEF lands, got
  <1>7. /\ launch' \in [fate : {"none", "landed", "refused"}, fresh : BOOLEAN,
                         quoted : Nat, got : Nat]
        /\ launch'.fate = (IF lands THEN "landed" ELSE "refused")
        /\ launch'.fresh = (cached = global) /\ launch'.quoted = n
    BY <1>1, <1>3, <1>5
  <1>8. ProductStep
    BY <1>1 DEF ProductStep, Live
  <1>9. OrdersOK'
    <2>1. \A u \in Users : order[u] = NoOrder
      BY <1>1 DEF IInv, OrdersOK, OrderOK
    <2>2. \A u \in Users : OrderOK(order[u], launch') /\ Fresh(order[u])
      BY <2>1 DEF OrderOK, Fresh
    <2> QED
      BY <1>1, <2>2 DEF IInv, OrdersOK
  <1>10. CASE lands
    <2>1. Book(curve', born') /\ born' \in Globals /\ launch'.fate = "landed"
      BY <1>1, <1>2, <1>6, <1>7, <1>10
    <2>2. NoCurveYet' /\ BookOK' /\ LaunchBuyLands'
      BY <2>1 DEF NoCurveYet, BookOK, LaunchBuyLands
    <2>3. /\ curve' \in Curves /\ curve'.vS = born'.vS + curve'.rS
          /\ born'.vT - curve'.vT = born'.rT - curve'.rT
          /\ (curve'.rT = 0 <=> curve'.complete)
      BY <2>1 DEF Book
    <2>4. TypeOK'
      BY <1>1, <1>2, <1>7, <2>1, <2>3, Zenon DEF TypeOK, Curves
    <2> QED
      BY <1>8, <1>9, <2>2, <2>4 DEF IInv
  <1>11. CASE ~lands
    <2>1. launch'.fate = "refused" /\ curve' = curve /\ born' = born
      BY <1>1, <1>7, <1>11
    <2>2. NoCurveYet' /\ BookOK'
      BY <1>2, <2>1 DEF NoCurveYet, BookOK, NoCurve
    <2>3. LaunchBuyLands'
      BY <1>3, <1>7, <1>11 DEF LaunchBuyLands, lands
    <2>4. TypeOK'
      BY <1>1, <1>2, <1>7, <2>1, Zenon DEF TypeOK, Curves
    <2> QED
      BY <1>8, <1>9, <2>2, <2>3, <2>4 DEF IInv
  <1> QED
    BY <1>10, <1>11

(* The admins set the global account before the launch, when no books are  *)
(* kept.                                                                   *)
LEMMA SetParamsOK ==
    ASSUME IInv, NEW g \in Globals, SetParams(g)
    PROVE  IInv' /\ ProductStep
  <1>1. /\ launch.fate = "none" /\ global' = g
        /\ UNCHANGED << cached, curve, born, supply, launch, order >>
    BY DEF SetParams
  <1>2. OrdersOK' /\ ProductStep
    BY <1>1, OrdersStay, SameProduct DEF IInv
  <1>3. NoCurveYet' /\ BookOK' /\ LaunchBuyLands'
    BY <1>1 DEF IInv, NoCurveYet, BookOK, LaunchBuyLands
  <1>4. TypeOK'
    BY <1>1, Zenon DEF IInv, TypeOK
  <1> QED
    BY <1>2, <1>3, <1>4 DEF IInv

LEMMA BurnOK ==
    ASSUME IInv, NEW n \in TokenAmounts, Burn(n)
    PROVE  IInv' /\ ProductStep
  <1>1. /\ supply' = supply - n
        /\ UNCHANGED << global, cached, curve, born, launch, order >>
    BY DEF Burn
  <1>2. OrdersOK' /\ ProductStep
    BY <1>1, OrdersStay, SameProduct DEF IInv
  <1>3. NoCurveYet' /\ BookOK' /\ LaunchBuyLands'
    BY <1>1 DEF IInv, NoCurveYet, BookOK, LaunchBuyLands
  <1>4. supply' \in Int
    <2>1. supply \in Int /\ n \in Int
      BY GlobalsAssumption DEF IInv, TypeOK
    <2> QED
      BY <1>1, <2>1
  <1>5. TypeOK'
    BY <1>1, <1>4, Zenon DEF IInv, TypeOK
  <1> QED
    BY <1>2, <1>3, <1>5 DEF IInv

LEMMA RefusedOK ==
    ASSUME IInv, NEW u \in Users, Refused(u)
    PROVE  IInv' /\ ProductStep
  <1>1. /\ order' = [order EXCEPT ![u] = NoOrder]
        /\ UNCHANGED << global, cached, curve, born, supply, launch >>
    BY DEF Refused
  <1>2. OrdersOK' /\ ProductStep
    BY <1>1, OrderGone, SameProduct DEF IInv
  <1>3. NoCurveYet' /\ BookOK' /\ LaunchBuyLands'
    BY <1>1 DEF IInv, NoCurveYet, BookOK, LaunchBuyLands
  <1>4. TypeOK'
    BY <1>1, Zenon DEF IInv, TypeOK
  <1> QED
    BY <1>2, <1>3, <1>4 DEF IInv

(* A migrated curve is empty and complete: it has no books to keep. *)
LEMMA MigrateOK ==
    ASSUME IInv, Migrate
    PROVE  IInv' /\ ProductStep
  <1>1. /\ curve.complete /\ curve.vT > 0
        /\ curve' = [curve EXCEPT !.vT = 0, !.vS = 0, !.rT = 0, !.rS = 0]
        /\ UNCHANGED << global, cached, born, supply, launch, order >>
    BY DEF Migrate
  <1>2. curve \in Curves
    BY Zenon DEF IInv, TypeOK, Curves
  <1>3. curve' \in Curves /\ curve'.vT = 0 /\ curve'.complete
    BY <1>1, <1>2 DEF Curves
  <1>4. ProductStep
    BY <1>1 DEF ProductStep, Live
  <1>5. OrdersOK' /\ LaunchBuyLands'
    BY <1>1, OrdersStay DEF IInv, LaunchBuyLands
  <1>6. NoCurveYet'
    BY <1>1 DEF IInv, NoCurveYet, NoCurve
  <1>7. ~(curve'.vT > 0)
    BY <1>3
  <1>8. BookOK'
    BY <1>3, <1>7 DEF BookOK
  <1>9. TypeOK'
    BY <1>1, <1>3, <1>7, Zenon DEF IInv, TypeOK, Curves
  <1> QED
    BY <1>4, <1>5, <1>6, <1>8, <1>9 DEF IInv

------------------------------------------------------------------------------
(* Every step keeps the invariant and the product. *)
LEMMA NextOK == IInv /\ [Next]_vars => IInv' /\ (ProductStep \/ UNCHANGED vars)
  <1> SUFFICES ASSUME IInv, [Next]_vars PROVE IInv' /\ (ProductStep \/ UNCHANGED vars)
    OBVIOUS
  <1>1. CASE UNCHANGED vars
    <2>1. OrdersOK'
      BY <1>1, OrdersStay DEF IInv, vars
    <2>2. NoCurveYet' /\ BookOK' /\ LaunchBuyLands'
      BY <1>1 DEF IInv, NoCurveYet, BookOK, LaunchBuyLands, vars
    <2>3. TypeOK'
      BY <1>1, Zenon DEF IInv, TypeOK, vars
    <2> QED
      BY <1>1, <2>1, <2>2, <2>3 DEF IInv
  <1>2. CASE \E sol \in SolAmounts : Launch(sol) \/ WalletBuy(sol)
    BY <1>2, LaunchOK, WalletBuyOK
  <1>3. CASE \E n \in TokenAmounts : Sell(n) \/ Burn(n)
    BY <1>3, SellOK, BurnOK
  <1>4. CASE \E u \in Users, s \in Slippages :
               \/ \E sol \in SolAmounts : PlaceBuyForSol(u, sol, s)
               \/ \E n \in TokenAmounts : PlaceBuyOfTokens(u, n, s) \/ PlaceSell(u, n, s)
    BY <1>4, PlaceBuyForSolOK, PlaceBuyOfTokensOK, PlaceSellOK
  <1>5. CASE \E u \in Users : Lands(u) \/ Refused(u)
    BY <1>5, LandsOK, RefusedOK
  <1>6. CASE \E g \in Globals : SetParams(g)
    BY <1>6, SetParamsOK
  <1>7. CASE Migrate
    BY <1>7, MigrateOK
  <1> QED
    BY <1>1, <1>2, <1>3, <1>4, <1>5, <1>6, <1>7 DEF Next

THEOREM InvariantOK == Spec => []IInv
  BY InitOK, NextOK, PTL DEF Spec

(* The reserves keep their type, and the virtual ones are the real ones    *)
(* plus what was never real (Trade's account of bondingCurve.ts).          *)
THEOREM TypeCorrect == Spec => []TypeOK
  <1>1. IInv => TypeOK
    BY DEF IInv
  <1> QED
    BY <1>1, InvariantOK, PTL

(* The lamports in the curve pay for every token outside it (the rounding  *)
(* of the quotes of bondingCurve.ts).                                      *)
THEOREM CurveSolvent == Spec => []Solvent
  BY SolventOK, InvariantOK, PTL

(* The launch buy of quote.rs is never refused for its price while the     *)
(* global account is the one the bot read.                                 *)
THEOREM LaunchBuy == Spec => []LaunchBuyLands
  <1>1. IInv => LaunchBuyLands
    BY DEF IInv
  <1> QED
    BY <1>1, InvariantOK, PTL

(* An order that lands on the curve it was quoted on is accepted, with two *)
(* lamports of slippage (sdk.ts, bondingCurve.ts, fees.ts).                *)
THEOREM FreshQuotes == Spec => []FreshQuotesLand
  <1>1. IInv => FreshQuotesLand
    BY DEF IInv, OrdersOK, Fresh, FreshQuotesLand
  <1> QED
    BY <1>1, InvariantOK, PTL

(* No trade lowers the product of the virtual reserves. *)
THEOREM ProductHolds == Spec => ProductNeverFalls
  <1>1. IInv /\ [Next]_vars
          => [Live /\ curve'.vT > 0 => curve'.vT * curve'.vS >= curve.vT * curve.vS]_vars
    BY NextOK DEF ProductStep
  <1> QED
    BY <1>1, InvariantOK, PTL DEF Spec, ProductNeverFalls

==============================================================================
