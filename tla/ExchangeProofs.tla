--------------------------- MODULE ExchangeProofs ---------------------------
(***************************************************************************)
(* The way of an order to the exchange and of an event back, for every     *)
(* value of the constants of MCExchange: RestInv is inductive and gives    *)
(* OrderRight of RestCall, StreamInv is inductive and gives ExactlyOnce of *)
(* UserStream, PaperInv is inductive and gives AccountRight and OnlyReduces *)
(* of the simulated exchange, which shares nothing with the other two.     *)
(***************************************************************************)
EXTENDS MCExchange, SequenceTheorems, WellFoundedInduction, TLAPS

----------------------------------------------------------------------------
(* Arithmetic of the small coin.                                            *)

LEMMA WholeShare ==
  ASSUME NEW x \in Int, NEW s \in Nat \ {0} PROVE (x * s) \div s = x
OBVIOUS

LEMMA PartShare ==
  ASSUME NEW x \in Nat \ {0}, NEW c \in Nat, NEW s \in Nat \ {0}, c < s
  PROVE  (x * c) \div s \in Nat /\ (x * c) \div s < x
OBVIOUS

LEMMA ValueShare ==
  ASSUME NEW amt \in Nat \ {0}, NEW c \in Nat, NEW f \in Nat PROVE (amt * f * c) \div amt = f * c
OBVIOUS

LEMMA Halves ==
  ASSUME NEW x \in Int, NEW s \in Nat \ {0}
  PROVE  x \div s \in Int /\ (x \in Nat => x \div s \in Nat)
OBVIOUS

LEMMA AtLeastOne ==
  ASSUME Lev \in Nat \ {0}, NEW n \in Nat \ {0}, NEW f \in Nat, f >= Lev
  PROVE  f * n \in Nat /\ f * n > 0 /\ (f * n) \div Lev \in Nat /\ (f * n) \div Lev > 0
<1>1. f * n >= f /\ f * n \in Nat /\ f > 0
  OBVIOUS
<1> DEFINE m == f * n
<1>2. m \in Nat /\ m >= Lev
  BY <1>1
<1> HIDE DEF m
<1>3. m \div Lev \in Nat /\ m \div Lev > 0
  BY <1>2
<1> QED
  BY <1>1, <1>3 DEF m

LEMMA Constants ==
  /\ Lev \in Nat \ {0} /\ FeeDiv \in Nat \ {0} /\ MmrDiv \in Nat \ {0} /\ MmrDiv - 1 \in Nat \ {0}
  /\ Qty \in Nat \ {0} /\ Face \in Nat \ {0} /\ Wallet0 \in Nat /\ MaxTid \in Nat /\ Slip \in Nat
  /\ Prices \subseteq Nat \ {0} /\ \A p \in Prices : p > Slip
BY PaperAssumption DEF PaperAssumption

----------------------------------------------------------------------------
(* An account that adds up, with n fills ever made.                         *)

Account(n) ==
  [wallet : Int, pos : Int, value : Nat, margin : Nat, algos : Seq(Algos),
   income : Int, taken : Nat, tid : Nat, fills : Seq(1..n)]

AddsUp(g, n) ==
  /\ g \in Account(n) /\ Len(g.fills) = g.tid
  /\ g.wallet + g.taken = Wallet0 + g.income
  /\ (g.pos = 0) = (g.margin = 0) /\ (g.pos = 0) = (g.value = 0)

\* A fill of a step: it closes the whole position, or it is worth amt contracts at
\* a price at which a contract has a margin.
Priced(g, side, amt, v) ==
  \/ g.pos * side < 0 /\ amt = Size(g.pos) /\ v \in Int
  \/ \E f \in Nat : f >= Lev /\ v = amt * f

\* The account has n - trades fills more than at the start of the step.
Counting(g, n) ==
  trades \in Nat /\ gw.fills \in Seq(1..trades) /\ n = trades + Len(g.fills) - Len(gw.fills)

LEMMA Signs ==
  ASSUME NEW x \in Int
  PROVE  /\ Sgn(x) \in {-1, 0, 1} /\ Size(x) \in Nat /\ (Size(x) = 0) = (x = 0)
         /\ x = Sgn(x) * Size(x)
         /\ x > 0 => Sgn(x) = 1 /\ Size(x) = x
         /\ x < 0 => Sgn(x) = -1 /\ Size(x) = -x
         /\ x = 0 => Sgn(x) = 0
BY DEF Sgn, Size

\* What c contracts of a position take with them of its value or its margin.
LEMMA Taken ==
  ASSUME NEW pos \in Int, NEW x \in Nat, (pos = 0) <=> (x = 0), NEW c \in Nat, c <= Size(pos)
  PROVE  /\ c = Size(pos) /\ c # 0 => Share(x, c, pos) = x
         /\ c < Size(pos) /\ c # 0 => Share(x, c, pos) \in Nat /\ Share(x, c, pos) < x
<1>1. Size(pos) \in Nat /\ ((Size(pos) = 0) <=> (pos = 0))
  BY Signs
<1>2. CASE c # 0 /\ c = Size(pos)
  <2>1. Share(x, c, pos) = x
    BY <1>1, <1>2, WholeShare DEF Share
  <2> QED
    BY <1>2, <2>1
<1>3. CASE c # 0 /\ c < Size(pos)
  <2>1. x \in Nat \ {0} /\ Size(pos) \in Nat \ {0}
    BY <1>1, <1>3
  <2>2. Share(x, c, pos) \in Nat /\ Share(x, c, pos) < x
    BY <1>3, <2>1, PartShare DEF Share
  <2> QED
    BY <1>3, <2>2
<1> QED
  BY <1>2, <1>3

\* What the other contracts of a fill bring.
LEMMA Brought ==
  ASSUME NEW amt \in Nat \ {0}, NEW c \in Nat, c <= amt, NEW v \in Int,
         c = amt \/ \E f \in Nat : f >= Lev /\ v = amt * f
  PROVE  LET vIn == v - (v * c) \div amt IN
         /\ (v * c) \div amt \in Int
         /\ c = amt => vIn = 0 /\ vIn \div Lev = 0
         /\ c # amt => vIn \in Nat /\ vIn > 0 /\ vIn \div Lev \in Nat /\ vIn \div Lev > 0
<1> DEFINE vOut == (v * c) \div amt
<1>0. Lev \in Nat \ {0}
  BY Constants
<1>1. CASE c = amt
  <2>1. vOut = v
    BY <1>1, WholeShare
  <2>2. v - v = 0 /\ 0 \div Lev = 0
    BY <1>0
  <2> QED
    BY <1>1, <2>1, <2>2
<1>2. CASE c # amt
  <2>1. PICK f \in Nat : f >= Lev /\ v = amt * f
    BY <1>2
  <2>2. vOut = f * c
    BY <2>1, ValueShare
  <2>3. v - f * c = f * (amt - c) /\ amt - c \in Nat \ {0} /\ f * c \in Int
    BY <1>2, <2>1
  <2> HIDE DEF vOut
  <2>4. v - vOut \in Nat /\ v - vOut > 0 /\ (v - vOut) \div Lev \in Nat /\ (v - vOut) \div Lev > 0
    BY <1>0, <2>1, <2>2, <2>3, AtLeastOne
  <2> QED
    BY <1>2, <2>2, <2>3, <2>4 DEF vOut
<1> QED
  BY <1>1, <1>2

\* What the position has after it.
LEMMA Remains ==
  ASSUME NEW pos \in Int, NEW side \in {1, -1}, NEW amt \in Nat \ {0}, NEW c \in Nat,
         c = IF pos * side < 0 THEN Smaller(amt, Size(pos)) ELSE 0
  PROVE  /\ c <= amt /\ c <= Size(pos)
         /\ (pos + side * amt = 0) <=> (c = amt /\ c = Size(pos))
         /\ c < Size(pos) => c = amt \/ c = 0
         /\ c = 0 => pos * side >= 0
<1>1. CASE side = 1
  BY <1>1 DEF Smaller, Size, Sgn
<1>2. CASE side = -1
  BY <1>2 DEF Smaller, Size, Sgn
<1> QED
  BY <1>1, <1>2

LEMMA TradeSums ==
  ASSUME NEW pos \in Int, NEW x \in Nat, (pos = 0) <=> (x = 0),
         NEW size \in Nat, NEW amt \in Nat \ {0}, NEW c \in Nat, NEW new \in Int, NEW away, NEW more,
         c <= amt, c <= size, c = 0 \/ pos # 0, (size = 0) <=> (pos = 0),
         (new = 0) <=> (c = amt /\ c = size),
         away = 0 \/ c # 0, c = 0 => away = 0,
         c # 0 /\ c = size => away = x,
         c # 0 /\ c < size => away \in Nat /\ away < x,
         c = amt => more = 0, c # amt => more \in Nat /\ more > 0
  PROVE  x - away + more \in Nat /\ ((new = 0) <=> (x - away + more = 0))
<1>1. away \in Nat /\ away <= x /\ (c # size => away < x \/ c = 0) /\ (c = size => away = x)
  OBVIOUS
<1>2. more \in Nat /\ (more = 0 <=> c = amt)
  OBVIOUS
<1> QED
  BY <1>1, <1>2

\* Sums.
LEMMA NextNumber ==
  ASSUME NEW t \in Nat, NEW a \in Nat, NEW b \in Nat
  PROVE  t + 1 + a - b = (t + a - b) + 1 /\ t + (a + 1) - b = (t + a - b) + 1
OBVIOUS

LEMMA BothBooked ==
  ASSUME NEW w \in Int, NEW i \in Int, NEW t \in Int, NEW r \in Int, NEW f \in Int, NEW s \in Int, w + t = s + i
  PROVE  w + r - f \in Int /\ i + r - f \in Int /\ (w + r - f) + t = s + (i + r - f)
OBVIOUS

LEMMA SignedSum ==
  ASSUME NEW x \in Int, NEW side \in {1, -1}, NEW k \in Nat PROVE x + side * k \in Int
OBVIOUS

LEMMA TradeParts ==
  ASSUME NEW n \in Nat, NEW g, AddsUp(g, n), Counting(g, n),
         NEW side \in PaperSides, NEW amt \in Nat \ {0}, NEW v \in Int, NEW fee \in Int,
         Priced(g, side, amt, v)
  PROVE  /\ AddsUp(Trade(g, side, amt, v, fee), n + 1)
         /\ Trade(g, side, amt, v, fee).pos = g.pos + side * amt
         /\ Trade(g, side, amt, v, fee).algos = g.algos
         /\ Trade(g, side, amt, v, fee).fills = Append(g.fills, n + 1)
<1> DEFINE c    == IF g.pos * side < 0 THEN Smaller(amt, Size(g.pos)) ELSE 0
           out  == IF c = 0 THEN 0 ELSE Share(g.value, c, g.pos)
           free == IF c = 0 THEN 0 ELSE Released(g, c)
           vOut == (v * c) \div amt
           real == Sgn(g.pos) * (out - vOut)
           vIn  == v - vOut
           mIn  == vIn \div Lev
           num  == trades + 1 + Len(g.fills) - Len(gw.fills)
           new  == g.pos + side * amt
           val  == g.value - out + vIn
           mar  == g.margin - free + mIn
           wal  == g.wallet + real - fee
           inc  == g.income + real - fee
           tids == g.tid + 1
           fls  == Append(g.fills, num)
           h    == [g EXCEPT !.pos = new, !.value = val, !.margin = mar, !.wallet = wal,
                             !.income = inc, !.tid = tids, !.fills = fls]
<1>1. /\ g \in Account(n) /\ g.wallet \in Int /\ g.pos \in Int /\ g.value \in Nat /\ g.margin \in Nat
      /\ g.income \in Int /\ g.taken \in Nat /\ g.tid \in Nat /\ g.fills \in Seq(1..n) /\ g.algos \in Seq(Algos)
  BY DEF AddsUp, Account
<1>2. Len(g.fills) = g.tid /\ g.wallet + g.taken = Wallet0 + g.income
  BY Zenon DEF AddsUp
<1>3. (g.pos = 0 <=> g.margin = 0) /\ (g.pos = 0 <=> g.value = 0)
  BY DEF AddsUp
<1>4. Trade(g, side, amt, v, fee) = h
  BY DEF Trade
<1>5. side \in {1, -1} /\ Size(g.pos) \in Nat /\ (Size(g.pos) = 0 <=> g.pos = 0) /\ Sgn(g.pos) \in {-1, 0, 1}
  BY <1>1, Signs DEF PaperSides
<1>6. c \in Nat /\ c = IF g.pos * side < 0 THEN Smaller(amt, Size(g.pos)) ELSE 0
  BY <1>5 DEF Smaller
<1> HIDE DEF c
<1>7. /\ c <= amt /\ c <= Size(g.pos)
      /\ (new = 0) <=> (c = amt /\ c = Size(g.pos))
      /\ c < Size(g.pos) => c = amt \/ c = 0
      /\ c = 0 => g.pos * side >= 0
  <2>1. g.pos \in Int
    BY <1>1
  <2> QED
    BY <1>5, <1>6, <2>1, Remains
<1> HIDE DEF new
<1>8. c = amt \/ \E f \in Nat : f >= Lev /\ v = amt * f
  BY <1>5, <1>6 DEF Priced, Smaller
<1>9. /\ vOut \in Int /\ vIn \in Int /\ mIn \in Int
      /\ c = amt => vIn = 0 /\ mIn = 0
      /\ c # amt => vIn \in Nat /\ vIn > 0 /\ mIn \in Nat /\ mIn > 0
  <2>1. /\ vOut \in Int
        /\ c = amt => vIn = 0 /\ mIn = 0
        /\ c # amt => vIn \in Nat /\ vIn > 0 /\ mIn \in Nat /\ mIn > 0
    BY <1>6, <1>7, <1>8, Brought, Zenon
  <2> HIDE DEF vOut, vIn, mIn
  <2> QED
    BY <2>1
<1> HIDE DEF vOut, vIn, mIn
<1>10. /\ c = 0 => out = 0 /\ free = 0
       /\ c # 0 /\ c = Size(g.pos) => out = g.value /\ free = g.margin
       /\ c # 0 /\ c < Size(g.pos) => out \in Nat /\ out < g.value /\ free \in Nat /\ free < g.margin
  <2>1. g.pos \in Int /\ g.value \in Nat /\ g.margin \in Nat
    BY <1>1
  <2>2. /\ c = Size(g.pos) /\ c # 0 => Share(g.value, c, g.pos) = g.value
        /\ c < Size(g.pos) /\ c # 0 => Share(g.value, c, g.pos) \in Nat /\ Share(g.value, c, g.pos) < g.value
    BY <1>3, <1>6, <1>7, <2>1, Taken
  <2>3. c < Size(g.pos) /\ c # 0 => Share(g.margin, c, g.pos) \in Nat /\ Share(g.margin, c, g.pos) < g.margin
    BY <1>3, <1>6, <1>7, <2>1, Taken
  <2>4. c < Size(g.pos) => c # Size(g.pos)
    BY <1>5, <1>6
  <2> QED
    BY <2>2, <2>3, <2>4, Zenon DEF Released
<1> HIDE DEF out, free
<1>11. c < Size(g.pos) \/ c = Size(g.pos)
  BY <1>5, <1>6, <1>7
<1>12. out \in Int /\ free \in Int
  <2>1. g.value \in Int /\ g.margin \in Int
    BY <1>1
  <2> QED
    BY <1>10, <1>11, <2>1
<1>13. real \in Int
  BY <1>5, <1>9, <1>12
<1> HIDE DEF real
<1>14. num = n + 1
  <2>1. Len(g.fills) \in Nat /\ Len(gw.fills) \in Nat
    BY <1>1, LenProperties DEF Counting
  <2>2. trades \in Nat /\ n = trades + Len(g.fills) - Len(gw.fills)
    BY Zenon DEF Counting
  <2>3. num = (trades + Len(g.fills) - Len(gw.fills)) + 1
    BY <2>1, <2>2, NextNumber, Zenon
  <2> QED
    BY <2>2, <2>3, Zenon
<1> HIDE DEF num
<1>15. new \in Int /\ (c = 0 \/ g.pos # 0)
  <2>1. g.pos \in Int /\ amt \in Nat
    BY <1>1
  <2>2. new \in Int
    BY <1>5, <2>1, SignedSum DEF new
  <2>3. c = 0 \/ g.pos # 0
    BY <1>5, <1>6, <1>7
  <2> QED
    BY <2>2, <2>3
<1>16. val \in Nat /\ (new = 0 <=> val = 0)
  <2>1. g.pos \in Int /\ g.value \in Nat
    BY <1>1
  <2> QED
    BY <1>3, <1>5, <1>6, <1>7, <1>9, <1>10, <1>15, <2>1, TradeSums
<1>17. mar \in Nat /\ (new = 0 <=> mar = 0)
  <2>1. g.pos \in Int /\ g.margin \in Nat
    BY <1>1
  <2> QED
    BY <1>3, <1>5, <1>6, <1>7, <1>9, <1>10, <1>15, <2>1, TradeSums
<1>18. wal \in Int /\ inc \in Int /\ wal + g.taken = Wallet0 + inc
  <2>1. g.wallet \in Int /\ g.income \in Int /\ g.taken \in Int /\ Wallet0 \in Int
    BY <1>1, Constants
  <2>2. g.wallet + g.taken = Wallet0 + g.income
    BY <1>2
  <2> QED
    BY <1>13, <2>1, <2>2, BothBooked
<1>19. fls \in Seq(1..(n + 1)) /\ Len(fls) = tids /\ tids \in Nat
  <2>1. 1..n \subseteq 1..(n + 1) /\ n + 1 \in 1..(n + 1)
    OBVIOUS
  <2>2. g.fills \in Seq(1..(n + 1))
    BY <1>1, <2>1, SeqMonotonic
  <2>3. Append(g.fills, n + 1) \in Seq(1..(n + 1)) /\ Len(Append(g.fills, n + 1)) = Len(g.fills) + 1
    BY <2>1, <2>2, AppendProperties
  <2> QED
    BY <1>1, <1>2, <1>14, <2>3
<1> HIDE DEF val, mar, wal, inc, tids
<1>20. /\ h.pos = new /\ h.value = val /\ h.margin = mar /\ h.wallet = wal /\ h.income = inc
       /\ h.taken = g.taken /\ h.tid = tids /\ h.fills = fls /\ h.algos = g.algos
  <2> HIDE DEF fls
  <2> QED
    BY <1>1 DEF Account
<1>21. h \in Account(n + 1)
  <2>1. fls \in Seq(1..(n + 1))
    BY <1>19
  <2> HIDE DEF fls
  <2> QED
    BY <1>1, <1>15, <1>16, <1>17, <1>18, <1>19, <2>1 DEF Account
<1> HIDE DEF h
<1>22. AddsUp(h, n + 1)
  BY <1>16, <1>17, <1>18, <1>19, <1>20, <1>21 DEF AddsUp
<1> QED
  BY <1>4, <1>14, <1>20, <1>22 DEF new

----------------------------------------------------------------------------
(* Orders, triggers and liquidation.                                        *)

\* A position moves towards nothing, and not beyond.
Toward(x, y) == y * Sgn(x) \in 0..Size(x) /\ (x = 0 => y = 0)

LEMMA TowardRoots ==
  ASSUME NEW x \in Int
  PROVE  Toward(x, x) /\ Toward(x, 0)
BY DEF Toward, Sgn, Size

LEMMA TowardOn ==
  ASSUME NEW x \in Int, NEW y \in Int, NEW z \in Int, Toward(x, y), Toward(y, z)
  PROVE  Toward(x, z)
<1>1. CASE x > 0
  BY <1>1 DEF Toward, Sgn, Size
<1>2. CASE x < 0
  BY <1>2 DEF Toward, Sgn, Size
<1>3. CASE x = 0
  BY <1>3 DEF Toward, Sgn, Size
<1> QED
  BY <1>1, <1>2, <1>3

\* A trade against the position, of at most its size.
LEMMA Against ==
  ASSUME NEW x \in Int, NEW side \in {1, -1}, NEW amt \in Nat, x * side < 0, amt <= Size(x)
  PROVE  Toward(x, x + side * amt)
<1>1. CASE x > 0
  BY <1>1 DEF Toward, Sgn, Size
<1>2. CASE x < 0
  BY <1>2 DEF Toward, Sgn, Size
<1> QED
  BY <1>1, <1>2

LEMMA Opposite ==
  ASSUME NEW x \in Int, x # 0
  PROVE  /\ Size(x) \in Nat \ {0} /\ -Sgn(x) \in {1, -1}
         /\ x * (-Sgn(x)) < 0 /\ x + (-Sgn(x)) * Size(x) = 0
<1>1. CASE x > 0
  <2>1. Sgn(x) = 1 /\ Size(x) = x
    BY <1>1 DEF Sgn, Size
  <2>2. -1 \in {1, -1} /\ x * (-1) < 0 /\ x + (-1) * x = 0
    BY <1>1
  <2> QED
    BY <1>1, <2>1, <2>2
<1>2. CASE x < 0
  <2>0. Sgn(x) = -1 /\ Size(x) = -x
    BY <1>2, Signs
  <2>3. \A y \in Int : y + 1 = 0 => -y = 1
    OBVIOUS
  <2>4. Sgn(x) \in Int /\ Sgn(x) + 1 = 0
    BY <2>0
  <2>1. Sgn(x) = -1 /\ Size(x) = -x /\ -Sgn(x) = 1
    BY <2>0, <2>3, <2>4, Zenon
  <2>2. x * 1 < 0 /\ x + 1 * (-x) = 0 /\ -x \in Nat \ {0}
    BY <1>2
  <2> QED
    BY <1>2, <2>1, <2>2
<1> QED
  BY <1>1, <1>2

LEMMA MarketParts ==
  ASSUME NEW n \in Nat, NEW g, AddsUp(g, n), Counting(g, n),
         NEW side \in PaperSides, NEW amt \in Nat \ {0}, NEW p \in Prices
  PROVE  LET h == Market(g, side, amt, p) IN
         /\ AddsUp(h, n + 1) /\ h.pos = g.pos + side * amt /\ h.algos = g.algos
         /\ h.fills = Append(g.fills, n + 1)
<1> DEFINE f == Face \div Slipped(p, side)
           v == amt * f
<1>1. side \in {1, -1} /\ p \in Nat /\ p > Slip /\ Slip \in Nat /\ Lev \in Nat \ {0} /\ Face \in Nat
  BY Constants DEF PaperSides
<1>2. f \in Nat /\ f >= Lev
  <2>1. CASE side = 1
    <3>1. Face \div (p + Slip) >= Lev
      BY PaperAssumption DEF PaperAssumption
    <3>2. Slipped(p, side) = p + Slip /\ p + Slip \in Nat \ {0}
      BY <1>1, <2>1 DEF Slipped
    <3> QED
      BY <1>1, <3>1, <3>2, Halves
  <2>2. CASE side = -1
    <3>1. Face \div (p + (-Slip)) >= Lev
      BY PaperAssumption DEF PaperAssumption
    <3>2. Slipped(p, side) = p + (-Slip) /\ p + (-Slip) \in Nat \ {0}
      BY <1>1, <2>2 DEF Slipped
    <3> QED
      BY <1>1, <3>1, <3>2, Halves
  <2> QED
    BY <1>1, <2>1, <2>2
<1>3. Market(g, side, amt, p) = Trade(g, side, amt, v, v \div FeeDiv)
  BY Zenon DEF Market, Value
<1> HIDE DEF f
<1>4. v \in Int
  BY <1>2
<1>5. Priced(g, side, amt, v)
  BY <1>2 DEF Priced
<1> HIDE DEF v
<1>6. v \div FeeDiv \in Int
  BY <1>4, Constants, Halves
<1> QED
  <2> DEFINE fee == v \div FeeDiv
  <2> HIDE DEF fee
  <2>1. /\ AddsUp(Trade(g, side, amt, v, fee), n + 1)
        /\ Trade(g, side, amt, v, fee).pos = g.pos + side * amt
        /\ Trade(g, side, amt, v, fee).algos = g.algos
        /\ Trade(g, side, amt, v, fee).fills = Append(g.fills, n + 1)
    BY <1>4, <1>5, <1>6, TradeParts DEF fee
  <2> QED
    BY <1>3, <2>1, Zenon DEF fee

\* What holds of the account all along an update of the prices.
Apart(as, qt) == \A i \in DOMAIN as : ~Reached(as[i], Reference(as[i], qt))

Grown(g, h) ==
  /\ \E m \in Nat : AddsUp(h, m) /\ Counting(h, m)
  /\ Len(g.fills) <= Len(h.fills) /\ \A i \in 1..Len(g.fills) : h.fills[i] = g.fills[i]

Carried(g, h) == Grown(g, h) /\ Toward(g.pos, h.pos)

LEMMA AccountFields ==
  ASSUME NEW n \in Nat, NEW g, AddsUp(g, n)
  PROVE  /\ g \in Account(n) /\ g.wallet \in Int /\ g.pos \in Int /\ g.value \in Nat /\ g.margin \in Nat
         /\ g.income \in Int /\ g.taken \in Nat /\ g.tid \in Nat /\ g.fills \in Seq(1..n) /\ g.algos \in Seq(Algos)
         /\ Len(g.fills) = g.tid /\ Len(g.fills) \in Nat
BY LenProperties DEF AddsUp, Account

\* One fill more is in its place.
LEMMA OneMore ==
  ASSUME NEW n \in Nat, NEW g, AddsUp(g, n), Counting(g, n), NEW h, AddsUp(h, n + 1),
         h.fills = Append(g.fills, n + 1)
  PROVE  Grown(g, h)
<1>1. g.fills \in Seq(1..n)
  BY AccountFields
<1>2. Len(h.fills) = Len(g.fills) + 1 /\ Len(g.fills) \in Nat /\ \A i \in 1..Len(g.fills) : h.fills[i] = g.fills[i]
  BY <1>1, AppendProperties
<1>3. Len(gw.fills) \in Nat
  BY LenProperties DEF Counting
<1>4. n + 1 = trades + Len(h.fills) - Len(gw.fills) /\ trades \in Nat /\ gw.fills \in Seq(1..trades)
  <2>1. trades \in Nat /\ n = trades + Len(g.fills) - Len(gw.fills) /\ gw.fills \in Seq(1..trades)
    BY Zenon DEF Counting
  <2>2. trades + (Len(g.fills) + 1) - Len(gw.fills) = (trades + Len(g.fills) - Len(gw.fills)) + 1
    <3>1. trades \in Nat /\ Len(g.fills) \in Nat /\ Len(gw.fills) \in Nat
      BY <1>2, <1>3, <2>1
    <3> QED
      BY <3>1, NextNumber, Zenon
  <2> QED
    BY <1>2, <2>1, <2>2, Zenon
<1>5. n + 1 \in Nat /\ Counting(h, n + 1)
  BY <1>4 DEF Counting
<1>6. Len(g.fills) <= Len(h.fills)
  BY <1>2
<1> QED
  BY <1>2, <1>5, <1>6 DEF Grown

LEMMA CarriedRoot ==
  ASSUME NEW n \in Nat, NEW g, AddsUp(g, n), Counting(g, n) PROVE Carried(g, g)
<1>1. g.pos \in Int /\ Len(g.fills) \in Nat
  BY AccountFields
<1> QED
  BY <1>1, TowardRoots DEF Carried, Grown

LEMMA CarriedOn ==
  ASSUME NEW n \in Nat, NEW g, AddsUp(g, n), NEW h, NEW k, Carried(g, h), Carried(h, k)
  PROVE  Carried(g, k)
<1>1. g.pos \in Int /\ Len(g.fills) \in Nat
  BY AccountFields
<1>2. h.pos \in Int /\ Len(h.fills) \in Nat
  BY AccountFields DEF Carried, Grown
<1>3. k.pos \in Int /\ Len(k.fills) \in Nat
  BY AccountFields DEF Carried, Grown
<1>4. Toward(g.pos, k.pos)
  BY <1>1, <1>2, <1>3, TowardOn DEF Carried, Grown
<1>5. Len(g.fills) <= Len(k.fills) /\ \A i \in 1..Len(g.fills) : k.fills[i] = g.fills[i]
  <2>1. Len(g.fills) <= Len(h.fills) /\ Len(h.fills) <= Len(k.fills)
    BY DEF Carried, Grown
  <2>2. /\ \A i \in 1..Len(g.fills) : h.fills[i] = g.fills[i]
        /\ \A i \in 1..Len(h.fills) : k.fills[i] = h.fills[i]
    BY DEF Carried, Grown
  <2>3. \A i \in 1..Len(g.fills) : i \in 1..Len(h.fills)
    BY <1>1, <1>2, <2>1
  <2> QED
    BY <1>1, <1>2, <1>3, <2>1, <2>2, <2>3
<1> QED
  BY <1>4, <1>5 DEF Carried, Grown

\* A trigger takes at most the position.
LEMMA TriggeredParts ==
  ASSUME NEW n \in Nat, NEW g, AddsUp(g, n), Counting(g, n), NEW a \in Algos, NEW l \in Prices
  PROVE  Carried(g, Triggered(g, a, l)) /\ Triggered(g, a, l).algos = g.algos
<1>0. g.pos \in Int /\ Size(g.pos) \in Nat /\ (Size(g.pos) = 0 <=> g.pos = 0)
  BY AccountFields, Signs
<1>1. a.side \in {1, -1} /\ a.qty \in Nat
  BY Constants DEF Algos, PaperSides
<1>2. CASE Useless(g, a)
  BY <1>2, CarriedRoot DEF Triggered
<1>3. CASE ~Useless(g, a)
  <2> DEFINE amt == IF a.qty = 0 THEN Size(g.pos) ELSE Smaller(a.qty, Size(g.pos))
             h   == Market(g, a.side, amt, l)
  <2>1. Triggered(g, a, l) = h
    BY <1>3, Zenon DEF Triggered
  <2>2. g.pos # 0 /\ Sgn(g.pos) # a.side
    BY <1>3 DEF Useless
  <2>3. g.pos * a.side < 0
    BY <1>0, <1>1, <2>2 DEF Sgn
  <2>4. amt \in Nat \ {0} /\ amt <= Size(g.pos)
    BY <1>0, <1>1, <2>2 DEF Smaller
  <2> HIDE DEF amt
  <2>5. AddsUp(h, n + 1) /\ h.pos = g.pos + a.side * amt /\ h.algos = g.algos /\ h.fills = Append(g.fills, n + 1)
    <3>1. a.side \in PaperSides
      BY <1>1 DEF PaperSides
    <3> QED
      BY <2>4, <3>1, MarketParts, Zenon
  <2> HIDE DEF h
  <2>6. Toward(g.pos, h.pos)
    BY <1>0, <1>1, <2>3, <2>4, <2>5, Against
  <2> QED
    BY <2>1, <2>5, <2>6, OneMore DEF Carried
<1> QED
  BY <1>2, <1>3

\* The account with other conditional orders.
WithAlgos(g, h, as) == as \in Seq(Algos) /\ h = [g EXCEPT !.algos = as]

\* An account with other conditional orders is as good.
LEMMA OtherAlgos ==
  ASSUME NEW n \in Nat, NEW g, AddsUp(g, n), Counting(g, n), NEW as, NEW h, WithAlgos(g, h, as)
  PROVE  /\ AddsUp(h, n) /\ Counting(h, n) /\ Carried(g, h) /\ h.algos = as
         /\ h.pos = g.pos /\ h.fills = g.fills /\ h.tid = g.tid
<1>1. g \in Account(n)
  BY DEF AddsUp
<1>2. /\ h \in Account(n) /\ h.algos = as /\ h.pos = g.pos /\ h.fills = g.fills /\ h.tid = g.tid
      /\ h.wallet = g.wallet /\ h.value = g.value /\ h.margin = g.margin /\ h.income = g.income /\ h.taken = g.taken
  BY <1>1 DEF Account, WithAlgos
<1>3. AddsUp(h, n) /\ Counting(h, n)
  BY <1>2 DEF AddsUp, Counting
<1>4. Carried(g, h)
  <2>1. Len(g.fills) \in Nat /\ g.pos \in Int
    BY AccountFields
  <2> QED
    BY <1>2, <1>3, <2>1, TowardRoots DEF Carried, Grown
<1> QED
  BY <1>2, <1>3, <1>4

\* A conditional order of an update: triggered, or kept because its price is not
\* reached.
LEMMA VisitedParts ==
  ASSUME NEW g, (\E m \in Nat : AddsUp(g, m) /\ Counting(g, m)), NEW a \in Algos,
         NEW qt, qt.last \in Prices, Apart(g.algos, qt)
  PROVE  Carried(g, Visited(g, a, qt)) /\ Apart(Visited(g, a, qt).algos, qt)
<1>1. PICK n \in Nat : AddsUp(g, n) /\ Counting(g, n)
  OBVIOUS
<1>2. CASE Reached(a, Reference(a, qt))
  BY <1>1, <1>2, TriggeredParts DEF Visited
<1>3. CASE ~Reached(a, Reference(a, qt))
  <2> DEFINE h == [g EXCEPT !.algos = Append(g.algos, a)]
  <2>1. Visited(g, a, qt) = h
    BY <1>3 DEF Visited
  <2>2. g.algos \in Seq(Algos)
    BY <1>1, AccountFields
  <2>3. Append(g.algos, a) \in Seq(Algos)
    BY <2>2, AppendProperties
  <2>4. Carried(g, h) /\ h.algos = Append(g.algos, a)
    <3>1. WithAlgos(g, h, Append(g.algos, a))
      BY <2>3 DEF WithAlgos
    <3> HIDE DEF h
    <3> QED
      <4>1. Carried(g, h)
        BY <1>1, <3>1, OtherAlgos
      <4>2. h.algos = Append(g.algos, a)
        BY <1>1, <3>1 DEF WithAlgos, AddsUp, Account
      <4> QED
        BY <4>1, <4>2
  <2>5. Apart(Append(g.algos, a), qt)
    <3>1. /\ DOMAIN Append(g.algos, a) = 1..(Len(g.algos) + 1) /\ DOMAIN g.algos = 1..Len(g.algos) /\ Len(g.algos) \in Nat
          /\ \A i \in 1..Len(g.algos) : Append(g.algos, a)[i] = g.algos[i]
          /\ Append(g.algos, a)[Len(g.algos) + 1] = a
      BY <2>2, AppendProperties, LenProperties
    <3>2. \A i \in 1..(Len(g.algos) + 1) : i \in 1..Len(g.algos) \/ i = Len(g.algos) + 1
      BY <3>1
    <3> QED
      BY <1>3, <3>1, <3>2, Zenon DEF Apart
  <2> QED
    BY <2>1, <2>4, <2>5
<1> QED
  BY <1>2, <1>3

----------------------------------------------------------------------------
(* The run over the conditional orders: it exists, and its steps are those of *)
(* Visited.                                                                 *)

RunUpTo(g, qt, m, f) ==
  f = [k \in 0..m |-> IF k = 0 THEN [g EXCEPT !.algos = <<>>] ELSE Visited(f[k - 1], g.algos[k], qt)]

LEMMA RunExists ==
  ASSUME NEW g, NEW qt PROVE \A m \in Nat : \E f : RunUpTo(g, qt, m, f)
<1> DEFINE Bad == {m \in Nat : ~\E f : RunUpTo(g, qt, m, f)}
           root == [g EXCEPT !.algos = <<>>]
<1> SUFFICES ASSUME Bad # {} PROVE FALSE
  OBVIOUS
<1>1. PICK m \in Bad : \A x \in Bad : ~(<<x, m>> \in OpToRel(<, Nat))
  BY NatLessThanWellFounded, WFMin, Zenon
<1>2. \A x \in Bad : ~(x < m)
  BY <1>1 DEF OpToRel
<1>3. CASE m = 0
  <2> DEFINE f == [k \in 0..0 |-> root]
  <2>1. \A k \in 0..0 : k = 0
    OBVIOUS
  <2>2. f = [k \in 0..0 |-> IF k = 0 THEN root ELSE Visited(f[k - 1], g.algos[k], qt)]
    BY <2>1, Zenon
  <2> QED
    BY <1>1, <1>3, <2>2, Zenon DEF RunUpTo
<1>4. CASE m # 0
  <2>1. m - 1 \in Nat /\ m - 1 < m /\ m \in Nat
    BY <1>4
  <2>2. PICK e : RunUpTo(g, qt, m - 1, e)
    BY <1>2, <2>1
  <2> DEFINE f == [k \in 0..m |-> IF k = m THEN Visited(e[m - 1], g.algos[m], qt) ELSE e[k]]
             F == [k \in 0..m |-> IF k = 0 THEN root ELSE Visited(f[k - 1], g.algos[k], qt)]
  <2>3. ASSUME NEW k \in 0..m PROVE f[k] = F[k]
    <3>1. CASE k = m
      <4>1. f[m - 1] = e[m - 1] /\ f[k] = Visited(e[m - 1], g.algos[m], qt)
        BY <2>1, <3>1
      <4> QED
        BY <1>4, <3>1, <4>1
    <3>2. CASE k # m /\ k = 0
      <4>1. k \in 0..(m - 1) /\ f[k] = e[k]
        BY <2>1, <3>2
      <4>2. e[k] = root
        BY <2>2, <3>2, <4>1, Zenon DEF RunUpTo
      <4> QED
        BY <3>2, <4>1, <4>2
    <3>3. CASE k # m /\ k # 0
      <4>1. k \in 0..(m - 1) /\ k - 1 \in 0..m /\ k - 1 # m
        BY <2>1, <3>3
      <4>2. e[k] = Visited(e[k - 1], g.algos[k], qt)
        BY <2>2, <3>3, <4>1, Zenon DEF RunUpTo
      <4>3. f[k] = e[k] /\ f[k - 1] = e[k - 1]
        BY <3>3, <4>1
      <4> QED
        BY <3>3, <4>2, <4>3
    <3> QED
      BY <3>1, <3>2, <3>3
  <2>4. f = F
    BY <2>3, Zenon
  <2> QED
    BY <1>1, <2>4, Zenon DEF RunUpTo
<1> QED
  BY <1>3, <1>4

\* All of them are dealt with.
LEMMA CheckedParts ==
  ASSUME NEW n \in Nat, NEW g, AddsUp(g, n), Counting(g, n), NEW qt, qt.last \in Prices
  PROVE  Carried(g, Checked(g, qt)) /\ Apart(Checked(g, qt).algos, qt)
<1> DEFINE root == [g EXCEPT !.algos = <<>>]
           top  == Len(g.algos)
           run  == CHOOSE f : RunUpTo(g, qt, top, f)
           Good(k) == Carried(g, run[k]) /\ Apart(run[k].algos, qt)
           Bad  == {k \in 0..top : ~Good(k)}
<1>1. g.algos \in Seq(Algos) /\ top \in Nat
  BY AccountFields, LenProperties
<1>2. Checked(g, qt) = run[top]
  BY Zenon DEF Checked, RunUpTo
<1>3. RunUpTo(g, qt, top, run)
  <2>1. \E f : RunUpTo(g, qt, top, f)
    BY <1>1, RunExists
  <2> QED
    BY <2>1
<1> HIDE DEF run, top
<1>4. \A k \in 0..top : run[k] = IF k = 0 THEN root ELSE Visited(run[k - 1], g.algos[k], qt)
  BY <1>3, Zenon DEF RunUpTo
<1>5. Bad = {}
  <2> SUFFICES ASSUME Bad # {} PROVE FALSE
    OBVIOUS
  <2>0. Bad \subseteq Nat
    BY <1>1
  <2>1. PICK m \in Bad : \A x \in Bad : ~(<<x, m>> \in OpToRel(<, Nat))
    BY <2>0, NatLessThanWellFounded, WFMin, Zenon
  <2>2. m \in 0..top /\ m \in Nat /\ ~Good(m)
    BY <2>0, <2>1
  <2>3. CASE m = 0
    <3>1. run[m] = root
      BY <1>4, <2>2, <2>3
    <3>2. <<>> \in Seq(Algos)
      BY EmptySeq
    <3>3. Carried(g, root) /\ root.algos = <<>>
      <4>1. WithAlgos(g, root, <<>>)
        BY <3>2 DEF WithAlgos
      <4> HIDE DEF root
      <4> QED
        BY <4>1, OtherAlgos
    <3>4. Apart(<<>>, qt)
      BY DEF Apart
    <3> QED
      BY <2>2, <3>1, <3>3, <3>4, Zenon
  <2>4. CASE m # 0
    <3>1. m - 1 \in 0..top /\ m - 1 \in Nat /\ m - 1 < m /\ m \in 1..top
      BY <1>1, <2>2, <2>4
    <3>2. Good(m - 1)
      BY <2>0, <2>1, <3>1 DEF OpToRel
    <3>3. run[m] = Visited(run[m - 1], g.algos[m], qt)
      BY <1>4, <2>2, <2>4
    <3>4. g.algos[m] \in Algos
      BY <1>1, <3>1, ElementOfSeq DEF top
    <3> DEFINE h == run[m - 1]
    <3>5. Carried(g, h) /\ Apart(h.algos, qt)
      BY <3>2, Zenon
    <3> HIDE DEF h
    <3>6. \E k \in Nat : AddsUp(h, k) /\ Counting(h, k)
      BY <3>5, Zenon DEF Carried, Grown
    <3>7. Carried(h, Visited(h, g.algos[m], qt)) /\ Apart(Visited(h, g.algos[m], qt).algos, qt)
      BY <3>4, <3>5, <3>6, VisitedParts
    <3>8. Carried(g, Visited(h, g.algos[m], qt))
      BY <3>5, <3>7, CarriedOn
    <3> QED
      BY <2>2, <3>3, <3>7, <3>8, Zenon DEF h
  <2> QED
    BY <2>3, <2>4
<1>6. Good(top)
  <2>1. top \in 0..top
    BY <1>1
  <2> QED
    BY <1>5, <2>1, Zenon
<1> QED
  BY <1>2, <1>6, Zenon

\* Funding changes the wallet and what is booked alike.
LEMMA FundedParts ==
  ASSUME NEW n \in Nat, NEW g, AddsUp(g, n), Counting(g, n), NEW m \in Prices
  PROVE  LET h == Funded(g, m) IN
         AddsUp(h, n) /\ Counting(h, n) /\ h.pos = g.pos /\ h.fills = g.fills
<1> DEFINE f   == Funding(g, m)
           w   == g.wallet + f
           i   == g.income + f
           h   == [g EXCEPT !.wallet = w, !.income = i]
<1>1. g \in Account(n) /\ g.wallet \in Int /\ g.income \in Int /\ g.taken \in Int /\ g.pos \in Int
  BY AccountFields
<1>2. f \in Int
  <2>1. Sgn(g.pos) \in {-1, 0, 1} /\ Size(g.pos) \in Nat /\ m \in Nat \ {0}
    BY <1>1, Signs, Constants
  <2>2. Face \div m \in Nat
    BY <2>1, Constants, Halves
  <2>3. Value(Size(g.pos), m) \in Int
    BY <2>1, <2>2 DEF Value
  <2>4. Value(Size(g.pos), m) \div FeeDiv \in Int
    BY <2>3, Constants, Halves
  <2> QED
    BY <2>1, <2>4 DEF Funding
<1>3. Funded(g, m) = h
  BY DEF Funded
<1> HIDE DEF f
<1>4. w \in Int /\ i \in Int /\ (g.wallet + g.taken = Wallet0 + g.income => w + g.taken = Wallet0 + i)
  BY <1>1, <1>2, Constants
<1> HIDE DEF w, i
<1>5. /\ h \in Account(n) /\ h.wallet = w /\ h.income = i /\ h.taken = g.taken /\ h.pos = g.pos /\ h.value = g.value
      /\ h.margin = g.margin /\ h.tid = g.tid /\ h.fills = g.fills
  BY <1>1, <1>4 DEF Account
<1> HIDE DEF h
<1>6. AddsUp(h, n)
  <2>1. /\ Len(g.fills) = g.tid /\ g.wallet + g.taken = Wallet0 + g.income
        /\ (g.pos = 0) = (g.margin = 0) /\ (g.pos = 0) = (g.value = 0)
    BY Zenon DEF AddsUp
  <2> QED
    BY <1>4, <1>5, <2>1, Zenon DEF AddsUp
<1>7. Counting(h, n)
  BY <1>5, Zenon DEF Counting
<1> QED
  BY <1>3, <1>5, <1>6, <1>7, Zenon

\* A liquidation closes the position, and takes no more than it says.
LEMMA LiquidatedParts ==
  ASSUME NEW n \in Nat, NEW g, AddsUp(g, n), Counting(g, n), g.pos # 0
  PROVE  Carried(g, LiquidatedAt(g)) /\ LiquidatedAt(g).algos = g.algos
<1> DEFINE amt  == Size(g.pos)
           side == -Sgn(g.pos)
           v    == LiqValue(g)
           h    == Trade(g, side, amt, v, 0)
           left == g.margin + (h.income - g.income)
           gone == Smaller(IF left > 0 THEN left ELSE 0, IF h.wallet > 0 THEN h.wallet ELSE 0)
           w    == h.wallet - gone
           t    == h.taken + gone
           k    == [h EXCEPT !.wallet = w, !.taken = t]
<1>1. g.pos \in Int /\ g.margin \in Nat /\ g.value \in Nat /\ g.income \in Int
  BY AccountFields
<1>2. amt \in Nat \ {0} /\ side \in {1, -1} /\ g.pos * side < 0 /\ g.pos + side * amt = 0
  BY <1>1, Opposite
<1>3. v \in Int
  <2>1. MmrDiv + 1 \in Nat \ {0} /\ MmrDiv - 1 \in Nat \ {0} /\ MmrDiv \in Int
    BY Constants
  <2>2. MmrDiv * (g.margin + g.value) \in Int /\ MmrDiv * (g.value - g.margin) \in Int
    BY <1>1, <2>1
  <2>3. /\ (MmrDiv * (g.margin + g.value)) \div (MmrDiv + 1) \in Int
        /\ (MmrDiv * (g.value - g.margin)) \div (MmrDiv - 1) \in Int
    BY <2>1, <2>2, Halves
  <2> QED
    BY <2>3 DEF LiqValue
<1>4. LiquidatedAt(g) = k
  BY Zenon DEF LiquidatedAt
<1>5. Priced(g, side, amt, v)
  BY <1>2, <1>3 DEF Priced
<1> HIDE DEF amt, side, v
<1>6. AddsUp(h, n + 1) /\ h.pos = 0 /\ h.algos = g.algos /\ h.fills = Append(g.fills, n + 1)
  <2>1. side \in PaperSides /\ 0 \in Int
    BY <1>2 DEF PaperSides
  <2> QED
    BY <1>2, <1>3, <1>5, <2>1, TradeParts
<1> HIDE DEF h
<1>7. /\ h \in Account(n + 1) /\ h.wallet \in Int /\ h.taken \in Nat /\ h.income \in Int
      /\ h.wallet + h.taken = Wallet0 + h.income
  <2>1. n + 1 \in Nat /\ AddsUp(h, n + 1)
    BY <1>6
  <2>2. h \in Account(n + 1) /\ h.wallet \in Int /\ h.taken \in Nat /\ h.income \in Int
    BY <2>1, AccountFields
  <2> QED
    BY <2>1, <2>2, Zenon DEF AddsUp
<1>8. gone \in Nat
  BY <1>1, <1>7 DEF Smaller
<1> HIDE DEF gone
<1>9. w \in Int /\ t \in Nat /\ w + t = Wallet0 + h.income
  BY <1>7, <1>8, Constants
<1> HIDE DEF w, t
<1>10. /\ k \in Account(n + 1) /\ k.wallet = w /\ k.taken = t /\ k.income = h.income /\ k.pos = h.pos /\ k.value = h.value
       /\ k.margin = h.margin /\ k.tid = h.tid /\ k.fills = h.fills /\ k.algos = h.algos
  BY <1>7, <1>9 DEF Account
<1> HIDE DEF k
<1>11. AddsUp(k, n + 1)
  <2>1. Len(h.fills) = h.tid /\ (h.pos = 0) = (h.margin = 0) /\ (h.pos = 0) = (h.value = 0)
    BY <1>6, Zenon DEF AddsUp
  <2> QED
    BY <1>9, <1>10, <2>1, Zenon DEF AddsUp
<1>12. Toward(g.pos, k.pos)
  BY <1>1, <1>6, <1>10, TowardRoots
<1>13. Carried(g, k)
  BY <1>6, <1>10, <1>11, <1>12, OneMore DEF Carried
<1> QED
  BY <1>4, <1>6, <1>10, <1>13

----------------------------------------------------------------------------
(* The inductive invariant of the simulated exchange.                       *)

\* The fills of s are the first ones of t.
Firsts(s, t) == Len(s) <= Len(t) /\ \A i \in 1..Len(s) : t[i] = s[i]

\* The account and its copy in the database add up, the fills of the copy are
\* the first ones of the account, and so are the rows of the bot until a restart
\* goes back behind a fill.
PaperInv ==
  /\ opens \in Nat /\ restarts \in Nat
  /\ trades \in Nat /\ rolled \in BOOLEAN
  /\ quote \in [last : Prices \cup {0}, mark : Prices \cup {0}]
  /\ AddsUp(gw, trades) /\ AddsUp(saved, trades)
  /\ gw.tid <= MaxTid /\ saved.tid <= MaxTid
  /\ fillRows \in Seq(1..trades)
  /\ Firsts(saved.fills, gw.fills)
  /\ rolled \/ Firsts(fillRows, gw.fills)
  /\ quote.last # 0 => Apart(gw.algos, quote)

LEMMA PrefixMeans ==
  ASSUME NEW S, NEW s \in Seq(S), NEW t \in Seq(S), Firsts(s, t)
  PROVE  IsPrefix(s, t)
<1>1. Len(s) \in Nat /\ Len(t) \in Nat /\ Len(s) <= Len(t)
  BY LenProperties DEF Firsts
<1>2. SubSeq(s, 1, Len(s)) = SubSeq(t, 1, Len(s))
  <2>1. SubSeq(s, 1, Len(s)) = [i \in 1..Len(s) |-> s[i]]
    BY <1>1
  <2>2. SubSeq(t, 1, Len(s)) = [i \in 1..Len(s) |-> t[i]]
    BY <1>1
  <2> QED
    BY <2>1, <2>2 DEF Firsts
<1> QED
  BY <1>1, <1>2 DEF IsPrefix

LEMMA PaperEnough == PaperInv => AccountRight
<1> SUFFICES ASSUME PaperInv PROVE AccountRight
  OBVIOUS
<1>1. AddsUp(gw, trades) /\ AddsUp(saved, trades) /\ trades \in Nat
  BY DEF PaperInv
<1>2. gw \in Account(trades) /\ saved \in Account(trades) /\ gw.tid \in 0..MaxTid /\ saved.tid \in 0..MaxTid
  BY <1>1, AccountFields, Constants DEF PaperInv
<1>3. PaperTypeOK
  <2>1. {gw, saved} \subseteq
          [wallet : Int, pos : Int, value : Nat, margin : Nat, algos : Seq(Algos),
           income : Int, taken : Nat, tid : 0..MaxTid, fills : Seq(1..trades)]
    BY <1>2 DEF Account
  <2>2. Len(gw.fills) = gw.tid
    BY <1>1 DEF AddsUp
  <2> QED
    BY <2>1, <2>2 DEF PaperInv, PaperTypeOK
<1>4. Books
  <2>1. gw.wallet + gw.taken = Wallet0 + gw.income /\ gw.wallet \in Int
    BY <1>1, AccountFields DEF AddsUp
  <2> QED
    BY <2>1 DEF Books
<1>5. MarginHeld
  BY <1>1, Zenon DEF MarginHeld, AddsUp
<1>6. NoneOverdue
  BY Zenon DEF PaperInv, NoneOverdue, Apart
<1>7. RowsTrue
  <2>1. gw.fills \in Seq(1..trades) /\ fillRows \in Seq(1..trades)
    BY <1>1, AccountFields DEF PaperInv
  <2>2. ~rolled => Firsts(fillRows, gw.fills)
    BY Zenon DEF PaperInv
  <2> QED
    BY <2>1, <2>2, PrefixMeans DEF RowsTrue
<1> QED
  BY <1>3, <1>4, <1>5, <1>6, <1>7 DEF AccountRight

LEMMA PaperFirst == Init => PaperInv
<1> SUFFICES ASSUME NEW on \in BOOLEAN, PaperInit(on) PROVE PaperInv
  BY DEF Init
<1>1. /\ gw = New /\ saved = New /\ fillRows = <<>> /\ trades = 0 /\ rolled = FALSE
      /\ quote \in [last : Prices \cup {0}, mark : Prices \cup {0}]
  BY DEF PaperInit
<1>2. <<>> \in Seq(1..0) /\ Len(<<>>) = 0 /\ <<>> \in Seq(Algos)
  BY EmptySeq
<1>3. New \in Account(0) /\ New.fills = <<>> /\ New.tid = 0 /\ New.algos = <<>>
  BY <1>2, Constants DEF New, Account
<1>4. AddsUp(New, 0)
  BY <1>2, <1>3, Constants DEF New, AddsUp
<1>5. Firsts(<<>>, <<>>)
  BY <1>2 DEF Firsts
<1>6. Apart(<<>>, quote)
  BY DEF Apart
<1> QED
  <2>1. AddsUp(gw, trades) /\ AddsUp(saved, trades) /\ trades \in Nat /\ rolled \in BOOLEAN
    BY <1>1, <1>4
  <2>2. gw.tid <= MaxTid /\ saved.tid <= MaxTid
    BY <1>1, <1>3, Constants
  <2>3. fillRows \in Seq(1..trades)
    BY <1>1, <1>2
  <2>5. opens \in Nat /\ restarts \in Nat
    BY DEF PaperInit
  <2>4. Firsts(saved.fills, gw.fills) /\ Firsts(fillRows, gw.fills) /\ Apart(gw.algos, quote)
    BY <1>1, <1>3, <1>5, <1>6
  <2> QED
    BY <1>1, <2>1, <2>2, <2>3, <2>4, <2>5 DEF PaperInv

LEMMA PaperSide == [Next]_vars => PaperNext \/ UNCHANGED paperVars
BY DEF Next, vars

LEMMA PaperCounts ==
  ASSUME PaperInv, PaperNext PROVE opens' \in Nat /\ restarts' \in Nat
<1>1. opens \in Nat /\ restarts \in Nat
  BY DEF PaperInv
<1>2. opens' \in {opens, opens + 1} /\ restarts' \in {restarts, restarts + 1}
  BY DEF PaperNext, PaperMarket, PaperReduce, PaperAlgo, PaperCancel, PaperPrice, PaperRecord, PaperSave, PaperRestart, paperLuck
<1> QED
  BY <1>1, <1>2

\* An account changes in a step: what has to be shown of it.
LEMMA StepKeeps ==
  ASSUME PaperInv, PaperNext, Grown(gw, gw'), Numbered, UNCHANGED <<saved, fillRows, rolled>>,
         quote' \in [last : Prices \cup {0}, mark : Prices \cup {0}],
         quote'.last # 0 => Apart(gw'.algos, quote')
  PROVE  PaperInv'
<1>1. PICK m \in Nat : AddsUp(gw', m) /\ Counting(gw', m)
  BY DEF Grown
<1>2. /\ gw.tid \in Nat /\ Len(gw.fills) = gw.tid /\ trades \in Nat /\ gw.fills \in Seq(1..trades)
      /\ saved.fills \in Seq(1..trades) /\ Len(saved.fills) \in Nat /\ saved \in Account(trades)
  BY AccountFields DEF PaperInv
<1>3. gw'.tid \in Nat /\ Len(gw'.fills) = gw'.tid /\ Len(gw'.fills) \in Nat
  BY <1>1, AccountFields
<1>4. m = trades' /\ trades' >= trades
  <2>1. m = trades + Len(gw'.fills) - Len(gw.fills)
    BY <1>1, Zenon DEF Counting
  <2>2. trades' = trades + gw'.tid - gw.tid
    BY DEF Numbered
  <2>3. Len(gw.fills) <= Len(gw'.fills)
    BY DEF Grown
  <2>4. m = trades'
    BY <1>2, <1>3, <2>1, <2>2
  <2>5. gw.tid <= gw'.tid
    BY <1>2, <1>3, <2>3
  <2>6. trades + gw'.tid - gw.tid >= trades
    BY <1>2, <1>3, <2>5
  <2> QED
    BY <2>2, <2>4, <2>6
<1>5. 1..trades \subseteq 1..trades' /\ trades' \in Nat
  BY <1>1, <1>2, <1>4
<1>6. AddsUp(gw', trades')
  BY <1>1, <1>4
<1>7. AddsUp(saved, trades')
  <2>1. saved.fills \in Seq(1..trades')
    BY <1>2, <1>5, SeqMonotonic
  <2>2. saved \in Account(trades')
    BY <1>2, <2>1 DEF Account
  <2>3. AddsUp(saved, trades)
    BY DEF PaperInv
  <2> QED
    BY <2>2, <2>3, Zenon DEF AddsUp
<1>8. fillRows \in Seq(1..trades') /\ Len(fillRows) \in Nat
  <2>1. fillRows \in Seq(1..trades)
    BY DEF PaperInv
  <2> QED
    BY <1>5, <2>1, SeqMonotonic, LenProperties
<1>9. ASSUME NEW s, Len(s) \in Nat, Firsts(s, gw.fills) PROVE Firsts(s, gw'.fills)
  <2>1. Len(gw.fills) <= Len(gw'.fills) /\ \A i \in 1..Len(gw.fills) : gw'.fills[i] = gw.fills[i]
    BY DEF Grown
  <2>2. Len(s) <= Len(gw.fills) /\ \A i \in 1..Len(s) : gw.fills[i] = s[i]
    BY <1>9 DEF Firsts
  <2>3. Len(gw.fills) \in Nat
    BY <1>2
  <2>4. Len(s) <= Len(gw'.fills) /\ \A i \in 1..Len(s) : i \in 1..Len(gw.fills)
    BY <1>3, <1>9, <2>1, <2>2, <2>3
  <2> QED
    BY <2>1, <2>2, <2>4 DEF Firsts
<1>10. Firsts(saved.fills, gw'.fills) /\ (rolled \/ Firsts(fillRows, gw'.fills))
  <2>1. Firsts(saved.fills, gw.fills) /\ (rolled \/ Firsts(fillRows, gw.fills))
    BY DEF PaperInv
  <2> QED
    BY <1>2, <1>8, <1>9, <2>1
<1>11. gw'.tid <= MaxTid /\ saved.tid <= MaxTid /\ rolled \in BOOLEAN
  BY DEF PaperInv, Numbered
<1> QED
  BY <1>5, <1>6, <1>7, <1>8, <1>10, <1>11, PaperCounts DEF PaperInv

\* The prices are those that are there.
LEMMA Quoted ==
  ASSUME PaperInv, quote.last # 0
  PROVE  quote.last \in Prices /\ quote.last # 0
BY DEF PaperInv

\* The account changed by a fill or an update of the prices.
LEMMA Rooted ==
  ASSUME PaperInv
  PROVE  trades \in Nat /\ AddsUp(gw, trades) /\ Counting(gw, trades) /\ gw.pos \in Int
<1>1. trades \in Nat /\ AddsUp(gw, trades)
  BY DEF PaperInv
<1>2. gw.fills \in Seq(1..trades) /\ Len(gw.fills) \in Nat /\ gw.pos \in Int
  BY <1>1, AccountFields
<1>3. trades = trades + Len(gw.fills) - Len(gw.fills)
  BY <1>1, <1>2
<1> QED
  BY <1>1, <1>2, <1>3 DEF Counting

LEMMA MarketStays ==
  ASSUME PaperInv, PaperMarket \/ PaperReduce
  PROVE  PaperInv' /\ (PaperReduce => Toward(gw.pos, gw'.pos))
<1>0. trades \in Nat /\ AddsUp(gw, trades) /\ Counting(gw, trades) /\ gw.pos \in Int
  BY Rooted
<1>1. /\ quote.last \in Prices /\ quote' = quote /\ Numbered /\ UNCHANGED <<saved, fillRows, rolled>>
  BY Quoted DEF PaperMarket, PaperReduce
<1>2. PICK side \in PaperSides, amt \in Nat \ {0} :
        /\ gw' = Market(gw, side, amt, quote.last)
        /\ PaperReduce => gw.pos * side < 0 /\ amt <= Size(gw.pos)
  <2>1. CASE PaperReduce
    <3>1. PICK k \in 1..Qty : gw' = Market(gw, -Sgn(gw.pos), Reduced(gw, k), quote.last)
      BY <2>1 DEF PaperReduce
    <3>2. gw.pos # 0
      BY <2>1 DEF PaperReduce
    <3>3. Size(gw.pos) \in Nat \ {0} /\ -Sgn(gw.pos) \in {1, -1} /\ gw.pos * (-Sgn(gw.pos)) < 0
      BY <1>0, <3>2, Opposite
    <3>4. Reduced(gw, k) \in Nat \ {0} /\ Reduced(gw, k) <= Size(gw.pos)
      BY <3>3, Constants DEF Reduced, Smaller
    <3> QED
      BY <3>1, <3>3, <3>4, Zenon DEF PaperSides
  <2>2. CASE PaperMarket /\ ~PaperReduce
    <3>1. PICK side \in PaperSides, k \in 1..Qty : gw' = Market(gw, side, k, quote.last)
      BY <2>2, Zenon DEF PaperMarket
    <3>2. k \in Nat \ {0}
      OBVIOUS
    <3> QED
      BY <2>2, <3>1, <3>2, Zenon
  <2> QED
    BY <2>1, <2>2
<1>3. AddsUp(gw', trades + 1) /\ gw'.pos = gw.pos + side * amt /\ gw'.algos = gw.algos /\ gw'.fills = Append(gw.fills, trades + 1)
  <2> DEFINE h == Market(gw, side, amt, quote.last)
  <2>1. AddsUp(h, trades + 1) /\ h.pos = gw.pos + side * amt /\ h.algos = gw.algos /\ h.fills = Append(gw.fills, trades + 1)
    <3>1. AddsUp(gw, trades) /\ Counting(gw, trades) /\ trades \in Nat /\ quote.last \in Prices
      BY <1>0, <1>1
    <3> DEFINE p == quote.last
    <3> HIDE DEF p
    <3>2. LET k == Market(gw, side, amt, p) IN
          /\ AddsUp(k, trades + 1) /\ k.pos = gw.pos + side * amt /\ k.algos = gw.algos
          /\ k.fills = Append(gw.fills, trades + 1)
      BY <3>1, MarketParts DEF p
    <3> QED
      BY <3>2, Zenon DEF p
  <2> HIDE DEF h
  <2>2. gw' = h
    BY <1>2 DEF h
  <2> QED
    BY <2>1, <2>2
<1>4. Grown(gw, gw')
  BY <1>0, <1>3, OneMore
<1>5. PaperInv'
  <2>1. quote.last # 0 => Apart(gw.algos, quote)
    BY DEF PaperInv
  <2>2. quote \in [last : Prices \cup {0}, mark : Prices \cup {0}]
    BY DEF PaperInv
  <2> QED
    BY <1>1, <1>3, <1>4, <2>1, <2>2, StepKeeps DEF PaperNext
<1>6. PaperReduce => Toward(gw.pos, gw'.pos)
  BY <1>0, <1>2, <1>3, Against DEF PaperSides
<1> QED
  BY <1>5, <1>6

\* An update of the prices: funding, conditional orders, liquidation.
LEMMA PriceStays ==
  ASSUME PaperInv, PaperPrice
  PROVE  PaperInv' /\ Toward(gw.pos, gw'.pos)
<1>0. trades \in Nat /\ AddsUp(gw, trades) /\ Counting(gw, trades) /\ gw.pos \in Int
  BY Rooted
<1>1. PICK l \in Prices, m \in Prices, fund \in {0, 1} :
        LET qt == [last |-> l, mark |-> m]
            f  == IF fund = 1 THEN Funded(gw, m) ELSE gw
            c  == Checked(f, qt)
        IN quote' = qt /\ gw' = IF c.pos # 0 /\ Liquidated(c, m) THEN LiquidatedAt(c) ELSE c
  BY Zenon DEF PaperPrice
<1> DEFINE qt == [last |-> l, mark |-> m]
           f  == IF fund = 1 THEN Funded(gw, m) ELSE gw
           c  == Checked(f, qt)
<1>2. quote' = qt /\ qt.last = l /\ qt \in [last : Prices \cup {0}, mark : Prices \cup {0}]
  BY <1>1
<1>3. gw' = c \/ (c.pos # 0 /\ gw' = LiquidatedAt(c))
  BY <1>1, Zenon
<1>4. AddsUp(f, trades) /\ Counting(f, trades) /\ f.pos = gw.pos /\ f.fills = gw.fills
  BY <1>0, FundedParts, Zenon
<1> HIDE DEF f, qt
<1>5. Carried(f, c) /\ Apart(c.algos, qt)
  BY <1>0, <1>2, <1>4, CheckedParts
<1> HIDE DEF c
<1>6. Carried(f, gw') /\ Apart(gw'.algos, qt)
  <2>1. CASE gw' = c
    BY <1>5, <2>1, Zenon
  <2>2. CASE c.pos # 0 /\ gw' = LiquidatedAt(c)
    <3>1. PICK n \in Nat : AddsUp(c, n) /\ Counting(c, n)
      BY <1>5 DEF Carried, Grown
    <3>2. Carried(c, gw') /\ gw'.algos = c.algos
      BY <2>2, <3>1, LiquidatedParts
    <3>3. Carried(f, gw')
      BY <1>0, <1>4, <1>5, <3>2, CarriedOn
    <3> QED
      BY <1>5, <3>2, <3>3
  <2> QED
    BY <1>3, <2>1, <2>2
<1>7. Carried(gw, gw')
  BY <1>4, <1>6, Zenon DEF Carried, Grown
<1>8. Numbered /\ UNCHANGED <<saved, fillRows, rolled>>
  BY DEF PaperPrice
<1> QED
  BY <1>2, <1>6, <1>7, <1>8, StepKeeps DEF Carried, PaperNext

\* One of a sequence taken out.
LEMMA Removal ==
  ASSUME NEW S, NEW s \in Seq(S), NEW k \in DOMAIN s
  PROVE  /\ RemoveAt(s, k) \in Seq(S)
         /\ \A i \in DOMAIN RemoveAt(s, k) : \E j \in DOMAIN s : RemoveAt(s, k)[i] = s[j]
<1> DEFINE u == SubSeq(s, 1, k - 1)
           v == SubSeq(s, k + 1, Len(s))
<1>1. DOMAIN s = 1..Len(s) /\ Len(s) \in Nat /\ k \in 1..Len(s)
  BY LenProperties
<1>2. /\ u \in Seq(S) /\ Len(u) = k - 1 /\ \A i \in 1..(k - 1) : u[i] = s[i]
      /\ v \in Seq(S) /\ Len(v) = Len(s) - k /\ \A i \in 1..(Len(s) - k) : v[i] = s[k + i]
  <2>1. \A i \in 1..Len(s) : s[i] \in S
    BY ElementOfSeq
  <2>2. /\ u \in Seq(S) /\ Len(u) = (IF 1 <= k - 1 THEN (k - 1) - 1 + 1 ELSE 0)
        /\ \A i \in 1..((k - 1) - 1 + 1) : u[i] = s[1 + i - 1]
    <3>1. 1 \in Int /\ k - 1 \in Int /\ \A i \in 1..(k - 1) : s[i] \in S
      BY <1>1, <2>1
    <3> QED
      BY <3>1, SubSeqProperties
  <2>3. /\ v \in Seq(S) /\ Len(v) = (IF k + 1 <= Len(s) THEN Len(s) - (k + 1) + 1 ELSE 0)
        /\ \A i \in 1..(Len(s) - (k + 1) + 1) : v[i] = s[(k + 1) + i - 1]
    <3>1. k + 1 \in Int /\ Len(s) \in Int /\ \A i \in (k + 1)..Len(s) : s[i] \in S
      BY <1>1, <2>1
    <3> QED
      BY <3>1, SubSeqProperties
  <2> HIDE DEF u, v
  <2>4. Len(u) = k - 1 /\ Len(v) = Len(s) - k
    BY <1>1, <2>2, <2>3
  <2>5. \A i \in 1..(k - 1) : u[i] = s[i]
    BY <1>1, <2>2
  <2>6. ASSUME NEW i \in 1..(Len(s) - k) PROVE v[i] = s[k + i]
    <3>1. i \in 1..(Len(s) - (k + 1) + 1) /\ (k + 1) + i - 1 = k + i
      BY <1>1
    <3> QED
      BY <2>3, <3>1
  <2> QED
    BY <2>2, <2>3, <2>4, <2>5, <2>6
<1> HIDE DEF u, v
<1>3. u \o v \in Seq(S) /\ Len(u \o v) = Len(s) - 1
      /\ \A i \in 1..(Len(s) - 1) : (u \o v)[i] = IF i <= k - 1 THEN s[i] ELSE s[i + 1]
  <2>1. /\ u \o v \in Seq(S) /\ Len(u \o v) = Len(u) + Len(v)
        /\ \A i \in 1..Len(u) + Len(v) : (u \o v)[i] = IF i <= Len(u) THEN u[i] ELSE v[i - Len(u)]
    BY <1>2, ConcatProperties
  <2>2. Len(u) + Len(v) = Len(s) - 1
    BY <1>1, <1>2
  <2>3. ASSUME NEW i \in 1..(Len(s) - 1) PROVE (u \o v)[i] = IF i <= k - 1 THEN s[i] ELSE s[i + 1]
    <3>1. (u \o v)[i] = IF i <= k - 1 THEN u[i] ELSE v[i - (k - 1)]
      BY <1>2, <2>1, <2>2
    <3>2. CASE i <= k - 1
      <4>1. i \in 1..(k - 1)
        BY <1>1, <3>2
      <4> QED
        BY <1>2, <3>1, <3>2, <4>1
    <3>3. CASE ~(i <= k - 1)
      <4>1. i - (k - 1) \in 1..(Len(s) - k) /\ k + (i - (k - 1)) = i + 1
        BY <1>1, <3>3
      <4> QED
        BY <1>2, <3>1, <3>3, <4>1
    <3> QED
      BY <3>2, <3>3
  <2> QED
    BY <2>1, <2>2, <2>3
<1>4. ASSUME NEW i \in DOMAIN (u \o v) PROVE \E j \in DOMAIN s : (u \o v)[i] = s[j]
  <2>1. i \in 1..(Len(s) - 1)
    BY <1>3, LenProperties
  <2>2. i \in 1..Len(s) /\ i + 1 \in 1..Len(s)
    BY <1>1, <2>1
  <2> QED
    BY <1>1, <1>3, <2>1, <2>2
<1> QED
  BY <1>3, <1>4 DEF RemoveAt, u, v

\* A conditional order is placed or cancelled.
LEMMA AlgosStay ==
  ASSUME PaperInv, PaperAlgo \/ PaperCancel
  PROVE  PaperInv' /\ gw'.pos = gw.pos
<1>0. trades \in Nat /\ AddsUp(gw, trades) /\ Counting(gw, trades) /\ gw.pos \in Int /\ gw.algos \in Seq(Algos)
  BY Rooted, AccountFields
<1>1. UNCHANGED <<quote, saved, fillRows, trades, rolled>>
  BY DEF PaperAlgo, PaperCancel
<1>2. quote.last # 0 => Apart(gw.algos, quote)
  BY DEF PaperInv
<1>3. PICK as \in Seq(Algos) : gw' = [gw EXCEPT !.algos = as] /\ (quote.last # 0 => Apart(as, quote))
  <2>1. CASE PaperAlgo
    <3>1. PICK a \in Algos : Takes(a) /\ gw' = [gw EXCEPT !.algos = Append(@, a)]
      BY <2>1 DEF PaperAlgo
    <3>2. Append(gw.algos, a) \in Seq(Algos)
      BY <1>0, AppendProperties
    <3>3. quote.last # 0 => Apart(Append(gw.algos, a), quote)
      <4>1. /\ DOMAIN Append(gw.algos, a) = 1..(Len(gw.algos) + 1) /\ DOMAIN gw.algos = 1..Len(gw.algos) /\ Len(gw.algos) \in Nat
            /\ \A i \in 1..Len(gw.algos) : Append(gw.algos, a)[i] = gw.algos[i]
            /\ Append(gw.algos, a)[Len(gw.algos) + 1] = a
        BY <1>0, AppendProperties, LenProperties
      <4>2. \A i \in 1..(Len(gw.algos) + 1) : i \in 1..Len(gw.algos) \/ i = Len(gw.algos) + 1
        BY <4>1
      <4> QED
        BY <1>2, <3>1, <4>1, <4>2, Zenon DEF Apart, Takes
    <3> QED
      BY <3>1, <3>2, <3>3
  <2>2. CASE PaperCancel
    <3>1. PICK k \in DOMAIN gw.algos : gw' = [gw EXCEPT !.algos = RemoveAt(@, k)]
      BY <2>2 DEF PaperCancel
    <3>2. /\ RemoveAt(gw.algos, k) \in Seq(Algos)
          /\ \A i \in DOMAIN RemoveAt(gw.algos, k) : \E j \in DOMAIN gw.algos : RemoveAt(gw.algos, k)[i] = gw.algos[j]
      BY <1>0, Removal
    <3>3. quote.last # 0 => Apart(RemoveAt(gw.algos, k), quote)
      BY <1>2, <3>2, Zenon DEF Apart
    <3> QED
      BY <3>1, <3>2, <3>3
  <2> QED
    BY <2>1, <2>2
<1>4. WithAlgos(gw, gw', as)
  BY <1>3 DEF WithAlgos
<1>5. AddsUp(gw', trades) /\ gw'.pos = gw.pos /\ gw'.fills = gw.fills /\ gw'.tid = gw.tid /\ gw'.algos = as
  <2>1. AddsUp(gw', trades)
    BY <1>0, <1>4, OtherAlgos
  <2>2. gw' = [gw EXCEPT !.algos = as] /\ gw \in Account(trades)
    BY <1>0, <1>3, AccountFields
  <2> QED
    BY <2>1, <2>2 DEF Account
<1> QED
  BY <1>1, <1>3, <1>5, PaperCounts, Zenon DEF PaperInv, PaperNext

\* The database: a row, a copy, a start from the copy.
LEMMA CopiesStay ==
  ASSUME PaperInv, PaperRecord \/ PaperSave \/ PaperRestart
  PROVE  PaperInv'
<1>0. /\ trades \in Nat /\ AddsUp(gw, trades) /\ AddsUp(saved, trades)
      /\ gw.fills \in Seq(1..trades) /\ saved.fills \in Seq(1..trades) /\ fillRows \in Seq(1..trades)
      /\ Len(gw.fills) = gw.tid /\ Len(saved.fills) = saved.tid /\ gw.tid \in Nat /\ saved.tid \in Nat
      /\ Len(fillRows) \in Nat
  BY AccountFields, LenProperties DEF PaperInv
<1>1. CASE PaperRecord
  <2> DEFINE e == gw.fills[Len(fillRows) + 1]
             r == Append(fillRows, e)
  <2>1. Len(fillRows) < gw.tid /\ fillRows' = r /\ UNCHANGED <<gw, quote, saved, trades, rolled>>
    BY <1>1 DEF PaperRecord, paperLuck
  <2>2. Len(fillRows) + 1 \in 1..Len(gw.fills)
    BY <1>0, <2>1
  <2>3. e \in 1..trades
    BY <1>0, <2>2, ElementOfSeq
  <2>4. r \in Seq(1..trades) /\ Len(r) = Len(fillRows) + 1 /\ r[Len(fillRows) + 1] = e
        /\ \A i \in 1..Len(fillRows) : r[i] = fillRows[i]
    BY <1>0, <2>3, AppendProperties
  <2> HIDE DEF r
  <2>5. Firsts(fillRows, gw.fills) => Firsts(r, gw.fills)
    <3> SUFFICES ASSUME Firsts(fillRows, gw.fills) PROVE Firsts(r, gw.fills)
      OBVIOUS
    <3>1. \A i \in 1..Len(r) : i \in 1..Len(fillRows) \/ i = Len(fillRows) + 1
      BY <1>0, <2>4
    <3>2. Len(r) <= Len(gw.fills)
      BY <1>0, <2>1, <2>4
    <3> QED
      BY <2>4, <3>1, <3>2 DEF Firsts
  <2> QED
    BY <2>1, <2>4, <2>5, PaperCounts, Zenon DEF PaperInv, PaperNext
<1>2. CASE PaperSave
  <2>1. saved' = gw /\ UNCHANGED <<gw, quote, fillRows, trades, rolled>>
    BY <1>2 DEF PaperSave
  <2>2. Firsts(gw.fills, gw.fills)
    BY <1>0 DEF Firsts
  <2> QED
    BY <1>0, <2>1, <2>2, PaperCounts, Zenon DEF PaperInv, PaperNext
<1>3. CASE PaperRestart
  <2>1. /\ gw' = saved /\ quote' = [last |-> 0, mark |-> 0] /\ rolled' = (rolled \/ gw.tid > saved.tid)
        /\ UNCHANGED <<saved, fillRows, trades>>
    BY <1>3 DEF PaperRestart, Loaded
  <2>2. Firsts(saved.fills, gw.fills) /\ (rolled \/ Firsts(fillRows, gw.fills)) /\ rolled \in BOOLEAN
    BY DEF PaperInv
  <2>3. rolled' \/ Firsts(fillRows, saved.fills)
    <3>1. CASE rolled \/ gw.tid > saved.tid
      BY <2>1, <3>1, Zenon
    <3>2. CASE ~(rolled \/ gw.tid > saved.tid)
      <4>1. Len(saved.fills) = Len(gw.fills)
        BY <1>0, <2>2, <3>2 DEF Firsts
      <4>2. Firsts(fillRows, gw.fills)
        BY <2>2, <3>2
      <4>3. \A i \in 1..Len(fillRows) : i \in 1..Len(saved.fills)
        BY <1>0, <4>1, <4>2 DEF Firsts
      <4> QED
        BY <2>2, <4>1, <4>2, <4>3, Zenon DEF Firsts
    <3> QED
      BY <3>1, <3>2
  <2>4. Firsts(saved.fills, saved.fills)
    BY <1>0 DEF Firsts
  <2>5. rolled' \in BOOLEAN
    BY <2>1, <2>2, Zenon
  <2>6. quote'.last = 0 /\ quote' \in [last : Prices \cup {0}, mark : Prices \cup {0}]
    BY <2>1
  <2>7. saved.tid <= MaxTid
    BY DEF PaperInv
  <2> QED
    BY <1>0, <2>1, <2>3, <2>4, <2>5, <2>6, <2>7, PaperCounts, Zenon DEF PaperInv, PaperNext
<1> QED
  BY <1>1, <1>2, <1>3

LEMMA PaperStays ==
  PaperInv /\ [Next]_vars => PaperInv'
<1> SUFFICES ASSUME PaperInv, [Next]_vars PROVE PaperInv'
  OBVIOUS
<1>1. CASE PaperNext
  BY <1>1, MarketStays, PriceStays, AlgosStay, CopiesStay DEF PaperNext
<1>2. CASE UNCHANGED paperVars
  BY <1>2 DEF paperVars, paperLuck, PaperInv, AddsUp, Account, Firsts, Apart, Reached, Reference
<1> QED
  BY <1>1, <1>2, PaperSide

\* The account of the simulated exchange adds up, and the bot's rows agree with
\* it, through liquidations, funding and restarts from an older state: AccountRight.
THEOREM AccountSafe == Spec => []AccountRight
<1>1. Spec => []PaperInv
  BY PaperFirst, PaperStays, PTL DEF Spec
<1> QED
  BY <1>1, PaperEnough, PTL

\* What a step does to the position when no new order is sent and nothing restarts.
LEMMA StepReduces ==
  PaperInv /\ [Next]_vars
    => [ opens' = opens /\ restarts' = restarts
           => gw'.pos * Sgn(gw.pos) \in 0..Size(gw.pos) /\ (gw.pos = 0 => gw'.pos = 0) ]_paperVars
<1> SUFFICES ASSUME PaperInv, PaperNext, opens' = opens, restarts' = restarts PROVE Toward(gw.pos, gw'.pos)
  BY PaperSide, Zenon DEF Toward
<1>0. gw.pos \in Int
  BY Rooted
<1>1. CASE PaperMarket \/ PaperRestart
  BY <1>1 DEF PaperInv, PaperMarket, PaperRestart
<1>2. CASE PaperReduce
  BY <1>2, MarketStays
<1>3. CASE PaperPrice
  BY <1>3, PriceStays
<1>4. CASE PaperAlgo \/ PaperCancel
  BY <1>0, <1>4, AlgosStay, TowardRoots
<1>5. CASE PaperRecord \/ PaperSave
  <2>1. gw' = gw
    BY <1>5 DEF PaperRecord, PaperSave
  <2> QED
    BY <1>0, <2>1, TowardRoots
<1> QED
  BY <1>1, <1>2, <1>3, <1>4, <1>5 DEF PaperNext

\* Nothing that reduces, triggers or liquidates enlarges or turns the position,
\* however many of them come together in one update: OnlyReduces.
THEOREM OnlyOrdersOpen == Spec => OnlyReduces
<1>1. Spec => []PaperInv
  BY PaperFirst, PaperStays, PTL DEF Spec
<1> QED
  BY <1>1, StepReduces, PTL DEF Spec, OnlyReduces

----------------------------------------------------------------------------
USE RestCallAssumption

(* RestCall: the inductive invariant.                                       *)

LEMMA RestSide == [Next]_vars => RestNext \/ UNCHANGED restVars
BY DEF Next, vars

Heavy == IF heavy THEN 1 ELSE 0

\* Nothing went to the exchange.
Unsent == executed = 0 /\ ~flight

\* What the row of the order, its request and the exchange have to do with each
\* other.
RowMeans ==
  LET o == call["order"] IN
  /\ row \in {"OFF", "NONE"} => o = NoCall /\ Unsent /\ nf = 0
  /\ row = "PENDING_SUBMIT" => o.kind \in Mutating /\ nf = 0
  /\ o.kind \in Mutating /\ (o.pc # "done" \/ o.got \notin {"ok", "lost", "server"}) => Unsent
  /\ o.kind \in Mutating /\ o.pc # "done" => row = "PENDING_SUBMIT"
  /\ o.kind = "lookup" => row \in {"UNKNOWN", "NEW", "NOT_PLACED"}
  /\ row = "UNKNOWN" => o.kind \in Mutating \cup {"lookup"}
  /\ o.kind # "account" /\ call["account"].kind \in {"none", "account"}
  /\ \A c \in Callers : call[c].pc # "done" => call[c].got = "none"
  /\ row = "REJECTED" => Unsent
  /\ row = "NOT_PLACED" => Unsent \/ nf > 0
  /\ (nf > 0 \/ o.got = "missing") /\ ~late => executed = 0

\* What the gate let through.
GateMeans ==
  LET o == call["order"] IN
  /\ row \in {"UNKNOWN", "NEW"} => config
  /\ o.kind = "lookup" \/ executed > 0 \/ flight => config
  /\ o.kind \in Mutating => config \/ o.got = "blocked"
  /\ o.kind = "open" => checked \/ o.got = "blocked"
  /\ o.kind = "protect" /\ o.got = "blocked" => ~config

\* Each refused timestamp of an order has a jump of the clock or a used up
\* minute of its own; the one that is still to be met is not counted.
Costs ==
  LET o == call["order"] IN
  /\ heavy => heavies > 0
  /\ ahead => jumps > 0
  /\ jumps <= faults
  /\ o.kind \in Mutating /\ (o.stale \/ o.att = 1 \/ o.pc = "sync") => jumps + heavies >= 1 + Heavy
  /\ o.kind \in Mutating /\ ((o.att = 1 /\ o.stale) \/ o.got = "timestamp") => jumps + heavies >= 2

\* A lookup whose answers are used up stays as it is.
LooksLast == row = "UNKNOWN" /\ call["order"].kind = "lookup" /\ looks = 0 => call["order"].pc = "done" /\ call["order"].got # "found"

RestInv == RestTypeOK /\ ExecutedOnce /\ RowMeans /\ GateMeans /\ Costs /\ LooksLast

LEMMA RestFirst == Init => RestInv
<1> SUFFICES ASSUME NEW on \in BOOLEAN, RestInit(on) PROVE RestInv
  BY DEF Init
<1>1. call["order"] = NoCall /\ call["account"] = NoCall
  BY DEF RestInit, Callers
<1>2. NoCall.kind = "none" /\ NoCall.pc = "idle" /\ NoCall.got = "none" /\ NoCall.att = 0 /\ NoCall.stale = FALSE
  BY DEF NoCall
<1>3. RestTypeOK
  <2>1. NoCall \in [kind : Kinds, pc : {"idle", "throttle", "wire", "sync", "done"},
                    stale : BOOLEAN, att : 0..1, tries : 0..GetTries - 1, got : Results]
    BY DEF NoCall, Kinds, Results
  <2>2. {heavy, ahead, config, report, checked, le, flight, late} \subseteq BOOLEAN
    BY Zenon DEF RestInit
  <2>3. call \in [Callers -> [kind : Kinds, pc : {"idle", "throttle", "wire", "sync", "done"},
                    stale : BOOLEAN, att : 0..1, tries : 0..GetTries - 1, got : Results]]
    BY <2>1 DEF RestInit
  <2> QED
    BY <2>2, <2>3 DEF RestInit, RestTypeOK
<1> QED
  BY <1>1, <1>2, <1>3 DEF RestInit, RestInv, Callers, ExecutedOnce, RowMeans, GateMeans, Costs, LooksLast,
       Unsent, Mutating

LEMMA RestEnough == RestInv => OrderRight
<1> SUFFICES ASSUME RestInv PROVE OrderRight
  OBVIOUS
<1>1. RowTrue
  BY DEF RestInv, RowMeans, RowTrue, Unsent
<1>2. GateRight
  BY DEF RestInv, GateMeans, RowMeans, GateRight, RestTypeOK, Mutating, Unsent
<1>3. ResyncHeals
  BY DEF RestInv, Costs, ResyncHeals, RestTypeOK
<1> QED
  BY <1>1, <1>2, <1>3 DEF RestInv, OrderRight

----------------------------------------------------------------------------
(* One step of one of the callers.                                          *)

Requests == [kind : Kinds, pc : {"idle", "throttle", "wire", "sync", "done"},
             stale : BOOLEAN, att : 0..1, tries : 0..GetTries - 1, got : Results]

\* A request that is signed, and one that has ended.
LEMMA SignedTyped ==
  ASSUME ahead \in BOOLEAN, NEW k \in Kinds, NEW n \in 0..1
  PROVE  /\ Signed(k, n) \in Requests
         /\ Signed(k, n).kind = k /\ Signed(k, n).pc = "throttle" /\ Signed(k, n).att = n
         /\ (Signed(k, n).stale <=> ahead) /\ Signed(k, n).got = "none"
<1>1. 0 \in 0..GetTries - 1 /\ "none" \in Results
  BY DEF Results
<1> QED
  BY <1>1 DEF Signed, NoCall, Requests

LEMMA SignedParts ==
  ASSUME ahead \in BOOLEAN, NEW k \in Kinds, NEW n \in 0..1
  PROVE  \E x \in Requests : /\ x = Signed(k, n)
                             /\ x.kind = k /\ x.pc = "throttle" /\ x.got = "none"
                             /\ x.att = n /\ (x.stale <=> ahead)
<1>1. Signed(k, n) \in Requests
  BY SignedTyped
<1> WITNESS Signed(k, n) \in Requests
<1>2. "none" \in Results
  BY DEF Results
<1> QED
  BY <1>1, SignedTyped

Ended(k, r) == [NoCall EXCEPT !.kind = k, !.pc = "done", !.got = r]

LEMMA DoneParts ==
  ASSUME NEW k \in Kinds, NEW r \in Results
  PROVE  /\ Ended(k, r) \in Requests
         /\ Ended(k, r).kind = k /\ Ended(k, r).pc = "done" /\ Ended(k, r).got = r
         /\ Ended(k, r).att = 0 /\ Ended(k, r).stale = FALSE
<1> PICK d : d = Ended(k, r)
  OBVIOUS
<1> USE DEF Ended
<1>1. 0 \in 0..GetTries - 1
  OBVIOUS
<1>2. d.kind = k /\ d.pc = "done" /\ d.got = r /\ d.att = 0
  BY DEF NoCall
<1>3. d.stale = FALSE
  BY DEF NoCall
<1>4. d = [kind |-> d.kind, pc |-> d.pc, stale |-> d.stale, att |-> d.att, tries |-> d.tries, got |-> d.got]
  BY DEF NoCall
<1>5. d.tries = 0
  BY DEF NoCall
<1> HIDE DEF Ended
<1>6. d.kind \in Kinds /\ d.pc \in {"idle", "throttle", "wire", "sync", "done"} /\ d.stale \in BOOLEAN
      /\ d.att \in 0..1 /\ d.tries \in 0..GetTries - 1 /\ d.got \in Results
  <2>1. d.stale \in BOOLEAN
    BY <1>3, Zenon
  <2>2. d.kind \in Kinds /\ d.got \in Results /\ d.att \in 0..1 /\ d.tries \in 0..GetTries - 1
    BY <1>1, <1>2, <1>5
  <2>3. d.pc \in {"idle", "throttle", "wire", "sync", "done"}
    BY <1>2
  <2> QED
    BY <2>1, <2>2, <2>3
<1>7. d \in Requests
  BY <1>4, <1>6, Zenon DEF Requests
<1> QED
  BY <1>2, <1>3, <1>7

LEMMA EndedParts ==
  ASSUME NEW k \in Kinds, NEW r \in Results
  PROVE  \E x \in Requests : /\ x = Ended(k, r)
                             /\ x.kind = k /\ x.pc = "done" /\ x.got = r
                             /\ x.att = 0 /\ ~x.stale
<1>1. Ended(k, r) \in Requests
  BY DoneParts
<1> WITNESS Ended(k, r) \in Requests
<1> QED
  BY DoneParts, ZenonT(30)

LEMMA SettlesMeans ==
  ASSUME RestTypeOK, NEW c \in Callers, NEW res \in Results, Settles(c, res), call[c].got = "none"
  PROVE  /\ call' \in [Callers -> Requests]
         /\ call'[c].kind = call[c].kind
         /\ \A d \in Callers \ {c} : call'[d] = call[d]
         /\ \/ call'[c].pc = "done" /\ call'[c].got = res /\ res # "none"
               /\ ~call'[c].stale /\ call'[c].att = 0
               /\ (res = "timestamp" => call[c].att = 1)
            \/ /\ call'[c].pc = "throttle" /\ call'[c].got = "none" /\ call[c].kind \notin Mutating
            \/ /\ call'[c].pc = "sync" /\ call'[c].got = "none" /\ res = "timestamp"
               /\ call'[c].att = call[c].att /\ (call'[c].stale <=> call[c].stale)
<1>1. call[c] \in Requests /\ call \in [Callers -> Requests]
  BY DEF RestTypeOK, Requests
<1>2. CASE call' = Done(c, res) /\ res # "none" /\ (res = "timestamp" => ~Resyncs(c))
  <2>1. res = "timestamp" => call[c].att = 1
    BY <1>1, <1>2 DEF Requests, Resyncs
  <2>2. call' = [call EXCEPT ![c] = Ended(call[c].kind, res)]
    BY <1>2 DEF Done, Ended
  <2>3. call[c].kind \in Kinds
    BY <1>1 DEF Requests
  <2>4. PICK x \in Requests : /\ x = Ended(call[c].kind, res)
                             /\ x.kind = call[c].kind /\ x.pc = "done" /\ x.got = res
                             /\ x.att = 0 /\ ~x.stale
    BY <2>3, EndedParts
  <2>5. call'[c] = x /\ call' \in [Callers -> Requests] /\ \A d \in Callers \ {c} : call'[d] = call[d]
    BY <1>1, <2>2, <2>4
  <2> QED
    BY <1>2, <2>1, <2>4, <2>5
<1>3. CASE /\ Retried(c)
           /\ \E old \in BOOLEAN :
                call' = [call EXCEPT ![c].pc = "throttle", ![c].tries = @ + 1, ![c].stale = @ \/ old]
  <2>1. PICK old \in BOOLEAN :
          call' = [call EXCEPT ![c].pc = "throttle", ![c].tries = @ + 1, ![c].stale = @ \/ old]
    BY <1>3
  <2>2. call[c].tries + 1 \in 0..GetTries - 1 /\ (call[c].stale \/ old) \in BOOLEAN
    BY <1>1, <1>3 DEF Retried, Requests
  <2> QED
    BY <1>1, <1>3, <2>1, <2>2 DEF Requests, Retried
<1>4. CASE res = "timestamp" /\ call' = [call EXCEPT ![c].pc = "sync"]
  BY <1>1, <1>4 DEF Requests
<1> QED
  BY <1>2, <1>3, <1>4 DEF Settles

----------------------------------------------------------------------------
(* The actions of the world, of submit and of resolve.                      *)

LEMMA RestWorld ==
  ASSUME RestInv, ReportExpires \/ ClockJumps \/ Arrives
  PROVE  RestInv'
<1>1. RestTypeOK'
  <2>1. executed' \in 0..MaxFaults + 1 /\ faults' \in 0..MaxFaults /\ jumps' \in 0..MaxFaults
    BY DEF RestInv, RestTypeOK, ExecutedOnce, Costs, ReportExpires, ClockJumps, Arrives, Fault, callVars, gateVars,
           rowVars, bookVars, restLuck
  <2>2. {heavy, ahead, config, report, checked, le, flight, late}' \subseteq BOOLEAN
    BY Zenon DEF RestInv, RestTypeOK, ReportExpires, ClockJumps, Arrives, callVars, gateVars, rowVars, bookVars
  <2> QED
    BY <2>1, <2>2 DEF RestInv, RestTypeOK, ReportExpires, ClockJumps, Arrives, callVars, gateVars, rowVars, restLuck
<1>2. CASE ReportExpires
  BY <1>1, <1>2 DEF RestInv, ReportExpires, ExecutedOnce, RowMeans, GateMeans, Costs, LooksLast, Unsent, Heavy,
                    callVars, gateVars, rowVars, bookVars, restLuck
<1>3. CASE ClockJumps
  <2>1. Costs'
    BY <1>3 DEF RestInv, RestTypeOK, ClockJumps, Fault, Costs, Heavy, gateVars, rowVars, bookVars
  <2> QED
    BY <1>1, <1>3, <2>1 DEF RestInv, ClockJumps, ExecutedOnce, RowMeans, GateMeans, LooksLast, Unsent,
                    gateVars, rowVars, bookVars
<1>4. CASE Arrives
  <2>1. executed = 0 /\ executed' = 1 /\ flight' = FALSE
    BY <1>4 DEF RestInv, RestTypeOK, Arrives, ExecutedOnce
  <2>2. RowMeans'
    BY <1>4, <2>1 DEF RestInv, RestTypeOK, Arrives, RowMeans, Unsent, callVars, rowVars
  <2>3. Costs' /\ LooksLast'
    BY <1>4 DEF RestInv, Arrives, Costs, LooksLast, Heavy, callVars, rowVars, restLuck
  <2>4. GateMeans'
    BY <1>4, <2>1 DEF RestInv, Arrives, GateMeans, callVars, gateVars, rowVars
  <2> QED
    BY <1>1, <2>1, <2>2, <2>3, <2>4 DEF RestInv, ExecutedOnce
<1> QED
  BY <1>2, <1>3, <1>4

LEMMA RestSubmit ==
  ASSUME RestInv, Submit
  PROVE  RestInv'
<1>1. row = "NONE" /\ row' = "PENDING_SUBMIT" /\ Unsent /\ Unsent' /\ nf' = 0 /\ late' = late
  BY DEF Submit, RestInv, RowMeans, Unsent, bookVars
<1>2. PICK k \in Mutating :
        call' = [call EXCEPT !["order"] =
                  IF Blocked(k) THEN [NoCall EXCEPT !.kind = k, !.pc = "done", !.got = "blocked"]
                  ELSE Signed(k, 0)]
  BY DEF Submit
<1>3. k \in Kinds /\ ahead \in BOOLEAN /\ "blocked" \in Results
  BY DEF Kinds, Mutating, RestInv, RestTypeOK, Results, Errors
<1>4. call \in [Callers -> Requests] /\ "order" \in Callers
  BY DEF RestInv, RestTypeOK, Requests, Callers
<1>7. UNCHANGED <<heavy, ahead, heavies, faults, jumps>>
  BY DEF Submit, restLuck
<1>5. CASE Blocked(k)
  <2>1. PICK x \in Requests : x = Ended(k, "blocked") /\ x.kind = k /\ x.pc = "done" /\ x.got = "blocked" /\ x.att = 0 /\ ~x.stale
    BY <1>3, EndedParts
  <2>2. call' = [call EXCEPT !["order"] = x]
    BY <1>2, <1>5, <2>1 DEF Ended
  <2>3. call' \in [Callers -> Requests] /\ call'["order"] = x /\ call'["account"] = call["account"]
    BY <1>4, <2>2 DEF Callers
  <2>4. RestTypeOK'
    BY <2>3 DEF RestInv, RestTypeOK, Requests, Submit, bookVars, restLuck
  <2>5. Costs'
    <3>1. ~call'["order"].stale /\ call'["order"].att = 0 /\ call'["order"].pc # "sync"
          /\ call'["order"].got # "timestamp"
      BY <2>1, <2>3
    <3> QED
      BY <1>7, <3>1 DEF RestInv, Costs
  <2>6. GateMeans'
    BY <1>1, <1>5, <2>1, <2>3 DEF GateMeans, Submit, Blocked, Unsent, Mutating
  <2>7. RowMeans'
    BY <1>1, <1>2, <2>1, <2>3 DEF RestInv, RowMeans, Unsent, Callers, Mutating
  <2> QED
    BY <1>1, <2>4, <2>5, <2>6, <2>7 DEF RestInv, ExecutedOnce, LooksLast, Unsent
<1>6. CASE ~Blocked(k)
  <2>1. PICK x \in Requests : x = Signed(k, 0) /\ x.kind = k /\ x.pc = "throttle" /\ x.got = "none" /\ x.att = 0 /\ (x.stale <=> ahead)
    BY <1>3, SignedParts
  <2>2. call' = [call EXCEPT !["order"] = x]
    BY <1>2, <1>6, <2>1
  <2>3. call' \in [Callers -> Requests] /\ call'["order"] = x /\ call'["account"] = call["account"]
    BY <1>4, <2>2 DEF Callers
  <2>4. RestTypeOK'
    BY <2>3 DEF RestInv, RestTypeOK, Requests, Submit, bookVars, restLuck
  <2>5. Costs'
    <3>1. (call'["order"].stale => ahead) /\ call'["order"].att = 0 /\ call'["order"].pc # "sync"
          /\ call'["order"].got # "timestamp"
      BY <2>1, <2>3
    <3>2. ahead => jumps + heavies >= 1 + Heavy
      BY DEF RestInv, RestTypeOK, Costs, Heavy
    <3> QED
      BY <1>7, <3>1, <3>2 DEF RestInv, Costs, Heavy
  <2>6. GateMeans'
    BY <1>1, <1>6, <2>1, <2>3 DEF GateMeans, Submit, Blocked, Unsent, Mutating
  <2>7. RowMeans'
    BY <1>1, <1>2, <2>1, <2>3 DEF RestInv, RowMeans, Unsent, Callers, Mutating
  <2> QED
    BY <1>1, <2>4, <2>5, <2>6, <2>7 DEF RestInv, ExecutedOnce, LooksLast, Unsent
<1> QED
  BY <1>5, <1>6

LEMMA RestPlaced ==
  ASSUME RestInv, Placed
  PROVE  RestInv'
<1> DEFINE o == call["order"]
<1>1. /\ o.pc = "done" /\ o.kind \in Mutating /\ row = "PENDING_SUBMIT" /\ nf = 0 /\ nf' = 0
      /\ UNCHANGED <<call, heavy, ahead, config, report, checked, le, executed, flight, late, asked, heavies, faults, jumps>>
  BY DEF Placed, RestInv, RowMeans, callVars, gateVars, bookVars, restLuck
<1>2. \/ o.got = "ok" /\ row' = "NEW"
      \/ o.got = "blocked" /\ row' = "NOT_PLACED"
      \/ o.got \in {"lost", "server"} /\ row' = "UNKNOWN"
      \/ o.got \notin {"ok", "blocked", "lost", "server"} /\ row' = "REJECTED"
  BY DEF Placed, Unknown
<1>3. looks' \in 0..Lookups
  BY DEF Placed, RestInv, RestTypeOK
<1>4. RestTypeOK'
  BY <1>1, <1>2, <1>3 DEF RestInv, RestTypeOK
<1>5. RowMeans'
  BY <1>1, <1>2 DEF RestInv, RowMeans, Unsent, Mutating
<1>6. GateMeans'
  BY <1>1, <1>2 DEF RestInv, GateMeans
<1>7. Costs'
  BY <1>1 DEF RestInv, Costs, Heavy
<1>8. LooksLast'
  BY <1>1 DEF LooksLast, Mutating
<1> QED
  BY <1>1, <1>4, <1>5, <1>6, <1>7, <1>8 DEF RestInv, ExecutedOnce

\* The order is looked for: nothing of the row is new.
LEMMA LookupSigned ==
  ASSUME RestInv, call' = [call EXCEPT !["order"] = Signed("lookup", 0)],
         UNCHANGED <<heavy, ahead, heavies, faults, jumps>>
  PROVE  /\ call' \in [Callers -> Requests] /\ call'["account"] = call["account"]
         /\ call'["order"].kind = "lookup" /\ call'["order"].pc = "throttle" /\ call'["order"].got = "none"
         /\ Costs'
<1>1. "lookup" \in Kinds /\ ahead \in BOOLEAN /\ call \in [Callers -> Requests] /\ "order" \in Callers
      /\ "account" \in Callers
  BY DEF Kinds, RestInv, RestTypeOK, Requests, Callers
<1>2. PICK x \in Requests : x = Signed("lookup", 0) /\ x.kind = "lookup" /\ x.pc = "throttle" /\ x.got = "none" /\ x.att = 0 /\ (x.stale <=> ahead)
  BY <1>1, SignedParts
<1>3. /\ call' \in [Callers -> Requests] /\ call'["account"] = call["account"] /\ call'["order"] = x
  BY <1>1, <1>2
<1> QED
  BY <1>2, <1>3 DEF RestInv, Costs, Heavy, Mutating

LEMMA RestLook ==
  ASSUME RestInv, Look
  PROVE  RestInv'
<1>1. /\ row = "UNKNOWN" /\ looks > 0 /\ call["order"].pc = "done" /\ call["order"].kind \in Mutating
      /\ call' = [call EXCEPT !["order"] = Signed("lookup", 0)]
      /\ UNCHANGED <<heavy, ahead, config, report, checked, row, looks, nf, le, executed, flight, late, asked,
                     heavies, faults, jumps>>
  BY DEF Look, gateVars, rowVars, bookVars, restLuck
<1>2. /\ call' \in [Callers -> Requests] /\ call'["account"] = call["account"]
      /\ call'["order"].kind = "lookup" /\ call'["order"].pc = "throttle" /\ call'["order"].got = "none"
      /\ Costs'
  BY <1>1, LookupSigned
<1>3. RestTypeOK'
  BY <1>1, <1>2 DEF RestInv, RestTypeOK, Requests
<1>4. RowMeans' /\ GateMeans' /\ LooksLast'
  BY <1>1, <1>2 DEF RestInv, RowMeans, GateMeans, LooksLast, Unsent, Mutating, Callers
<1> QED
  BY <1>1, <1>2, <1>3, <1>4 DEF RestInv, ExecutedOnce

LEMMA RestLooked ==
  ASSUME RestInv, Looked
  PROVE  RestInv'
<1> DEFINE o == call["order"]
<1>1. /\ row = "UNKNOWN" /\ o.kind = "lookup" /\ o.pc = "done" /\ looks' = looks - 1
      /\ nf' = (IF o.got = "missing" /\ nf < 2 THEN nf + 1 ELSE nf)
      /\ le' = (le \/ o.got \in Errors)
      /\ UNCHANGED <<heavy, ahead, config, report, checked, executed, flight, late, asked, heavies, faults, jumps>>
  BY DEF Looked, LooksLeft, gateVars, bookVars, restLuck
<1>2. /\ nf \in 0..2 /\ nf' \in 0..2 /\ nf' >= nf /\ (nf' > 0 => nf > 0 \/ o.got = "missing") /\ (o.got = "missing" => nf' > 0)
      /\ looks \in 0..Lookups /\ le' \in BOOLEAN
  BY <1>1 DEF RestInv, RestTypeOK
<1>3. looks > 0
  BY <1>1, <1>2 DEF RestInv, LooksLast, Looked
<1>4. CASE o.got = "found" /\ row' = "NEW" /\ UNCHANGED call
  <2>1. RestTypeOK'
    BY <1>1, <1>2, <1>3, <1>4 DEF RestInv, RestTypeOK
  <2>2. RowMeans' /\ GateMeans' /\ LooksLast'
    BY <1>1, <1>2, <1>4 DEF RestInv, RowMeans, GateMeans, LooksLast, Unsent, Mutating
  <2>3. Costs'
    BY <1>1, <1>4 DEF RestInv, Costs, Heavy
  <2> QED
    BY <1>1, <2>1, <2>2, <2>3 DEF RestInv, ExecutedOnce
<1>5. CASE o.got # "found" /\ looks' > 0 /\ UNCHANGED row /\ call' = [call EXCEPT !["order"] = Signed("lookup", 0)]
  <2>1. /\ call' \in [Callers -> Requests] /\ call'["account"] = call["account"]
        /\ call'["order"].kind = "lookup" /\ call'["order"].pc = "throttle" /\ call'["order"].got = "none"
        /\ Costs'
    BY <1>1, <1>5, LookupSigned
  <2>2. RestTypeOK'
    BY <1>1, <1>2, <1>3, <1>5, <2>1 DEF RestInv, RestTypeOK, Requests
  <2>3. RowMeans' /\ GateMeans' /\ LooksLast'
    BY <1>1, <1>2, <1>5, <2>1 DEF RestInv, RowMeans, GateMeans, LooksLast, Unsent, Mutating, Callers
  <2> QED
    BY <1>1, <2>1, <2>2, <2>3 DEF RestInv, ExecutedOnce
<1>6. CASE o.got # "found" /\ looks' = 0 /\ row' = (IF Absent(nf', le') THEN "NOT_PLACED" ELSE row) /\ UNCHANGED call
  <2>1. RestTypeOK'
    BY <1>1, <1>2, <1>3, <1>6 DEF RestInv, RestTypeOK
  <2>2. row' = "NOT_PLACED" => nf' > 0
    BY <1>1, <1>2, <1>6 DEF Absent
  <2>3. RowMeans' /\ GateMeans' /\ LooksLast'
    BY <1>1, <1>2, <1>6, <2>2 DEF RestInv, RowMeans, GateMeans, LooksLast, Unsent, Mutating
  <2>4. Costs'
    BY <1>1, <1>6 DEF RestInv, Costs, Heavy
  <2> QED
    BY <1>1, <2>1, <2>3, <2>4 DEF RestInv, ExecutedOnce
<1> QED
  BY <1>4, <1>5, <1>6 DEF Looked

LEMMA RestAsk ==
  ASSUME RestInv, AskAccount
  PROVE  RestInv'
<1>1. /\ row \notin {"OFF", "NONE"} /\ asked' = asked + 1 /\ asked < MaxQueries
      /\ call' = [call EXCEPT !["account"] = Signed("account", 0)]
      /\ UNCHANGED <<heavy, ahead, config, report, checked, row, looks, nf, le, executed, flight, late,
                     heavies, faults, jumps>>
  BY DEF AskAccount, gateVars, rowVars, bookVars
<1>2. "account" \in Kinds /\ ahead \in BOOLEAN /\ call \in [Callers -> Requests] /\ "account" \in Callers
      /\ "order" \in Callers
  BY DEF Kinds, RestInv, RestTypeOK, Requests, Callers
<1>3. PICK x \in Requests : x = Signed("account", 0) /\ x.kind = "account" /\ x.pc = "throttle" /\ x.got = "none" /\ x.att = 0 /\ (x.stale <=> ahead)
  BY <1>2, SignedParts
<1>4. /\ call' \in [Callers -> Requests] /\ call'["order"] = call["order"] /\ call'["account"] = x
  BY <1>1, <1>2, <1>3
<1>5. asked' \in 0..MaxQueries
  BY <1>1 DEF RestInv, RestTypeOK
<1>6. RestTypeOK'
  BY <1>1, <1>4, <1>5 DEF RestInv, RestTypeOK, Requests
<1>7. RowMeans'
  BY <1>1, <1>3, <1>4 DEF RestInv, RowMeans, Unsent, Callers
<1>8. GateMeans' /\ LooksLast'
  BY <1>1, <1>4 DEF RestInv, GateMeans, LooksLast
<1>9. Costs'
  BY <1>1, <1>4 DEF RestInv, Costs, Heavy
<1> QED
  BY <1>1, <1>6, <1>7, <1>8, <1>9 DEF RestInv, ExecutedOnce

----------------------------------------------------------------------------
(* A request and its result.                                                *)

LEMMA RestThrottle ==
  ASSUME RestInv, NEW c \in Callers, Throttle(c)
  PROVE  RestInv'
<1>1. /\ call[c].pc = "throttle" /\ call' = [call EXCEPT ![c].pc = "wire", ![c].stale = @ \/ heavy]
      /\ heavy' = FALSE
      /\ UNCHANGED <<ahead, config, report, checked, row, looks, nf, le, executed, flight, late, asked,
                     heavies, faults, jumps>>
  BY DEF Throttle, gateVars, rowVars, bookVars, restLuck
<1>2. call \in [Callers -> Requests] /\ call[c] \in Requests /\ "order" \in Callers /\ "account" \in Callers
  BY DEF RestInv, RestTypeOK, Requests, Callers
<1>3. /\ call' \in [Callers -> Requests] /\ \A d \in Callers \ {c} : call'[d] = call[d]
      /\ call'[c].kind = call[c].kind /\ call'[c].pc = "wire" /\ call'[c].got = call[c].got /\ call'[c].att = call[c].att
  <2>1. (call[c].stale \/ heavy) \in BOOLEAN
    OBVIOUS
  <2> QED
    BY <1>1, <1>2, <2>1 DEF Requests
<1>4. call'[c].stale => call[c].stale \/ heavy
  BY <1>1, <1>2 DEF Requests
<1>5. RestTypeOK'
  BY <1>1, <1>3 DEF RestInv, RestTypeOK, Requests
<1>6. RowMeans'
  <2>1. CASE c = "order"
    <3>1. row \notin {"OFF", "NONE"}
      BY <1>1, <2>1 DEF RestInv, RowMeans, NoCall
    <3> QED
      BY <1>1, <1>2, <1>3, <2>1, <3>1 DEF RestInv, RowMeans, Unsent, Callers
  <2>2. CASE c # "order"
    BY <1>1, <1>2, <1>3, <2>2 DEF RestInv, RowMeans, Unsent, Callers
  <2> QED
    BY <2>1, <2>2
<1>7. GateMeans' /\ LooksLast'
  BY <1>1, <1>2, <1>3 DEF RestInv, GateMeans, LooksLast, Callers
<1>8. Costs'
  <2> DEFINE o == call["order"]
  <2>1. /\ heavies \in Nat /\ jumps \in Nat /\ ~heavy' /\ Heavy' = 0 /\ Heavy \in {0, 1} /\ (heavy => Heavy = 1)
        /\ (heavy => heavies > 0)
    BY <1>1 DEF RestInv, RestTypeOK, Heavy, Costs
  <2>2. CASE c = "order"
    BY <1>1, <1>3, <1>4, <2>1, <2>2 DEF RestInv, Costs
  <2>3. CASE c # "order"
    BY <1>1, <1>2, <1>3, <2>1, <2>3 DEF RestInv, Costs
  <2> QED
    BY <2>2, <2>3
<1> QED
  BY <1>1, <1>5, <1>6, <1>7, <1>8 DEF RestInv, ExecutedOnce

\* What is counted is at least what is used up and what is still to be met.
LEMMA Counted ==
  ASSUME NEW j \in Nat, NEW m \in Nat, NEW n \in Nat, NEW x \in {0, 1}, NEW y \in {0, 1},
         n >= m, n - y >= m - x
  PROVE  (j + m >= 1 + x => j + n >= 1 + y) /\ (j + m >= 2 => j + n >= 2)
OBVIOUS

LEMMA RestSettles ==
  ASSUME RestInv, NEW c \in Callers, NEW res \in Results, Settles(c, res), Wire(c), res # "blocked",
         faults' \in faults..MaxFaults, heavies' \in 0..MaxHeavy,
         (UNCHANGED <<heavy, heavies>>) \/ (heavy' = TRUE /\ heavies' = heavies + 1),
         \/ UNCHANGED <<executed, flight>>
         \/ call[c].kind \in Mutating /\ res \in {"ok", "lost", "server"} /\ executed' = executed + 1 /\ flight' = flight
         \/ call[c].kind \in Mutating /\ res \in {"ok", "lost", "server"} /\ executed' = executed /\ flight' = TRUE,
         res = "missing" => executed = 0 /\ call[c].kind = "lookup",
         res = "timestamp" => call[c].stale
  PROVE  RestInv'
<1>1. /\ call[c].pc = "wire"
      /\ UNCHANGED <<ahead, config, report, checked, row, looks, nf, le, late, asked, jumps>>
  BY DEF Wire, gateVars, rowVars
<1>2. call \in [Callers -> Requests] /\ call[c] \in Requests /\ "order" \in Callers /\ "account" \in Callers
  BY DEF RestInv, RestTypeOK, Requests, Callers
<1>3. call[c].got = "none"
  BY <1>1 DEF RestInv, RowMeans
<1>4. /\ call' \in [Callers -> Requests]
      /\ call'[c].kind = call[c].kind
      /\ \A d \in Callers \ {c} : call'[d] = call[d]
      /\ \/ call'[c].pc = "done" /\ call'[c].got = res /\ res # "none"
            /\ ~call'[c].stale /\ call'[c].att = 0
            /\ (res = "timestamp" => call[c].att = 1)
         \/ /\ call'[c].pc = "throttle" /\ call'[c].got = "none" /\ call[c].kind \notin Mutating
         \/ /\ call'[c].pc = "sync" /\ call'[c].got = "none" /\ res = "timestamp"
            /\ call'[c].att = call[c].att /\ (call'[c].stale <=> call[c].stale)
  BY <1>3, SettlesMeans DEF RestInv
<1>5. call[c].kind \in Mutating => c = "order" /\ Unsent /\ row = "PENDING_SUBMIT" /\ nf = 0
  BY <1>1, <1>2 DEF RestInv, RowMeans, Mutating, Callers
<1>6. executed' \in 0..1 /\ flight' \in BOOLEAN /\ ExecutedOnce'
  <2>1. flight' \in BOOLEAN /\ executed \in Nat
    <3>1. flight \in BOOLEAN /\ executed \in Nat
      BY DEF RestInv, RestTypeOK
    <3> QED
      BY <3>1
  <2>2. CASE UNCHANGED <<executed, flight>>
    BY <2>1, <2>2 DEF RestInv, ExecutedOnce
  <2>3. CASE Unsent /\ executed' = executed + 1 /\ flight' = flight
    BY <2>1, <2>3 DEF ExecutedOnce, Unsent
  <2>4. CASE Unsent /\ executed' = executed /\ flight' = TRUE
    BY <2>1, <2>4 DEF ExecutedOnce, Unsent
  <2> QED
    BY <1>5, <2>2, <2>3, <2>4
<1>7. RestTypeOK'
  <2>1. faults' \in 0..MaxFaults /\ executed' \in 0..MaxFaults + 1
    BY <1>6 DEF RestInv, RestTypeOK
  <2>2. heavy' \in BOOLEAN
    BY DEF RestInv, RestTypeOK
  <2> QED
    BY <1>1, <1>4, <1>6, <2>1, <2>2 DEF RestInv, RestTypeOK, Requests
<1>8. RowMeans'
  <2>1. CASE c = "order" /\ call[c].kind \in Mutating
    BY <1>1, <1>2, <1>4, <1>5, <2>1 DEF RestInv, RowMeans, Unsent, Callers, NoCall
  <2>2. CASE c = "order" /\ call[c].kind \notin Mutating
    BY <1>1, <1>2, <1>4, <2>2 DEF RestInv, RowMeans, Unsent, Callers, NoCall
  <2>3. CASE c # "order"
    BY <1>1, <1>2, <1>4, <1>5, <2>3 DEF RestInv, RowMeans, Unsent, Callers, NoCall
  <2> QED
    BY <2>1, <2>2, <2>3
<1>9. GateMeans'
  <2>1. CASE c = "order"
    BY <1>1, <1>2, <1>3, <1>4, <1>5, <1>6, <2>1 DEF RestInv, GateMeans, Unsent
  <2>2. CASE c # "order"
    BY <1>1, <1>2, <1>4, <1>5, <2>2 DEF RestInv, GateMeans
  <2> QED
    BY <2>1, <2>2
<1>10. LooksLast'
  BY <1>1, <1>2, <1>4 DEF RestInv, LooksLast, Callers
<1>11. Costs'
  <2>1. /\ heavies \in Nat /\ jumps \in Nat /\ heavies' \in Nat /\ heavies' >= heavies
        /\ Heavy \in {0, 1} /\ Heavy' \in {0, 1} /\ (heavy => heavies > 0) /\ jumps <= faults
        /\ (Heavy = 1 <=> heavy) /\ (Heavy' = 1 <=> heavy')
    BY DEF RestInv, RestTypeOK, Heavy, Costs
  <2>2. heavies' - Heavy' >= heavies - Heavy /\ (heavy' => heavies' > 0) /\ jumps <= faults'
    <3>1. jumps <= faults'
      BY <2>1 DEF RestInv, RestTypeOK
    <3>2. CASE UNCHANGED <<heavy, heavies>>
      BY <2>1, <3>1, <3>2 DEF Heavy
    <3>3. CASE heavy' = TRUE /\ heavies' = heavies + 1
      BY <2>1, <3>1, <3>3
    <3> QED
      BY <3>2, <3>3
  <2> DEFINE NewStale == call'["order"].kind \in Mutating /\ (call'["order"].stale \/ call'["order"].att = 1 \/ call'["order"].pc = "sync")
             NewTwice == call'["order"].kind \in Mutating /\ ((call'["order"].att = 1 /\ call'["order"].stale) \/ call'["order"].got = "timestamp")
             Stale == call["order"].kind \in Mutating /\ (call["order"].stale \/ call["order"].att = 1 \/ call["order"].pc = "sync")
             Twice == call["order"].kind \in Mutating /\ ((call["order"].att = 1 /\ call["order"].stale) \/ call["order"].got = "timestamp")
  <2>3. NewStale => Stale
    BY <1>2, <1>4 DEF Callers
  <2>4. NewTwice => Twice
    BY <1>2, <1>4 DEF Callers
  <2>5. (Stale => jumps + heavies >= 1 + Heavy) /\ (Twice => jumps + heavies >= 2) /\ (ahead => jumps > 0)
    BY DEF RestInv, Costs
  <2>6. (NewStale => jumps' + heavies' >= 1 + Heavy') /\ (NewTwice => jumps' + heavies' >= 2)
    <3> HIDE DEF NewStale, NewTwice, Stale, Twice
    <3>1. /\ jumps \in Nat /\ heavies \in Nat /\ heavies' \in Nat /\ Heavy \in {0, 1}
          /\ Heavy' \in {0, 1} /\ heavies' >= heavies
      BY <2>1
    <3>2. heavies' - Heavy' >= heavies - Heavy
      BY <2>2
    <3>3. jumps' = jumps
      BY <1>1
    <3>4. /\ jumps + heavies >= 1 + Heavy => jumps + heavies' >= 1 + Heavy'
          /\ jumps + heavies >= 2 => jumps + heavies' >= 2
      BY <3>1, <3>2, Counted, Zenon
    <3> QED
      BY <2>3, <2>4, <2>5, <3>3, <3>4, Zenon
  <2> QED
    BY <1>1, <2>2, <2>5, <2>6 DEF Costs
<1> QED
  BY <1>6, <1>7, <1>8, <1>9, <1>10, <1>11 DEF RestInv

LEMMA RestRefused ==
  ASSUME RestInv, NEW c \in Callers, Refused(c)
  PROVE  RestInv'
<1>1. Wire(c) /\ call[c].stale /\ Settles(c, "timestamp") /\ Header /\ UNCHANGED <<executed, flight, faults>>
  BY DEF Refused
<1>2. "timestamp" \in Results /\ faults' \in faults..MaxFaults /\ heavies' \in 0..MaxHeavy
      /\ ((UNCHANGED <<heavy, heavies>>) \/ (heavy' = TRUE /\ heavies' = heavies + 1))
  BY <1>1 DEF Results, Errors, RestInv, RestTypeOK, Header
<1> QED
  BY <1>1, <1>2, RestSettles

LEMMA RestAnswers ==
  ASSUME RestInv, NEW c \in Callers, Answers(c)
  PROVE  RestInv'
<1>1. Wire(c) /\ ~call[c].stale /\ Header /\ UNCHANGED flight
  BY DEF Answers
<1>2. heavies' \in 0..MaxHeavy
      /\ ((UNCHANGED <<heavy, heavies>>) \/ (heavy' = TRUE /\ heavies' = heavies + 1))
  BY <1>1 DEF RestInv, RestTypeOK, Header
<1>3. {"ok", "rejected", "found", "missing"} \subseteq Results
  BY DEF Results, Errors
<1>4. faults' \in faults..MaxFaults
  BY DEF Answers, Fault, RestInv, RestTypeOK
<1>5. CASE call[c].kind \in Mutating /\ executed' = executed + 1 /\ Settles(c, "ok")
  BY <1>1, <1>2, <1>3, <1>4, <1>5, RestSettles
<1>6. CASE call[c].kind \in Mutating /\ UNCHANGED executed /\ Settles(c, "rejected")
  BY <1>1, <1>2, <1>3, <1>4, <1>6, RestSettles
<1>7. CASE call[c].kind = "account" /\ Settles(c, "ok") /\ UNCHANGED executed
  BY <1>1, <1>2, <1>3, <1>4, <1>7, RestSettles
<1>8. CASE call[c].kind = "lookup" /\ UNCHANGED executed /\ executed > 0 /\ Settles(c, "found")
  BY <1>1, <1>2, <1>3, <1>4, <1>8, RestSettles
<1>9. CASE call[c].kind = "lookup" /\ UNCHANGED executed /\ ~(executed > 0) /\ Settles(c, "missing")
  <2>1. executed = 0
    BY <1>9 DEF RestInv, RestTypeOK
  <2> QED
    BY <1>1, <1>2, <1>3, <1>4, <1>9, <2>1, RestSettles
<1> QED
  BY <1>5, <1>6, <1>7, <1>8, <1>9 DEF Answers

LEMMA RestNotDone ==
  ASSUME RestInv, NEW c \in Callers, NotDone(c)
  PROVE  RestInv'
<1>1. PICK res \in {"notsent", "limited"} : Settles(c, res)
  BY DEF NotDone
<1>2. Wire(c) /\ UNCHANGED <<heavy, heavies, executed, flight>>
  BY DEF NotDone
<1>3. res \in Results /\ faults' \in faults..MaxFaults /\ heavies' \in 0..MaxHeavy
  BY <1>2 DEF Results, Errors, NotDone, Fault, RestInv, RestTypeOK
<1> QED
  BY <1>1, <1>2, <1>3, RestSettles

LEMMA RestUnanswered ==
  ASSUME RestInv, NEW c \in Callers, Unanswered(c)
  PROVE  RestInv'
<1>1. PICK res \in {"lost", "server"} : Settles(c, res)
  BY DEF Unanswered
<1>2. Wire(c) /\ UNCHANGED <<heavy, heavies>>
  BY DEF Unanswered
<1>3. res \in Results /\ faults' \in faults..MaxFaults /\ heavies' \in 0..MaxHeavy
  BY <1>2 DEF Results, Errors, Unanswered, Fault, RestInv, RestTypeOK
<1>4. CASE UNCHANGED <<executed, flight>>
  BY <1>1, <1>2, <1>3, <1>4, RestSettles
<1>5. CASE call[c].kind \in Mutating /\ executed' = executed + 1 /\ UNCHANGED flight
  BY <1>1, <1>2, <1>3, <1>5, RestSettles
<1>6. CASE call[c].kind \in Mutating /\ flight' = TRUE /\ UNCHANGED executed
  BY <1>1, <1>2, <1>3, <1>6, RestSettles
<1> QED
  BY <1>4, <1>5, <1>6 DEF Unanswered

LEMMA RestSync ==
  ASSUME RestInv, NEW c \in Callers, Sync(c)
  PROVE  RestInv'
<1>1. /\ call[c].pc = "sync"
      /\ UNCHANGED <<heavy, config, report, checked, row, looks, nf, le, executed, flight, late, asked, heavies, jumps>>
  BY DEF Sync, gateVars, rowVars, bookVars
<1>2. call \in [Callers -> Requests] /\ call[c] \in Requests /\ "order" \in Callers /\ "account" \in Callers
      /\ call[c].kind \in Kinds
  BY DEF RestInv, RestTypeOK, Requests, Callers
<1>3. faults' \in faults..MaxFaults /\ ahead' \in BOOLEAN /\ (ahead' => ahead)
  <2>1. faults' \in faults..MaxFaults
    BY DEF Sync, Fault, RestInv, RestTypeOK
  <2>2. ahead \in BOOLEAN
    BY DEF RestInv, RestTypeOK
  <2>3. ahead' = FALSE \/ ahead' = ahead
    BY DEF Sync, Synced
  <2>4. ahead' \in BOOLEAN
    BY <2>2, <2>3, Zenon
  <2>5. ahead' => ahead
    BY <2>3, Zenon
  <2> QED
    BY <2>1, <2>4, <2>5
<1>4. PICK x \in Requests :
        /\ call' = [call EXCEPT ![c] = x] /\ x.kind = call[c].kind
        /\ \/ x.pc = "throttle" /\ x.got = "none" /\ x.att = 1 /\ ~x.stale
           \/ x.pc = "done" /\ x.got \in {"rejected", "limited", "notsent", "lost", "server"} /\ x.att = 0 /\ ~x.stale
  <2>1. CASE Synced /\ call' = [call EXCEPT ![c] = [Signed(@.kind, 1) EXCEPT !.stale = ahead']]
    <3> DEFINE y == [Signed(call[c].kind, 1) EXCEPT !.stale = ahead']
    <3>1. ahead \in BOOLEAN
      BY DEF RestInv, RestTypeOK
    <3>2. PICK x \in Requests : x = Signed(call[c].kind, 1) /\ x.kind = call[c].kind /\ x.pc = "throttle" /\ x.got = "none" /\ x.att = 1
      BY <1>2, <3>1, SignedParts
    <3>3. y = [x EXCEPT !.stale = FALSE]
      BY <2>1, <3>2 DEF Synced
    <3>4. y \in Requests /\ y.kind = call[c].kind /\ y.pc = "throttle" /\ y.got = "none" /\ y.att = 1
      <4> HIDE DEF y
      <4> QED
        BY <3>2, <3>3 DEF Requests
    <3>5. ~y.stale
      <4> HIDE DEF y
      <4> QED
        BY <3>2, <3>3 DEF Requests
    <3>6. call' = [call EXCEPT ![c] = y]
      BY <2>1
    <3> HIDE DEF y
    <3> QED
      BY <3>4, <3>5, <3>6
  <2>2. CASE \E e \in Errors \ {"blocked", "timestamp"} : call' = Done(c, e)
    <3>1. PICK e \in Errors \ {"blocked", "timestamp"} : call' = Done(c, e)
      BY <2>2
    <3>2. e \in Results /\ e \in {"rejected", "limited", "notsent", "lost", "server"}
      BY <3>1 DEF Results, Errors
    <3>3. PICK x \in Requests : /\ x = Ended(call[c].kind, e) /\ x.kind = call[c].kind /\ x.pc = "done"
                                /\ x.got = e /\ x.att = 0 /\ ~x.stale
      BY <1>2, <3>2, EndedParts
    <3>4. call' = [call EXCEPT ![c] = x]
      BY <3>1, <3>3 DEF Done, Ended
    <3> QED
      BY <3>2, <3>3, <3>4
  <2> QED
    BY <2>1, <2>2 DEF Sync
<1>5. /\ call' \in [Callers -> Requests] /\ call'[c] = x /\ \A d \in Callers \ {c} : call'[d] = call[d]
  BY <1>2, <1>4
<1>6. call[c].got = "none"
  BY <1>1 DEF RestInv, RowMeans
<1>7. RestTypeOK'
  <2>1. faults' \in 0..MaxFaults
    BY <1>3 DEF RestInv, RestTypeOK
  <2> QED
    BY <1>1, <1>3, <1>5, <2>1 DEF RestInv, RestTypeOK, Requests
<1>8. RowMeans'
  <2>1. CASE c = "order"
    <3>1. row \notin {"OFF", "NONE"}
      BY <1>1, <2>1 DEF RestInv, RowMeans, NoCall
    <3> QED
      BY <1>1, <1>2, <1>4, <1>5, <2>1, <3>1 DEF RestInv, RowMeans, Unsent, Callers
  <2>2. CASE c # "order"
    BY <1>1, <1>2, <1>4, <1>5, <2>2 DEF RestInv, RowMeans, Unsent, Callers
  <2> QED
    BY <2>1, <2>2
<1>9. GateMeans'
  <2>1. CASE c = "order"
    BY <1>1, <1>2, <1>4, <1>5, <1>6, <2>1 DEF RestInv, GateMeans
  <2>2. CASE c # "order"
    BY <1>1, <1>2, <1>5, <2>2 DEF RestInv, GateMeans
  <2> QED
    BY <2>1, <2>2
<1>10. LooksLast'
  <2>1. CASE c = "order"
    BY <1>1, <1>2, <1>4, <1>5, <2>1 DEF RestInv, LooksLast
  <2>2. CASE c # "order"
    BY <1>1, <1>2, <1>5, <2>2 DEF RestInv, LooksLast
  <2> QED
    BY <2>1, <2>2
<1>11. Costs'
  <2>1. jumps <= faults' /\ UNCHANGED Heavy
    BY <1>1, <1>3 DEF RestInv, RestTypeOK, Costs, Heavy
  <2>2. CASE c = "order"
    <3>1. call'["order"].kind \in Mutating => jumps + heavies >= 1 + Heavy
      BY <1>1, <1>4, <1>5, <2>2 DEF RestInv, Costs
    <3>2. ~call'["order"].stale /\ call'["order"].got # "timestamp"
      BY <1>4, <1>5, <2>2
    <3> QED
      BY <1>1, <1>3, <2>1, <3>1, <3>2 DEF RestInv, Costs
  <2>3. CASE c # "order"
    <3>1. call'["order"] = call["order"]
      BY <1>2, <1>5, <2>3
    <3> QED
      BY <1>1, <1>3, <2>1, <3>1 DEF RestInv, Costs
  <2> QED
    BY <2>2, <2>3
<1> QED
  BY <1>1, <1>7, <1>8, <1>9, <1>10, <1>11 DEF RestInv, ExecutedOnce

LEMMA RestStays == RestInv /\ [Next]_vars => RestInv'
<1> SUFFICES ASSUME RestInv, [Next]_vars PROVE RestInv'
  OBVIOUS
<1>1. RestNext \/ UNCHANGED restVars
  BY RestSide
<1>2. CASE UNCHANGED restVars
  BY <1>2 DEF restVars, callVars, gateVars, rowVars, bookVars, restLuck, RestInv, RestTypeOK, ExecutedOnce,
              RowMeans, GateMeans, Costs, LooksLast, Unsent, Heavy
<1>3. CASE RestNext
  <2>1. ASSUME NEW c \in Callers, RestSteps(c) PROVE RestInv'
    BY <2>1, RestThrottle, RestRefused, RestAnswers, RestNotDone, RestUnanswered, RestSync DEF RestSteps
  <2> QED
    BY <1>3, <2>1, RestWorld, RestSubmit, RestPlaced, RestLook, RestLooked, RestAsk DEF RestNext
<1> QED
  BY <1>1, <1>2, <1>3

\* Whatever becomes of its requests, an order is executed once, its row is right
\* about it, the gate stops what it must and only that, and it is not given up
\* for one jump of the clock (rest_client.py, live_gate.py, context.py).
THEOREM OrderSafe == Spec => []OrderRight
<1>1. Init => RestInv
  BY RestFirst
<1>2. RestInv /\ [Next]_vars => RestInv'
  BY RestStays
<1>3. RestInv => OrderRight
  BY RestEnough
<1> QED
  BY <1>1, <1>2, <1>3, PTL DEF Spec

----------------------------------------------------------------------------
USE UserStreamAssumption

(* Sequences as sets.                                                       *)

LEMMA AppendSet ==
  ASSUME NEW S, NEW s \in Seq(S), NEW e \in S
  PROVE  ToSet(Append(s, e)) = ToSet(s) \cup {e}
<1>1. Append(s, e) \in Seq(S) /\ Len(Append(s, e)) = Len(s) + 1 /\ Len(s) \in Nat
      /\ \A i \in 1..Len(s) + 1 : Append(s, e)[i] = IF i <= Len(s) THEN s[i] ELSE e
  BY AppendProperties
<1>2. DOMAIN s = 1..Len(s) /\ DOMAIN Append(s, e) = 1..Len(s) + 1
  BY <1>1
<1>3. ASSUME NEW x \in ToSet(Append(s, e)) PROVE x \in ToSet(s) \cup {e}
  BY <1>1, <1>2, <1>3 DEF ToSet
<1>4. ASSUME NEW x \in ToSet(s) PROVE x \in ToSet(Append(s, e))
  <2>1. PICK i \in 1..Len(s) : x = s[i]
    BY <1>2, <1>4 DEF ToSet
  <2>2. i \in 1..Len(s) + 1 /\ Append(s, e)[i] = x
    BY <1>1, <2>1
  <2> QED
    BY <1>2, <2>2 DEF ToSet
<1>5. e \in ToSet(Append(s, e))
  <2>1. Len(s) + 1 \in 1..Len(s) + 1 /\ Append(s, e)[Len(s) + 1] = e
    BY <1>1
  <2> QED
    BY <1>2, <2>1 DEF ToSet
<1> QED
  BY <1>3, <1>4, <1>5

LEMMA TailSet ==
  ASSUME NEW S, NEW s \in Seq(S), s # <<>>
  PROVE  ToSet(s) = {Head(s)} \cup ToSet(Tail(s))
<1>1. Tail(s) \in Seq(S) /\ Len(s) \in Nat \ {0} /\ Len(Tail(s)) = Len(s) - 1 /\ Head(s) = s[1]
      /\ \A i \in 1..Len(s) - 1 : Tail(s)[i] = s[i + 1]
  BY HeadTailProperties, EmptySeq
<1>2. DOMAIN s = 1..Len(s) /\ DOMAIN Tail(s) = 1..Len(s) - 1
  BY <1>1
<1>3. ASSUME NEW x \in ToSet(s) PROVE x \in {Head(s)} \cup ToSet(Tail(s))
  <2>1. PICK i \in 1..Len(s) : x = s[i]
    BY <1>2, <1>3 DEF ToSet
  <2>2. CASE i = 1
    BY <1>1, <2>1, <2>2
  <2>3. CASE i # 1
    <3>1. i - 1 \in 1..Len(s) - 1 /\ Tail(s)[i - 1] = x
      BY <1>1, <2>1, <2>3
    <3> QED
      BY <1>2, <3>1 DEF ToSet
  <2> QED
    BY <2>2, <2>3
<1>4. ASSUME NEW x \in ToSet(Tail(s)) PROVE x \in ToSet(s)
  <2>1. PICK i \in 1..Len(s) - 1 : x = Tail(s)[i]
    BY <1>2, <1>4 DEF ToSet
  <2>2. i + 1 \in 1..Len(s) /\ s[i + 1] = x
    BY <1>1, <2>1
  <2> QED
    BY <1>2, <2>2 DEF ToSet
<1>5. Head(s) \in ToSet(s)
  BY <1>1, <1>2 DEF ToSet
<1> QED
  BY <1>3, <1>4, <1>5

LEMMA EmptySet == ToSet(<<>>) = {}
BY DEF ToSet

----------------------------------------------------------------------------
(* The inductive invariant.                                                 *)

\* Nothing is on the way or known that the account did not make.
OnlyMade ==
  /\ ToSet(wire) \subseteq 1..made \cup {Expired}
  /\ ToSet(q) \subseteq 1..made /\ known \subseteq 1..made

\* What the filter drops was handed over before, and is known or still queued.
DroppedIsKept == ToSet(ring) \subseteq known \cup ToSet(q)

\* A connection that has just been made is not reconciled.
HelloFresh == st = "hello" => ~synced

\* The filter holds the last messages handed over, as many as it can.
FilterIsLast ==
  /\ Len(ring) = MaxSeen \/ Len(ring) = Len(log)
  /\ Len(ring) <= Len(log)
  /\ \A k \in 1..Len(ring) : ring[k] = log[Len(log) - Len(ring) + k]

StreamInv ==
  StreamTypeOK /\ OnlyMade /\ DroppedIsKept /\ HelloFresh /\ NothingMissed /\ FilterIsLast /\ HandedOnce

LEMMA StreamSide == [Next]_vars => StreamNext \/ UNCHANGED streamVars
BY DEF Next, vars

LEMMA StreamFirst == Init => StreamInv
<1> SUFFICES ASSUME NEW on \in BOOLEAN, StreamInit(on) PROVE StreamInv
  BY DEF Init
<1>1. wire = <<>> /\ q = <<>> /\ ring = <<>> /\ log = <<>> /\ st # "open" /\ st # "hello" /\ known = {}
  BY DEF StreamInit
<1>2. StreamTypeOK
  <2>1. <<>> \in Seq(Events) /\ <<>> \in Seq(Events \cup {Expired}) /\ Len(<<>>) = 0
    BY EmptySeq
  <2>2. req \in BOOLEAN /\ synced \in BOOLEAN /\ due \in BOOLEAN /\ evt \in BOOLEAN /\ raced \in BOOLEAN
    BY Zenon DEF StreamInit
  <2> QED
    BY <2>1, <2>2 DEF StreamInit, StreamTypeOK, Keys
<1>3. Len(ring) = 0 /\ Len(log) = 0
  BY <1>1
<1> QED
  BY <1>1, <1>2, <1>3, EmptySet DEF StreamInv, OnlyMade, DroppedIsKept, HelloFresh, NothingMissed, FilterIsLast, HandedOnce

\* An action that leaves the queue, the filter and the knowledge of the engine
\* alone.
LEMMA InboxKept ==
  ASSUME StreamInv, UNCHANGED inbox, StreamTypeOK', made' = made \/ made' = made + 1,
         ToSet(wire') \subseteq 1..made' \cup {Expired}, HelloFresh', NothingMissed'
  PROVE  StreamInv'
<1>1. UNCHANGED <<ring, q, known, log>>
  BY DEF inbox
<1>2. 1..made \subseteq 1..made'
  BY DEF StreamInv, StreamTypeOK
<1>3. OnlyMade' /\ DroppedIsKept'
  BY <1>1, <1>2 DEF StreamInv, OnlyMade, DroppedIsKept
<1>4. FilterIsLast' /\ HandedOnce'
  BY <1>1 DEF StreamInv, FilterIsLast, HandedOnce
<1> QED
  BY <1>3, <1>4 DEF StreamInv

LEMMA StreamExchange ==
  ASSUME StreamInv, AccountEvent \/ Redeliver \/ KeyDies \/ SocketDies
  PROVE  StreamInv'
<1>1. UNCHANGED <<st, synced>> /\ UNCHANGED inbox /\ (UNCHANGED <<q, known>>)
  BY DEF AccountEvent, Redeliver, KeyDies, SocketDies, stream, inbox
<1>2. wire \in Seq(Events \cup {Expired}) /\ made \in 0..MaxEvents /\ 1..made \subseteq Events
  BY DEF StreamInv, StreamTypeOK, Events
<1>3. CASE AccountEvent
  <2>1. made' = made + 1 /\ made' \in 0..MaxEvents /\ made + 1 \in Events /\ 1..made' = 1..made \cup {made + 1}
    BY <1>2, <1>3 DEF AccountEvent, Events
  <2>2. wire' \in Seq(Events \cup {Expired}) /\ ToSet(wire') = (IF Served THEN ToSet(wire) \cup {made + 1} ELSE ToSet(wire))
    <3>1. Append(wire, made + 1) \in Seq(Events \cup {Expired})
      BY <1>2, <2>1, AppendProperties
    <3>2. ToSet(Append(wire, made + 1)) = ToSet(wire) \cup {made + 1}
      BY <1>2, <2>1, AppendSet
    <3> QED
      BY <1>2, <1>3, <3>1, <3>2 DEF AccountEvent
  <2>3. StreamTypeOK'
    BY <1>3, <2>1, <2>2 DEF StreamInv, StreamTypeOK, AccountEvent, stream, keeper, inbox, luck
  <2>4. NothingMissed'
    <3>1. Served' <=> Served
      BY <1>3 DEF AccountEvent, Served
    <3> QED
      BY <1>1, <2>1, <2>2, <3>1 DEF StreamInv, NothingMissed
  <2>5. ToSet(wire') \subseteq 1..made' \cup {Expired} /\ HelloFresh'
    BY <1>1, <2>1, <2>2 DEF StreamInv, OnlyMade, HelloFresh
  <2> QED
    BY <1>1, <2>1, <2>3, <2>4, <2>5, InboxKept
<1>4. CASE Redeliver
  <2>1. PICK e \in 1..made : wire' = Append(wire, e)
    BY <1>4 DEF Redeliver
  <2>2. wire' \in Seq(Events \cup {Expired}) /\ ToSet(wire') = ToSet(wire) \cup {e}
    <3>1. e \in Events \cup {Expired}
      BY <1>2, <2>1
    <3>2. Append(wire, e) \in Seq(Events \cup {Expired})
      BY <1>2, <3>1, AppendProperties
    <3>3. ToSet(Append(wire, e)) = ToSet(wire) \cup {e}
      BY <1>2, <3>1, AppendSet
    <3> QED
      BY <2>1, <3>2, <3>3
  <2>3. UNCHANGED <<srv, gen, made, sock>> /\ dups' \in 0..MaxDup
    BY <1>4 DEF Redeliver, StreamInv, StreamTypeOK
  <2>4. StreamTypeOK'
    BY <1>4, <2>2, <2>3 DEF StreamInv, StreamTypeOK, Redeliver, stream, keeper, inbox
  <2>5. NothingMissed' /\ ToSet(wire') \subseteq 1..made' \cup {Expired} /\ HelloFresh'
    BY <1>1, <2>1, <2>2, <2>3 DEF StreamInv, OnlyMade, HelloFresh, NothingMissed, Served
  <2> QED
    BY <1>1, <2>3, <2>4, <2>5, InboxKept
<1>5. CASE KeyDies
  <2>1. srv' = 0 /\ UNCHANGED <<gen, made, sock>> /\ wrong' \in 0..MaxWrong
    BY <1>5 DEF KeyDies, Wrong, luck, StreamInv, StreamTypeOK
  <2>2. wire' \in Seq(Events \cup {Expired}) /\ ToSet(wire') \subseteq ToSet(wire) \cup {Expired}
    <3>1. Append(wire, Expired) \in Seq(Events \cup {Expired}) /\ ToSet(Append(wire, Expired)) = ToSet(wire) \cup {Expired}
      BY <1>2, AppendProperties, AppendSet
    <3> QED
      BY <1>2, <1>5, <3>1 DEF KeyDies
  <2>3. StreamTypeOK'
    BY <1>5, <2>1, <2>2 DEF StreamInv, StreamTypeOK, KeyDies, stream, keeper, inbox, Keys
  <2>4. ~Served'
    BY <2>1 DEF Served
  <2>5. NothingMissed' /\ ToSet(wire') \subseteq 1..made' \cup {Expired} /\ HelloFresh'
    BY <1>1, <2>1, <2>2, <2>4 DEF StreamInv, OnlyMade, HelloFresh, NothingMissed
  <2> QED
    BY <1>1, <2>1, <2>3, <2>5, InboxKept
<1>6. CASE SocketDies
  <2>1. sock' = 0 /\ wire' = <<>> /\ UNCHANGED <<srv, gen, made>> /\ wrong' \in 0..MaxWrong
    BY <1>6 DEF SocketDies, Wrong, StreamInv, StreamTypeOK
  <2>2. StreamTypeOK'
    BY <1>6, <2>1 DEF StreamInv, StreamTypeOK, SocketDies, stream, keeper, inbox, Keys
  <2>3. ~Served'
    BY <2>1 DEF Served
  <2>4. NothingMissed' /\ ToSet(wire') \subseteq 1..made' \cup {Expired} /\ HelloFresh'
    BY <1>1, <2>1, <2>3, EmptySet DEF StreamInv, HelloFresh, NothingMissed
  <2> QED
    BY <1>1, <2>1, <2>2, <2>4, InboxKept
<1> QED
  BY <1>3, <1>4, <1>5, <1>6

\* The turns of the loop that move no message, the keepalive and the pump's
\* awakening: the connection is not reconciled anew.
LEMMA StreamTurns ==
  ASSUME StreamInv,
         \/ UseKey \/ CreateKey \/ ConnectFails \/ Connected
         \/ Requested \/ Rotate \/ Broken \/ Wake
  PROVE  StreamInv'
<1>1. UNCHANGED inbox /\ made' = made /\ (wire' = wire \/ wire' = <<>>)
  BY DEF UseKey, CreateKey, ConnectFails, Connected, Requested, Rotate, Broken, Leave, Wake, account
<1>2. st' \in {"connect", "wait", "hello", "ensure"} /\ (st' = "hello" => ~synced')
  BY DEF UseKey, CreateKey, ConnectFails, Connected, Requested, Rotate, Broken, Leave, Wake
<1>3. wire' \in Seq(Events \cup {Expired}) /\ ToSet(wire') \subseteq 1..made' \cup {Expired}
  BY <1>1, EmptySet, EmptySeq DEF StreamInv, StreamTypeOK, OnlyMade
<1>4. srv' \in Keys /\ gen' \in Keys /\ sock' \in Keys /\ url' \in Keys /\ key' \in Keys
  <2>1. gen \in Nat /\ (gen < MaxKeys => gen + 1 \in Keys)
    BY DEF StreamInv, StreamTypeOK, Keys
  <2>2. 0 \in Keys
    BY DEF Keys
  <2>3. CASE CreateKey
    BY <2>1, <2>3 DEF CreateKey, StreamInv, StreamTypeOK
  <2>4. CASE UseKey \/ ConnectFails \/ Connected
    BY <2>4 DEF UseKey, ConnectFails, Connected, account, keeper, StreamInv, StreamTypeOK
  <2>5. CASE Requested \/ Rotate \/ Broken \/ Wake
    BY <2>2, <2>5 DEF Requested, Rotate, Broken, Leave, Wake, account, keeper, StreamInv, StreamTypeOK
  <2> QED
    BY <2>3, <2>4, <2>5
<1>5. /\ req' \in BOOLEAN /\ synced' \in BOOLEAN /\ due' \in BOOLEAN /\ ka' = ka /\ raced' = raced /\ dups' = dups
      /\ wrong' \in 0..MaxWrong
  <2>1. req \in BOOLEAN /\ synced \in BOOLEAN /\ due \in BOOLEAN /\ wrong \in 0..MaxWrong
    BY DEF StreamInv, StreamTypeOK
  <2>2. ka' = ka /\ raced' = raced /\ dups' = dups /\ wrong' \in 0..MaxWrong
    BY <2>1 DEF UseKey, CreateKey, ConnectFails, Connected, Requested, Rotate, Broken, Leave, Wake, Wrong, keeper, luck
  <2>3. (req' = req \/ req' = FALSE) /\ (synced' = synced \/ synced' = FALSE) /\ (due' = due \/ due' = FALSE)
    BY DEF UseKey, CreateKey, ConnectFails, Connected, Requested, Rotate, Broken, Leave, Wake, keeper
  <2> QED
    BY <2>1, <2>2, <2>3
<1>6. StreamTypeOK'
  BY <1>1, <1>2, <1>3, <1>4, <1>5 DEF StreamInv, StreamTypeOK, inbox
<1> QED
  BY <1>1, <1>2, <1>3, <1>6, InboxKept DEF HelloFresh, NothingMissed

LEMMA StreamKeeper ==
  ASSUME StreamInv, HalfHour \/ KeepAlive \/ KeptAlive \/ KeyGone \/ PutFails
  PROVE  StreamInv'
<1>1. UNCHANGED <<account, st, synced, url, inbox, dups>>
  BY DEF HalfHour, KeepAlive, KeptAlive, KeyGone, PutFails, stream, luck
<1>2. UNCHANGED <<srv, gen, made, sock, wire, ring, q, evt, pump, known, log>>
  BY <1>1 DEF account, inbox
<1>3. /\ key' \in Keys /\ req' \in BOOLEAN /\ due' \in BOOLEAN /\ ka' \in {"sleep", "put"} /\ raced' \in BOOLEAN
      /\ wrong' \in 0..MaxWrong
  <2>1. key \in Keys /\ 0 \in Keys /\ req \in BOOLEAN /\ due \in BOOLEAN /\ ka \in {"sleep", "put"} /\ raced \in BOOLEAN
        /\ wrong \in 0..MaxWrong
    BY DEF StreamInv, StreamTypeOK, Keys
  <2>2. key' \in Keys /\ ka' \in {"sleep", "put"} /\ wrong' \in 0..MaxWrong
    BY <2>1 DEF HalfHour, KeepAlive, KeptAlive, KeyGone, Gone, PutFails, Wrong, stream, luck
  <2>3. (req' = req \/ req' = TRUE) /\ (due' = due \/ due' \in BOOLEAN)
        /\ (raced' = raced \/ raced' = (raced \/ st = "connect"))
    BY DEF HalfHour, KeepAlive, KeptAlive, KeyGone, Gone, PutFails, stream
  <2> QED
    BY <2>1, <2>2, <2>3
<1>4. StreamTypeOK'
  BY <1>1, <1>2, <1>3 DEF StreamInv, StreamTypeOK
<1>5. HelloFresh' /\ NothingMissed' /\ ToSet(wire') \subseteq 1..made' \cup {Expired}
  BY <1>1, <1>2 DEF StreamInv, HelloFresh, NothingMissed, OnlyMade, Served
<1> QED
  BY <1>1, <1>2, <1>4, <1>5, InboxKept

\* The engine learns all that has happened, and what is queued with it.
LEMMA Reconciled ==
  ASSUME StreamInv, known' = known \cup 1..made, q' = <<>>, made' = made, wire' = wire, ring' = ring, log' = log,
         StreamTypeOK', HelloFresh'
  PROVE  StreamInv'
<1>1. OnlyMade' /\ DroppedIsKept' /\ NothingMissed'
  BY EmptySet DEF StreamInv, OnlyMade, DroppedIsKept, NothingMissed
<1>2. FilterIsLast' /\ HandedOnce'
  BY DEF StreamInv, FilterIsLast, HandedOnce
<1> QED
  BY <1>1, <1>2 DEF StreamInv

LEMMA StreamHello ==
  ASSUME StreamInv, Hello \/ Periodic
  PROVE  StreamInv'
<1>1. 1..made \subseteq Events /\ <<>> \in Seq(Events)
  BY EmptySeq DEF StreamInv, StreamTypeOK, Events
<1>2. CASE Periodic
  <2>1. StreamTypeOK' /\ HelloFresh'
    BY <1>1, <1>2 DEF Periodic, StreamInv, StreamTypeOK, HelloFresh, account, stream, keeper, luck
  <2> QED
    BY <1>2, <2>1, Reconciled DEF Periodic, account
<1>3. CASE Hello /\ Greeted /\ q' = <<>> /\ synced' = TRUE /\ UNCHANGED wrong
  <2>1. StreamTypeOK' /\ HelloFresh'
    BY <1>1, <1>3 DEF Hello, Greeted, StreamInv, StreamTypeOK, HelloFresh, account, keeper
  <2> QED
    BY <1>3, <2>1, Reconciled DEF Hello, Greeted, account
<1>4. CASE Hello /\ Wrong /\ UNCHANGED <<q, known, synced>>
  <2>1. UNCHANGED inbox /\ ~synced' /\ made' = made /\ wire' = wire
    BY <1>4 DEF Hello, inbox, account, StreamInv, HelloFresh
  <2>2. StreamTypeOK'
    BY <1>4 DEF Hello, Wrong, StreamInv, StreamTypeOK, account, keeper
  <2> QED
    BY <2>1, <2>2, InboxKept DEF StreamInv, OnlyMade, HelloFresh, NothingMissed
<1> QED
  BY <1>2, <1>3, <1>4 DEF Hello

LEMMA StreamPump ==
  ASSUME StreamInv, PumpWakes \/ Drain
  PROVE  StreamInv'
<1>1. UNCHANGED <<account, stream, keeper, ring, log, raced, luck>>
  BY DEF PumpWakes, Drain
<1>2. UNCHANGED <<made, wire, sock, srv, st, synced>>
  BY <1>1 DEF account, stream
<1>3. known \cup ToSet(q) = known' \cup ToSet(q') /\ q' \in Seq(Events) /\ known' \subseteq Events
      /\ ToSet(q') \subseteq 1..made /\ known' \subseteq 1..made
  <2>1. q \in Seq(Events) /\ known \subseteq Events /\ ToSet(q) \subseteq 1..made /\ known \subseteq 1..made
        /\ 1..made \subseteq Events
    BY DEF StreamInv, StreamTypeOK, OnlyMade, Events
  <2>2. CASE UNCHANGED <<q, known>>
    BY <2>1, <2>2
  <2>3. CASE q # <<>> /\ known' = known \cup {Head(q)} /\ q' = Tail(q)
    <3>1. ToSet(q) = {Head(q)} \cup ToSet(q') /\ q' \in Seq(Events)
      BY <2>1, <2>3, TailSet, HeadTailProperties
    <3> QED
      BY <2>1, <2>3, <3>1
  <2> QED
    BY <2>2, <2>3 DEF PumpWakes, Drain
<1>4. evt' \in BOOLEAN /\ pump' \in {"wait", "drain"}
  BY DEF PumpWakes, Drain, StreamInv, StreamTypeOK
<1>5. StreamTypeOK'
  BY <1>1, <1>3, <1>4 DEF StreamInv, StreamTypeOK, account, stream, keeper, luck
<1>6. OnlyMade' /\ DroppedIsKept' /\ NothingMissed' /\ HelloFresh'
  BY <1>1, <1>2, <1>3 DEF StreamInv, OnlyMade, DroppedIsKept, NothingMissed, HelloFresh, Served
<1>7. FilterIsLast' /\ HandedOnce'
  BY <1>1 DEF StreamInv, FilterIsLast, HandedOnce
<1> QED
  BY <1>5, <1>6, <1>7 DEF StreamInv

\* A message that is not in the filter is the newest of it from then on.
LEMMA Remembered ==
  ASSUME StreamInv, NEW e \in Events, e \notin ToSet(ring), ring' = Remember(e), log' = Append(log, e)
  PROVE  /\ ring' \in Seq(Events) /\ Len(ring') <= MaxSeen /\ ToSet(ring') \subseteq ToSet(ring) \cup {e}
         /\ log' \in Seq(Events) /\ FilterIsLast' /\ HandedOnce'
<1> DEFINE r == Append(ring, e)
           n == Len(log)
           m == Len(ring)
<1>1. ring \in Seq(Events) /\ log \in Seq(Events) /\ m \in Nat /\ n \in Nat /\ m <= MaxSeen /\ m <= n
      /\ (m = MaxSeen \/ m = n) /\ \A k \in 1..m : ring[k] = log[n - m + k]
  BY DEF StreamInv, StreamTypeOK, FilterIsLast
<1>2. r \in Seq(Events) /\ Len(r) = m + 1 /\ \A k \in 1..m + 1 : r[k] = IF k <= m THEN ring[k] ELSE e
  BY <1>1, AppendProperties
<1>3. log' \in Seq(Events) /\ Len(log') = n + 1 /\ \A k \in 1..n + 1 : log'[k] = IF k <= n THEN log[k] ELSE e
  BY <1>1, AppendProperties
<1>4. \A k \in 1..m + 1 : r[k] = log'[n - m + k]
  <2> HIDE DEF r, n, m
  <2>1. PICK ll, rr : ll = log' /\ rr = r
    OBVIOUS
  <2>2. m \in Nat /\ n \in Nat /\ m <= n
    BY <1>1
  <2>3. \A k \in 1..m : ring[k] = log[n - m + k]
    BY <1>1
  <2>4. \A k \in 1..n + 1 : ll[k] = IF k <= n THEN log[k] ELSE e
    BY <1>3, <2>1
  <2>5. \A k \in 1..m + 1 : rr[k] = IF k <= m THEN ring[k] ELSE e
    BY <1>2, <2>1
  <2>6. \A k \in 1..m + 1 : rr[k] = ll[n - m + k]
    <3> SUFFICES ASSUME NEW k \in 1..m + 1 PROVE rr[k] = ll[n - m + k]
      OBVIOUS
    <3>1. n - m + k \in 1..n + 1 /\ (k <= m => n - m + k <= n) /\ (k > m => k = m + 1 /\ n - m + k = n + 1)
      BY <2>2
    <3>2. CASE k <= m
      <4>1. k \in 1..m
        BY <2>2, <3>2
      <4> QED
        BY <2>3, <2>4, <2>5, <3>1, <3>2, <4>1
    <3>3. CASE ~(k <= m)
      BY <2>2, <2>4, <2>5, <3>1, <3>3
    <3> QED
      BY <3>2, <3>3
  <2> QED
    BY <2>1, <2>6
<1>5. \A k \in 1..m : ring[k] # e
  BY <1>1 DEF ToSet
<1>6. ToSet(r) = ToSet(ring) \cup {e}
  BY <1>1, AppendSet
<1> HIDE DEF r, n, m
<1>7. CASE m + 1 > MaxSeen
  <2>1. ring' = Tail(r) /\ m = MaxSeen
    <3>1. ring' = IF m + 1 > MaxSeen THEN Tail(r) ELSE r
      BY Zenon DEF Remember, r, m
    <3>2. MaxSeen \in Nat
      BY UserStreamAssumption
    <3> QED
      BY <1>1, <1>7, <3>1, <3>2
  <2>2. r # <<>>
    BY <1>1, <1>2, EmptySeq
  <2>3. ring' \in Seq(Events) /\ Len(ring') = m /\ (\A k \in 1..m : ring'[k] = r[k + 1]) /\ ToSet(ring') \subseteq ToSet(r)
    <3>1. /\ Tail(r) \in Seq(Events) /\ Len(Tail(r)) = Len(r) - 1
          /\ \A k \in 1..Len(Tail(r)) : Tail(r)[k] = r[k + 1]
      BY <1>1, <1>2, <2>2, HeadTailProperties
    <3>2. ToSet(Tail(r)) \subseteq ToSet(r)
      BY <1>1, <1>2, <2>2, TailSet
    <3>3. Len(r) - 1 = m
      BY <1>1, <1>2
    <3> QED
      BY <2>1, <3>1, <3>2, <3>3
  <2>4. \A k \in 1..m : ring'[k] = log'[n + 1 - m + k]
    <3> SUFFICES ASSUME NEW k \in 1..m PROVE ring'[k] = log'[n + 1 - m + k]
      OBVIOUS
    <3>1. k + 1 \in 1..m + 1 /\ n - m + (k + 1) = n + 1 - m + k
      BY <1>1
    <3> QED
      BY <1>4, <2>3, <3>1
  <2>5. FilterIsLast'
    <3>1. PICK a, b : a = Len(ring') /\ b = Len(log')
      OBVIOUS
    <3>2. a = m /\ b = n + 1 /\ b - a = n + 1 - m /\ a = MaxSeen /\ a <= b
      BY <1>1, <1>3, <2>1, <2>3, <3>1
    <3>3. \A k \in 1..a : ring'[k] = log'[b - a + k]
      BY <2>4, <3>2
    <3> QED
      BY <3>1, <3>2, <3>3, Zenon DEF FilterIsLast
  <2> QED
    <3>1. HandedOnce'
      <4> SUFFICES ASSUME NEW i \in 1..n + 1, NEW j \in 1..n + 1, i < j, log'[i] = log'[j] PROVE j - i > MaxSeen
        BY <1>3 DEF HandedOnce
      <4>1. CASE j <= n
        BY <1>1, <1>3, <4>1 DEF StreamInv, HandedOnce, n
      <4>2. CASE j = n + 1
        <5>1. i <= n /\ log[i] = e
          BY <1>1, <1>3, <4>2
        <5>2. ~(i > n - m)
          <6> SUFFICES ASSUME i > n - m PROVE FALSE
            OBVIOUS
          <6>1. i - (n - m) \in 1..m /\ n - m + (i - (n - m)) = i
            BY <1>1, <5>1
          <6>2. ring[i - (n - m)] = e
            BY <1>1, <5>1, <6>1
          <6> QED
            BY <1>5, <6>1, <6>2
        <5> QED
          BY <1>1, <2>1, <4>2, <5>1, <5>2
      <4>3. j <= n \/ j = n + 1
        BY <1>1
      <4> QED
        BY <4>1, <4>2, <4>3
    <3> QED
      BY <1>1, <1>3, <1>6, <2>1, <2>3, <2>5, <3>1
<1>8. CASE ~(m + 1 > MaxSeen)
  <2>1. ring' = r /\ m = n
    BY <1>1, <1>8 DEF Remember, r, m
  <2>2. FilterIsLast'
    <3>1. PICK a, b : a = Len(ring') /\ b = Len(log')
      OBVIOUS
    <3>2. a = m + 1 /\ b = n + 1 /\ b - a = n - m /\ a = b
      BY <1>1, <1>2, <1>3, <2>1, <3>1
    <3>3. \A k \in 1..a : ring'[k] = log'[b - a + k]
      BY <1>4, <2>1, <3>2
    <3>4. a <= b
      BY <1>1, <3>2
    <3> QED
      BY <3>1, <3>2, <3>3, <3>4, Zenon DEF FilterIsLast
  <2>3. HandedOnce'
    <3> SUFFICES ASSUME NEW i \in 1..n + 1, NEW j \in 1..n + 1, i < j, log'[i] = log'[j] PROVE j - i > MaxSeen
      BY <1>3 DEF HandedOnce
    <3>1. CASE j <= n
      BY <1>1, <1>3, <3>1 DEF StreamInv, HandedOnce, n
    <3>2. CASE j = n + 1
      BY <1>1, <1>3, <1>5, <2>1, <3>2
    <3>3. j <= n \/ j = n + 1
      BY <1>1
    <3> QED
      BY <3>1, <3>2, <3>3
  <2> QED
    BY <1>1, <1>2, <1>3, <1>6, <1>8, <2>1, <2>2, <2>3
<1> QED
  BY <1>1, <1>7, <1>8

LEMMA StreamReceive ==
  ASSUME StreamInv, Receive
  PROVE  StreamInv'
<1>1. /\ st = "open" /\ wire # <<>> /\ wire' = Tail(wire) /\ st' \in {"open", "leave"}
      /\ UNCHANGED <<srv, gen, made, sock, url, synced, due, ka, pump, known, raced, dups, wrong>>
  BY DEF Receive, luck
<1>2. /\ wire \in Seq(Events \cup {Expired}) /\ wire' \in Seq(Events \cup {Expired})
      /\ ToSet(wire) = {Head(wire)} \cup ToSet(wire') /\ Head(wire) \in 1..made \cup {Expired}
      /\ ToSet(wire') \subseteq 1..made \cup {Expired} /\ 1..made \subseteq Events /\ Expired \notin 1..made
  <2>1. wire \in Seq(Events \cup {Expired}) /\ 1..made \subseteq Events /\ ToSet(wire) \subseteq 1..made \cup {Expired}
    BY DEF StreamInv, StreamTypeOK, OnlyMade, Events
  <2>2. ToSet(wire) = {Head(wire)} \cup ToSet(wire') /\ wire' \in Seq(Events \cup {Expired})
    BY <1>1, <2>1, TailSet, HeadTailProperties
  <2> QED
    BY <2>1, <2>2 DEF Expired
<1>3. Served' <=> Served
  BY <1>1 DEF Served
<1>4. HelloFresh'
  BY <1>1 DEF HelloFresh
<1>5. CASE Head(wire) = Expired /\ key' = 0 /\ req' = TRUE /\ UNCHANGED <<ring, q, evt, log>>
  <2>1. StreamTypeOK'
    BY <1>1, <1>2, <1>5 DEF StreamInv, StreamTypeOK, Keys
  <2>2. NothingMissed'
    BY <1>1, <1>2, <1>3, <1>5 DEF StreamInv, NothingMissed
  <2> QED
    BY <1>1, <1>2, <1>4, <1>5, <2>1, <2>2, InboxKept DEF inbox
<1>6. CASE Head(wire) \in ToSet(ring) /\ UNCHANGED <<key, req, ring, q, evt, log>>
  <2>1. StreamTypeOK'
    BY <1>1, <1>2, <1>6 DEF StreamInv, StreamTypeOK
  <2>2. NothingMissed'
    BY <1>1, <1>2, <1>3, <1>6 DEF StreamInv, NothingMissed, DroppedIsKept
  <2> QED
    BY <1>1, <1>2, <1>4, <1>6, <2>1, <2>2, InboxKept DEF inbox
<1>7. CASE /\ Head(wire) \notin ToSet(ring) \cup {Expired}
           /\ ring' = Remember(Head(wire)) /\ Sink(Head(wire)) /\ UNCHANGED <<key, req>>
  <2> DEFINE e == Head(wire)
  <2>1. e \in 1..made /\ e \in Events /\ e \notin ToSet(ring)
    BY <1>2, <1>7
  <2>2. q \in Seq(Events) /\ ToSet(q) \subseteq 1..made /\ known \subseteq 1..made
    BY DEF StreamInv, StreamTypeOK, OnlyMade
  <2>3. q' = Append(q, e) /\ log' = Append(log, e) /\ evt' = TRUE /\ ring' = Remember(e)
    BY <1>7 DEF Sink
  <2> HIDE DEF e
  <2>4. q' \in Seq(Events) /\ ToSet(q') = ToSet(q) \cup {e}
    BY <2>1, <2>2, <2>3, AppendProperties, AppendSet
  <2>5. /\ ring' \in Seq(Events) /\ Len(ring') <= MaxSeen /\ ToSet(ring') \subseteq ToSet(ring) \cup {e}
        /\ log' \in Seq(Events) /\ FilterIsLast' /\ HandedOnce'
    BY <2>1, <2>3, Remembered
  <2>6. StreamTypeOK'
    BY <1>1, <1>2, <1>7, <2>3, <2>4, <2>5 DEF StreamInv, StreamTypeOK
  <2>7. OnlyMade' /\ DroppedIsKept'
    BY <1>1, <1>2, <2>1, <2>2, <2>4, <2>5 DEF StreamInv, OnlyMade, DroppedIsKept
  <2>8. NothingMissed'
    BY <1>1, <1>2, <1>3, <2>4 DEF StreamInv, NothingMissed, e
  <2> QED
    BY <1>4, <2>5, <2>6, <2>7, <2>8 DEF StreamInv
<1> QED
  BY <1>5, <1>6, <1>7 DEF Receive

LEMMA StreamStays == StreamInv /\ [Next]_vars => StreamInv'
<1> SUFFICES ASSUME StreamInv, [Next]_vars PROVE StreamInv'
  OBVIOUS
<1>1. StreamNext \/ UNCHANGED streamVars
  BY StreamSide
<1>2. CASE UNCHANGED streamVars
  BY <1>2 DEF streamVars, account, stream, keeper, inbox, luck, StreamInv, StreamTypeOK, OnlyMade, DroppedIsKept,
              HelloFresh, NothingMissed, FilterIsLast, HandedOnce, Served
<1>3. CASE StreamNext
  BY <1>3, StreamExchange, StreamTurns, StreamKeeper, StreamHello, StreamPump, StreamReceive DEF StreamNext, Loop
<1> QED
  BY <1>1, <1>2, <1>3

\* Every event of the account reaches the engine once the connection is
\* reconciled, and none twice while the filter remembers it: for any number of
\* events, keys, repetitions and faults and any size of the filter
\* (exchange/websocket.py).
THEOREM EventsReach == Spec => []ExactlyOnce
<1>1. Init => StreamInv
  BY StreamFirst
<1>2. StreamInv /\ [Next]_vars => StreamInv'
  BY StreamStays
<1>3. StreamInv => ExactlyOnce
  BY DEF StreamInv, ExactlyOnce
<1> QED
  BY <1>1, <1>2, <1>3, PTL DEF Spec
=============================================================================
