------------------------------ MODULE BarsProofs ------------------------------
(***************************************************************************)
(* Proofs about the parts that MCBars puts together, for every value of     *)
(* their constants: the limit of the daily loss, the quantity of an entry,   *)
(* the prices recorded, the handling of the bars, the paper trades and the   *)
(* backtest.  The parts share no state, so a step of one leaves the          *)
(* invariants of the others alone.                                           *)
(***************************************************************************)
EXTENDS MCBars, FiniteSetTheorems, SequenceTheorems, WellFoundedInduction, TLAPS

----------------------------------------------------------------------------
(* The limit of the daily loss.                                             *)

LimitInv == DayLimitTypeOK /\ DayBegun /\ LossRefused

LEMMA LimitInit == Init => LimitInv
<1> SUFFICES ASSUME Init PROVE LimitInv
  OBVIOUS
<1>1. PICK on \in BOOLEAN : DayLimitInit(on)
  BY DEF Init
<1>2. DayLimitTypeOK
  BY <1>1, DayLimitAssumption DEF DayLimitInit, DayLimitTypeOK, Amounts, Unread
<1>3. DayBegun /\ LossRefused
  BY <1>1 DEF DayLimitInit, DayBegun, LossRefused
<1> QED
  BY <1>2, <1>3 DEF LimitInv

\* The base of the day is the first equity used, by whoever comes first.
LEMMA UsedBase ==
  ASSUME DayLimitTypeOK, DayBegun, NEW r \in Readers, Used(r)
  PROVE  /\ readBy[r] \in Amounts /\ readBy' \in [Readers -> Amounts \cup {Unread}]
         /\ base' \in [day : 0..MaxDays, start : Amounts]
         /\ first' \in Amounts
         /\ base'.day = today /\ base'.start = first'
  BY DayLimitAssumption DEF DayLimitTypeOK, DayBegun, Used, DayState, Amounts

LEMMA LimitStep == LimitInv /\ [DayLimitNext]_limitVars => LimitInv'
<1> SUFFICES ASSUME LimitInv, [DayLimitNext]_limitVars PROVE LimitInv'
  OBVIOUS
<1> USE DayLimitAssumption DEF LimitInv
<1>1. CASE Moves
  BY <1>1 DEF Moves, DayLimitTypeOK, DayBegun, LossRefused, TooMuch, Amounts
<1>2. CASE NextDay
  <2>1. DayLimitTypeOK'
    BY <1>2 DEF NextDay, DayLimitTypeOK, Amounts
  <2>2. DayBegun' /\ LossRefused'
    BY <1>2 DEF NextDay, DayLimitTypeOK, DayBegun, LossRefused
  <2> QED
    BY <2>1, <2>2
<1>3. CASE \E r \in Readers : Reads(r)
  BY <1>3 DEF Reads, DayLimitTypeOK, DayBegun, LossRefused, TooMuch
<1>4. CASE Snapshot
  BY <1>4, UsedBase DEF Snapshot, Readers, DayLimitTypeOK, DayBegun, LossRefused, TooMuch
<1>5. CASE CheckEntry
  <2>1. /\ readBy["entry"] \in Amounts /\ readBy' \in [Readers -> Amounts \cup {Unread}]
        /\ base' \in [day : 0..MaxDays, start : Amounts] /\ first' \in Amounts
        /\ base'.day = today /\ base'.start = first'
    BY <1>5, UsedBase DEF CheckEntry, Readers
  <2>2. /\ entered' = [base |-> first', equity |-> readBy["entry"], ok |-> ~TooMuch(first', readBy["entry"])]
        /\ UNCHANGED <<today, worth, reborn>>
        /\ Alarmed \/ UNCHANGED <<events, haltedDay>>
    BY <1>5, <2>1 DEF CheckEntry
  <2>3. /\ haltedDay' \in 0..MaxDays /\ haltedDay' <= today
        /\ events' \in 0..MaxRestarts + 1
        /\ events' <= reborn + (IF haltedDay' = today THEN 1 ELSE 0)
    BY <2>2 DEF Alarmed, DayLimitTypeOK, DayBegun
  <2>4. entered' \in [base : Amounts, equity : Amounts, ok : BOOLEAN]
    BY <2>1, <2>2 DEF TooMuch
  <2>5. DayLimitTypeOK' /\ DayBegun'
    BY <2>1, <2>2, <2>3, <2>4 DEF DayLimitTypeOK, DayBegun
  <2>6. LossRefused'
    BY <2>2 DEF LossRefused
  <2> QED
    BY <2>5, <2>6
<1>6. CASE Restarted
  BY <1>6 DEF Restarted, DayLimitTypeOK, DayBegun, LossRefused, TooMuch
<1>7. CASE UNCHANGED limitVars
  BY <1>7 DEF limitVars, DayLimitTypeOK, DayBegun, LossRefused, TooMuch
<1> QED
  BY <1>1, <1>2, <1>3, <1>4, <1>5, <1>6, <1>7 DEF DayLimitNext

\* The limit of the day's loss holds over midnight, restarts and equities read
\* long before they are used, and is told once by each process (risk/limits.py).
THEOREM DayLimited == Spec => []LimitHolds
<1>1. [Next]_vars => [DayLimitNext]_limitVars
  BY DEF Next, vars
<1>2. LimitInv => LimitHolds
  BY DayLimitAssumption DEF LimitInv, DayLimitTypeOK, DayBegun, LimitHolds, ToldOnce
<1> QED
  BY <1>1, <1>2, LimitInit, LimitStep, PTL DEF Spec

----------------------------------------------------------------------------
(* The quantity of an entry.                                                *)

LEMMA Quotient ==
  ASSUME NEW n \in Nat, NEW d \in Nat, d > 0
  PROVE  /\ n \div d \in Nat /\ d * (n \div d) <= n
         /\ \A k \in Nat : k * d <= n => k <= n \div d
<1>1. n \div d \in Nat /\ d * (n \div d) <= n /\ n < d * (n \div d) + d
  OBVIOUS
<1> DEFINE q == n \div d
<1>2. q \in Nat /\ n < d * q + d
  BY <1>1
<1> HIDE DEF q
<1>3. ASSUME NEW k \in Nat, k * d <= n PROVE k <= q
  <2>1. SUFFICES ASSUME k >= q + 1 PROVE FALSE
    BY <1>2
  <2>2. PICK j \in Nat : k = q + 1 + j
    BY <1>2, <2>1
  <2>3. k * d = q * d + d + j * d /\ j * d >= 0
    BY <1>2, <2>2
  <2> QED
    BY <1>2, <1>3, <2>3
<1> QED
  BY <1>1, <1>3 DEF q

\* A positive number, said in two ways.
LEMMA Positive == \A n \in Nat \ {0} : n \in Nat /\ n > 0
  OBVIOUS

\* Whole steps, and what a limit num / den lets through.
Stepped(lot, q) == q \in Nat /\ \E k \in Nat : q = k * lot.step
Within(q, num, den) == q * den <= num

LEMMA WholeMod ==
  ASSUME NEW s \in Nat, s > 0, NEW q \in Nat
  PROVE  (q % s = 0) <=> \E k \in Nat : q = k * s
<1>1. q = s * (q \div s) + (q % s) /\ q \div s \in Nat /\ q % s \in 0..(s - 1)
  OBVIOUS
<1>2. ASSUME NEW k \in Nat, q = k * s PROVE q % s = 0
  <2>1. k <= q \div s
    BY <1>2, Quotient
  <2>2. PICK j \in Nat : q \div s = k + j
    BY <1>1, <2>1
  <2>3. q = k * s + j * s + (q % s)
    BY <1>1, <2>2
  <2>4. j * s >= 0
    OBVIOUS
  <2> QED
    BY <1>1, <1>2, <2>3, <2>4
<1>3. ASSUME q % s = 0 PROVE \E k \in Nat : q = k * s
  <2> DEFINE k == q \div s
  <2>1. k \in Nat /\ q = s * k
    BY <1>1, <1>3
  <2> HIDE DEF k
  <2>2. q = k * s
    BY <2>1
  <2> QED
    BY <2>1, <2>2
<1> QED
  BY <1>2, <1>3

\* RoundQtyDown gives the greatest number of whole steps within the limit.
LEMMA RoundsDown ==
  ASSUME NEW lot, lot.step \in Nat, lot.step > 0, NEW num \in Nat, NEW den \in Nat, den > 0
  PROVE  LET r == RoundQtyDown(lot, num, den) IN
         /\ Stepped(lot, r) /\ Within(r, num, den)
         /\ \A q : Stepped(lot, q) /\ Within(q, num, den) => q <= r
<1> DEFINE s == lot.step
           k == num \div (den * s)
<1>0. den * s \in Nat /\ den * s > 0
  OBVIOUS
<1>1. /\ k \in Nat /\ (den * s) * k <= num
      /\ \A j \in Nat : j * (den * s) <= num => j <= k
  BY <1>0, Quotient
<1>2. RoundQtyDown(lot, num, den) = s * k
  BY DEF RoundQtyDown
<1> HIDE DEF k
<1>3. s * k \in Nat /\ s * k = k * s /\ (s * k) * den = (den * s) * k
  BY <1>1
<1>4. ASSUME NEW q, Stepped(lot, q), Within(q, num, den) PROVE q <= s * k
  <2>1. PICK j \in Nat : q = j * s
    BY <1>4 DEF Stepped
  <2>2. j * (den * s) <= num
    BY <1>4, <2>1 DEF Within
  <2>3. PICK i \in Nat : k = j + i
    BY <1>1, <2>2
  <2>4. s * k = q + i * s /\ i * s >= 0 /\ q \in Nat
    BY <2>1, <2>3
  <2> QED
    BY <2>4
<1> QED
  BY <1>1, <1>2, <1>3, <1>4 DEF Stepped, Within

\* q is the greatest number of whole steps that the limits so far let through.
Greatest(lot, q, P) == Stepped(lot, q) /\ q \in P /\ \A m \in P : Stepped(lot, m) => m <= q
Limit(num, den) == {q \in Nat : Within(q, num, den)}

LEMMA CutBest ==
  ASSUME NEW lot, lot.step \in Nat, lot.step > 0, NEW num \in Nat, NEW den \in Nat, den > 0,
         NEW P, NEW q, Greatest(lot, q, P), \A m \in P, k \in Nat : k <= m => k \in P
  PROVE  Greatest(lot, IF q * den > num THEN RoundQtyDown(lot, num, den) ELSE q, P \intersect Limit(num, den))
<1> DEFINE r == RoundQtyDown(lot, num, den)
<1>1. /\ Stepped(lot, r) /\ Within(r, num, den)
      /\ \A m : Stepped(lot, m) /\ Within(m, num, den) => m <= r
  BY RoundsDown
<1> HIDE DEF r
<1>2. q \in Nat /\ r \in Nat
  BY <1>1 DEF Greatest, Stepped
<1>3. CASE q * den > num
  <2>1. r <= q
    <3>1. SUFFICES ASSUME r >= q + 1 PROVE FALSE
      BY <1>2
    <3>2. PICK j \in Nat : r = q + 1 + j
      BY <1>2, <3>1
    <3>3. r * den = q * den + den + j * den /\ j * den >= 0
      BY <1>2, <3>2
    <3> QED
      BY <1>1, <1>2, <1>3, <3>3 DEF Within
  <2>2. r \in P \intersect Limit(num, den)
    BY <1>1, <1>2, <2>1 DEF Greatest, Limit
  <2> QED
    BY <1>1, <1>3, <2>2 DEF Greatest, Limit, r
<1>4. CASE ~(q * den > num)
  <2>1. Within(q, num, den)
    BY <1>2, <1>4 DEF Within
  <2> QED
    BY <1>2, <1>4, <2>1 DEF Greatest, Limit
<1> QED
  BY <1>3, <1>4

LEMMA LimitDown ==
  ASSUME NEW num \in Nat, NEW den \in Nat, den > 0, NEW m \in Limit(num, den), NEW k \in Nat, k <= m
  PROVE  k \in Limit(num, den)
<1>1. PICK j \in Nat : m = k + j
  BY DEF Limit
<1>2. m * den = k * den + j * den /\ j * den >= 0
  BY <1>1
<1> QED
  BY <1>2 DEF Limit, Within

----------------------------------------------------------------------------
(* The numbers of an order are natural numbers, and a stop on the losing    *)
(* side of the entry costs something.                                       *)

Budget(x) == x.equity * Risk * EntryPx(x) * StopPx(x) * FeeOf
Spread(x) == x.equity * Exposure * EntryPx(x)
Funds(x)  == x.avail * EntryPx(x) * x.lev * FeeOf

LEMMA Products ==
  /\ \A a, b \in Nat : a * b \in Nat
  /\ \A a, b \in Nat \ {0} : a * b \in Nat \ {0}
<1>1. \A a, b \in Nat : a * b \in Nat
  OBVIOUS
<1>2. ASSUME NEW a \in Nat \ {0}, NEW b \in Nat \ {0} PROVE a * b # 0
  BY <1>2
<1> QED
  BY <1>1, <1>2

LEMMA OrderNumbers ==
  ASSUME NEW x \in Inputs
  PROVE  /\ x.dir \in {1, -1} /\ x.equity \in Nat /\ x.avail \in Nat
         /\ x.entry \in Nat \ {0} /\ x.stop \in Nat \ {0} /\ x.lev \in Nat \ {0}
         /\ x.lot.step \in Nat \ {0} /\ x.lot.min \in Nat \ {0} /\ x.lot.max \in Nat \ {0}
         /\ EntryPx(x) \in Nat \ {0} /\ StopPx(x) \in Nat \ {0}
         /\ Budget(x) \in Nat /\ Spread(x) \in Nat /\ Funds(x) \in Nat
         /\ CostOne(x) \in Nat \ {0} /\ LossOne(x) \in Nat
<1>1. /\ x.dir \in {1, -1} /\ x.equity \in Nat /\ x.avail \in Nat
      /\ x.entry \in Nat \ {0} /\ x.stop \in Nat \ {0} /\ x.lev \in Nat \ {0}
      /\ x.lot.step \in Nat \ {0} /\ x.lot.min \in Nat \ {0} /\ x.lot.max \in Nat \ {0}
  BY SizingAssumption DEF Inputs
<1>2. /\ SlipOf \in Nat \ {0} /\ Slip \in Nat /\ Slip < SlipOf /\ Risk \in Nat /\ FeeOf \in Nat \ {0}
      /\ Exposure \in Nat /\ Size \in Nat \ {0} /\ Fee \in Nat
  BY SizingAssumption
<1>3. SlipOf + x.dir * Slip \in Nat \ {0} /\ SlipOf - x.dir * Slip \in Nat \ {0}
  BY <1>1, <1>2
<1>4. EntryPx(x) \in Nat \ {0} /\ StopPx(x) \in Nat \ {0}
  BY <1>1, <1>3, Products DEF EntryPx, StopPx
<1>5. Budget(x) \in Nat /\ Spread(x) \in Nat /\ Funds(x) \in Nat
  <2>1. x.equity * Risk \in Nat /\ x.equity * Exposure \in Nat /\ x.avail * EntryPx(x) \in Nat
    BY <1>1, <1>2, <1>4, Products
  <2>2. x.equity * Risk * EntryPx(x) \in Nat /\ x.avail * EntryPx(x) * x.lev \in Nat
    BY <1>1, <1>4, <2>1, Products
  <2>3. x.equity * Risk * EntryPx(x) * StopPx(x) \in Nat
    BY <1>4, <2>2, Products
  <2> QED
    BY <1>2, <1>4, <2>1, <2>2, <2>3, Products DEF Budget, Spread, Funds
<1>6. CostOne(x) \in Nat \ {0}
  <2>1. Fee * x.lev \in Nat
    BY <1>1, <1>2, Products
  <2>2. FeeOf + Fee * x.lev \in Nat \ {0}
    BY <1>2, <2>1
  <2> QED
    BY <1>2, <2>2, Products DEF CostOne
<1>7. LossOne(x) \in Nat
  <2>1. Gap(EntryPx(x), StopPx(x)) \in Nat
    BY <1>4 DEF Gap
  <2>2. Gap(EntryPx(x), StopPx(x)) * FeeOf \in Nat /\ Fee * (EntryPx(x) + StopPx(x)) \in Nat
    BY <1>2, <1>4, <2>1, Products
  <2>3. Gap(EntryPx(x), StopPx(x)) * FeeOf + Fee * (EntryPx(x) + StopPx(x)) \in Nat
    BY <2>2
  <2> QED
    BY <1>2, <2>3, Products DEF LossOne
<1> QED
  BY <1>1, <1>4, <1>5, <1>6, <1>7

LEMMA StopCosts ==
  ASSUME NEW x \in Inputs, x.dir * (x.entry - x.stop) > 0
  PROVE  RiskOf * LossOne(x) \in Nat \ {0}
<1>1. /\ SlipOf \in Nat \ {0} /\ Slip \in Nat /\ Slip < SlipOf /\ FeeOf \in Nat \ {0}
      /\ Size \in Nat \ {0} /\ Fee \in Nat /\ RiskOf \in Nat \ {0}
  BY SizingAssumption
<1>2. /\ x.dir \in {1, -1} /\ x.entry \in Nat \ {0} /\ x.stop \in Nat \ {0}
      /\ EntryPx(x) \in Nat \ {0} /\ StopPx(x) \in Nat \ {0}
  BY OrderNumbers
<1>3. Gap(EntryPx(x), StopPx(x)) \in Nat \ {0}
  <2>1. CASE x.dir = 1
    <3>0. x.entry - x.stop - 1 \in Nat
      BY <1>2, <2>1
    <3>1. PICK k \in Nat : x.entry = x.stop + 1 + k
      BY <1>2, <3>0
    <3>2. EntryPx(x) = x.stop * SlipOf + SlipOf + k * SlipOf + x.entry * Slip
      BY <1>1, <1>2, <2>1, <3>1 DEF EntryPx
    <3>3. StopPx(x) = x.stop * SlipOf - x.stop * Slip
      BY <1>1, <1>2, <2>1 DEF StopPx
    <3>4. x.stop * SlipOf \in Nat /\ k * SlipOf \in Nat /\ x.entry * Slip \in Nat /\ x.stop * Slip \in Nat
      BY <1>1, <1>2, Products
    <3>5. EntryPx(x) > StopPx(x)
      BY <1>1, <3>2, <3>3, <3>4
    <3> QED
      BY <1>2, <3>5 DEF Gap
  <2>2. CASE x.dir = -1
    <3>0. x.stop - x.entry - 1 \in Nat
      BY <1>2, <2>2
    <3>1. PICK k \in Nat : x.stop = x.entry + 1 + k
      BY <1>2, <3>0
    <3>2. StopPx(x) = x.entry * SlipOf + SlipOf + k * SlipOf + x.stop * Slip
      BY <1>1, <1>2, <2>2, <3>1 DEF StopPx
    <3>3. EntryPx(x) = x.entry * SlipOf - x.entry * Slip
      BY <1>1, <1>2, <2>2 DEF EntryPx
    <3>4. x.entry * SlipOf \in Nat /\ k * SlipOf \in Nat /\ x.entry * Slip \in Nat /\ x.stop * Slip \in Nat
      BY <1>1, <1>2, Products
    <3>5. StopPx(x) > EntryPx(x)
      BY <1>1, <3>2, <3>3, <3>4
    <3> QED
      BY <1>2, <3>5 DEF Gap
  <2> QED
    BY <1>2, <2>1, <2>2
<1>4. Gap(EntryPx(x), StopPx(x)) * FeeOf \in Nat \ {0} /\ Fee * (EntryPx(x) + StopPx(x)) \in Nat
  BY <1>1, <1>2, <1>3, Products
<1>5. Gap(EntryPx(x), StopPx(x)) * FeeOf + Fee * (EntryPx(x) + StopPx(x)) \in Nat \ {0}
  BY <1>4
<1>6. LossOne(x) \in Nat \ {0}
  BY <1>1, <1>5, Products DEF LossOne
<1> QED
  BY <1>1, <1>6, Products

----------------------------------------------------------------------------
(* The cuts, one after the other.                                           *)

LEMMA BudgetBest ==
  ASSUME NEW x \in Inputs, x.dir * (x.entry - x.stop) > 0
  PROVE  Greatest(x.lot, ByBudget(x), Limit(Budget(x), RiskOf * LossOne(x)))
<1>1. /\ Budget(x) \in Nat /\ RiskOf * LossOne(x) \in Nat \ {0}
      /\ x.lot.step \in Nat \ {0}
  BY OrderNumbers, StopCosts
<1>2. ByBudget(x) = RoundQtyDown(x.lot, Budget(x), RiskOf * LossOne(x))
  BY DEF ByBudget, Budget
<1>3. /\ Stepped(x.lot, ByBudget(x)) /\ Within(ByBudget(x), Budget(x), RiskOf * LossOne(x))
      /\ \A q : Stepped(x.lot, q) /\ Within(q, Budget(x), RiskOf * LossOne(x)) => q <= ByBudget(x)
  BY <1>1, <1>2, Positive, RoundsDown
<1> QED
  BY <1>3 DEF Greatest, Limit, Stepped

LEMMA CappedBest ==
  ASSUME NEW x \in Inputs, NEW P, NEW q, Greatest(x.lot, q, P), \A m \in P, k \in Nat : k <= m => k \in P
  PROVE  Greatest(x.lot, Capped(x, q), P \intersect Limit(x.lot.max, 1) \intersect Limit(Spread(x), Size))
<1> DEFINE most == IF q > x.lot.max THEN RoundQtyDown(x.lot, x.lot.max, 1) ELSE q
           P1 == P \intersect Limit(x.lot.max, 1)
<1>1. /\ Spread(x) \in Nat /\ x.lot.step \in Nat \ {0} /\ x.lot.max \in Nat
      /\ Size \in Nat \ {0} /\ q \in Nat
  BY OrderNumbers, SizingAssumption DEF Greatest, Stepped
<1>2. most = IF q * 1 > x.lot.max THEN RoundQtyDown(x.lot, x.lot.max, 1) ELSE q
  BY <1>1
<1>3. Greatest(x.lot, most, P1)
  <2>1. 1 \in Nat /\ 1 > 0 /\ x.lot.step \in Nat /\ x.lot.step > 0
    BY <1>1
  <2>2. Greatest(x.lot, IF q * 1 > x.lot.max THEN RoundQtyDown(x.lot, x.lot.max, 1) ELSE q,
             P \intersect Limit(x.lot.max, 1))
    BY <1>1, <2>1, CutBest
  <2> QED
    BY <1>2, <2>2
<1>4. \A m \in P1, k \in Nat : k <= m => k \in P1
  BY <1>1, LimitDown
<1>5. Capped(x, q) = IF most * Size > Spread(x) THEN RoundQtyDown(x.lot, Spread(x), Size) ELSE most
  BY DEF Capped, Spread
<1> HIDE DEF most, P1
<1>6. Greatest(x.lot, Capped(x, q), P1 \intersect Limit(Spread(x), Size))
  BY <1>1, <1>3, <1>4, <1>5, Positive, CutBest
<1> QED
  BY <1>6 DEF P1

LEMMA AffordBest ==
  ASSUME NEW x \in Inputs, NEW P, NEW q, Greatest(x.lot, q, P), \A m \in P, k \in Nat : k <= m => k \in P
  PROVE  Greatest(x.lot, Afford(x, q), P \intersect Limit(Funds(x), CostOne(x)))
<1>1. Funds(x) \in Nat /\ x.lot.step \in Nat \ {0} /\ CostOne(x) \in Nat \ {0}
  BY OrderNumbers
<1>2. Afford(x, q) = IF q * CostOne(x) > Funds(x) THEN RoundQtyDown(x.lot, Funds(x), CostOne(x)) ELSE q
  BY DEF Afford, Funds
<1> QED
  BY <1>1, <1>2, Positive, CutBest

\* All limits at once.
Limits(x) == Limit(Budget(x), RiskOf * LossOne(x)) \intersect Limit(x.lot.max, 1)
               \intersect Limit(Spread(x), Size) \intersect Limit(Funds(x), CostOne(x))

LEMMA SizedBest ==
  ASSUME NEW x \in Inputs, x.dir * (x.entry - x.stop) > 0
  PROVE  LET capped == Capped(x, ByBudget(x)) IN
         /\ Greatest(x.lot, ByBudget(x), Limit(Budget(x), RiskOf * LossOne(x)))
         /\ Greatest(x.lot, capped, Limit(Budget(x), RiskOf * LossOne(x)) \intersect Limit(x.lot.max, 1)
                                  \intersect Limit(Spread(x), Size))
         /\ Greatest(x.lot, Afford(x, capped), Limits(x))
<1> DEFINE P1 == Limit(Budget(x), RiskOf * LossOne(x))
           P3 == P1 \intersect Limit(x.lot.max, 1) \intersect Limit(Spread(x), Size)
<1>1. /\ Budget(x) \in Nat /\ RiskOf * LossOne(x) \in Nat \ {0} /\ x.lot.max \in Nat
      /\ Spread(x) \in Nat /\ Size \in Nat \ {0}
  BY OrderNumbers, StopCosts, SizingAssumption
<1>2. Greatest(x.lot, ByBudget(x), P1)
  BY BudgetBest
<1>3. \A m \in P1, k \in Nat : k <= m => k \in P1
  BY <1>1, LimitDown
<1>4. \A m \in P3, k \in Nat : k <= m => k \in P3
  BY <1>1, <1>3, LimitDown
<1>5. P3 \intersect Limit(Funds(x), CostOne(x)) = Limits(x)
  BY DEF Limits
<1> HIDE DEF P1
<1>6. Greatest(x.lot, Capped(x, ByBudget(x)), P3)
  BY <1>2, <1>3, CappedBest
<1> HIDE DEF P3
<1>7. Greatest(x.lot, Afford(x, Capped(x, ByBudget(x))), P3 \intersect Limit(Funds(x), CostOne(x)))
  BY <1>4, <1>6, AffordBest
<1> QED
  BY <1>2, <1>5, <1>6, <1>7 DEF P1, P3

LEMMA AllowedLimits ==
  ASSUME NEW x \in Inputs
  PROVE  \A q : q \in Allowed(x) <=> q \in Limits(x) /\ Stepped(x.lot, q) /\ q >= x.lot.min
<1>1. /\ x.lot.step \in Nat \ {0} /\ x.lot.min \in Nat \ {0} /\ x.lot.max \in Nat
      /\ LossOne(x) \in Nat /\ RiskOf \in Nat
  BY OrderNumbers, SizingAssumption
<1>2. ASSUME NEW q \in Nat PROVE q * LossOne(x) * RiskOf = q * (RiskOf * LossOne(x)) /\ q * 1 = q
  BY <1>1
<1>3. ASSUME NEW q \in Nat PROVE (q % x.lot.step = 0) <=> Stepped(x.lot, q)
  BY <1>1, Positive, WholeMod DEF Stepped
<1>4. \A q \in Allowed(x) : q \in Nat
  BY <1>1 DEF Allowed
<1>5. \A q \in Limits(x) : q \in Nat
  BY DEF Limits, Limit
<1>6. ASSUME NEW q \in Nat
      PROVE  q \in Allowed(x) <=> q \in Limits(x) /\ Stepped(x.lot, q) /\ q >= x.lot.min
  <2>1. q \in Limits(x) <=> /\ q * (RiskOf * LossOne(x)) <= Budget(x) /\ q * 1 <= x.lot.max
                           /\ q * Size <= Spread(x) /\ q * CostOne(x) <= Funds(x)
    BY DEF Limits, Limit, Within
  <2>2. q \in Allowed(x) <=> /\ q \in 1..x.lot.max /\ q % x.lot.step = 0 /\ q >= x.lot.min
                            /\ q * LossOne(x) * RiskOf <= Budget(x) /\ q * Size <= Spread(x)
                            /\ q * CostOne(x) <= Funds(x)
    BY DEF Allowed, Budget, Spread, Funds
  <2>3. q \in 1..x.lot.max /\ q >= x.lot.min <=> q <= x.lot.max /\ q >= x.lot.min
    BY <1>1
  <2> QED
    BY <1>2, <1>3, <2>1, <2>2, <2>3
<1> QED
  BY <1>4, <1>5, <1>6

LEMMA SizedRight ==
  ASSUME NEW x \in Inputs
  PROVE  IF x.dir * (x.entry - x.stop) > 0 /\ FarEnough(x) /\ Allowed(x) # {}
         THEN Sized(x) = Max(Allowed(x)) ELSE Sized(x) = 0
<1> DEFINE capped == Capped(x, ByBudget(x))
           q == Afford(x, capped)
           min == x.lot.min
<1>1. Sized(x) = IF /\ x.equity > 0 /\ x.dir * (x.entry - x.stop) > 0
                    /\ ByBudget(x) >= min /\ CheckQty(x.lot, capped) /\ q >= min /\ FarEnough(x)
                 THEN q ELSE 0
  BY DEF Sized
<1>2. CASE ~(x.dir * (x.entry - x.stop) > 0 /\ FarEnough(x))
  BY <1>1, <1>2
<1>3. CASE x.dir * (x.entry - x.stop) > 0 /\ FarEnough(x)
  <2> DEFINE P1 == Limit(Budget(x), RiskOf * LossOne(x))
             P3 == P1 \intersect Limit(x.lot.max, 1) \intersect Limit(Spread(x), Size)
  <2>1. Greatest(x.lot, ByBudget(x), P1) /\ Greatest(x.lot, capped, P3) /\ Greatest(x.lot, q, Limits(x))
    BY <1>3, SizedBest
  <2>2. \A m : m \in Allowed(x) <=> m \in Limits(x) /\ Stepped(x.lot, m) /\ m >= min
    BY AllowedLimits
  <2>3. /\ min \in Nat \ {0} /\ x.lot.max \in Nat /\ x.lot.step \in Nat \ {0} /\ x.equity \in Nat
    BY OrderNumbers
  <2>4. Limits(x) \subseteq P3 /\ P3 \subseteq P1
    BY DEF Limits
  <2>5. ByBudget(x) \in Nat /\ capped \in Nat /\ q \in Nat
    BY <2>1 DEF Greatest, Stepped
  <2> HIDE DEF P1, capped, q, min
  <2>6. CASE Allowed(x) = {}
    <3>1. ~(q >= min)
      BY <2>1, <2>2, <2>6 DEF Greatest
    <3> QED
      BY <1>1, <2>6, <3>1
  <2>7. CASE Allowed(x) # {}
    <3>1. PICK m \in Allowed(x) : TRUE
      BY <2>7
    <3>2. m \in Limits(x) /\ Stepped(x.lot, m) /\ m >= min /\ m \in Nat
      BY <2>2 DEF Stepped
    <3>3. m <= ByBudget(x) /\ m <= capped /\ m <= q
      BY <2>1, <2>4, <3>2 DEF Greatest, P3
    <3>4. ByBudget(x) >= min /\ capped >= min /\ q >= min
      BY <2>3, <2>5, <3>2, <3>3
    <3>5. CheckQty(x.lot, capped)
      <4>1. capped * 1 <= x.lot.max /\ Stepped(x.lot, capped)
        BY <2>1 DEF Greatest, P3, Limit, Within
      <4>2. capped % x.lot.step = 0
        BY <2>3, <2>5, <4>1, Positive, WholeMod DEF Stepped
      <4> QED
        BY <2>5, <3>4, <4>1, <4>2 DEF CheckQty, min
    <3>6. x.equity > 0
      <4>1. SUFFICES ASSUME x.equity = 0 PROVE FALSE
        BY <2>3
      <4>2. Budget(x) = 0
        BY <4>1, OrderNumbers, SizingAssumption DEF Budget
      <4>3. RiskOf * LossOne(x) \in Nat \ {0} /\ m \in Nat \ {0}
        BY <1>3, <2>3, <3>2, StopCosts
      <4>4. m * (RiskOf * LossOne(x)) # 0 /\ m * (RiskOf * LossOne(x)) \in Nat
        BY <4>3, Products
      <4>5. m * (RiskOf * LossOne(x)) <= 0
        BY <3>2, <4>2 DEF Limits, Limit, Within
      <4> QED
        BY <4>4, <4>5
    <3>7. Sized(x) = q
      BY <1>1, <1>3, <3>4, <3>5, <3>6
    <3>8. q \in Allowed(x) /\ \A k \in Allowed(x) : q >= k
      BY <2>1, <2>2, <2>5, <3>4 DEF Greatest, Stepped
    <3>9. \A k \in Allowed(x) : (\A l \in Allowed(x) : k >= l) => k = q
      BY <2>2, <2>5, <3>8 DEF Stepped
    <3>10. Max(Allowed(x)) = q
      BY <3>8, <3>9 DEF Max
    <3> QED
      BY <1>3, <2>7, <3>7, <3>10
  <2> QED
    BY <2>6, <2>7
<1> QED
  BY <1>2, <1>3

SizeInv == (order \in Inputs /\ given = Sized(order)) \/ (given = 0 /\ order.dir \in {0, 2} /\ order.dir * (order.entry - order.stop) = 0)

\* The quantity of an entry is the greatest that every limit of the account and
\* of the contract allows at once, and it is refused only if there is none:
\* rounding after each of the cuts loses nothing (risk/sizing.py).
THEOREM SizesRight == Spec => []GreatestAllowed
<1>1. Init => SizeInv
  BY DEF Init, SizingInit, SizeInv, NoInput
<1>2. SizeInv /\ [Next]_vars => SizeInv'
  <2>1. [Next]_vars => SizePosition \/ UNCHANGED sizeVars
    BY DEF Next, vars
  <2> QED
    BY <2>1 DEF SizePosition, SizeInv, sizeVars
<1>3. SizeInv => GreatestAllowed
  BY SizedRight DEF SizeInv, GreatestAllowed
<1> QED
  BY <1>1, <1>2, <1>3, PTL DEF Spec

----------------------------------------------------------------------------
(***************************************************************************)
(* The prices recorded to learn from.                                       *)
(***************************************************************************)

LEMMA RecNumbers ==
  /\ MaxDay \in Nat /\ MaxStarts \in Nat /\ MaxErrs \in Nat
  /\ Retention \in Nat /\ Retention > 0 /\ Horizon \in Nat
  /\ Len(Tape) \in Nat /\ Row = 1..Len(Tape) /\ Columns # {}
<1>1. Tape \in Seq(Nat)
  BY RecorderAssumption
<1>2. Len(Tape) \in Nat /\ DOMAIN Tape = 1..Len(Tape)
  BY <1>1
<1> QED
  BY <1>2, RecorderAssumption DEF Row

\* The types of Recorder in parts.
Doings == {"idle", "flush", "write", "compact", "remove", "purge"}
RecWords ==
  /\ proc \in {"off", "down", "up", "stopping"} /\ header \in Columns
  /\ day \in 0..MaxDay /\ current \in 0..MaxDay /\ rolled \in 0..MaxDay
  /\ starts \in 0..MaxStarts /\ errs \in 0..MaxErrs
DaysType == days \in Seq(Calendar) /\ Len(days) <= Len(Tape)
HandType == hand \in [Writers -> [at : Doings, rows : SUBSET Row, day : Calendar]]
FileType ==
  /\ csv \in [Calendar -> [columns : Columns \cup {"none"}, rows : SUBSET Row, open : BOOLEAN]]
  /\ parquet \in [Calendar -> SUBSET Row] /\ aside \in [Calendar -> SUBSET Row]
FateType == lost \subseteq Row /\ torn \subseteq Row /\ late \subseteq Calendar \X Row /\ cut \subseteq Calendar

\* The rows of the files of a day; the rows in the memory of the process.
FilesOf(d) == csv[d].rows \cup parquet[d] \cup aside[d]
Loop == hand["loop"].rows
Thread == hand["thread"].rows
Memory == buf \cup Loop \cup Thread
LateDays == {x[1] : x \in late}

\* Days go forward, for the rows as for the process; the day that is rolled up
\* is over.
RecClock ==
  /\ rolled <= current /\ current <= day
  /\ hand["thread"].at # "idle" => rolled < current
  /\ \A i \in DOMAIN days : days[i] <= day
  /\ \A i, j \in DOMAIN days : i <= j => days[i] <= days[j]

\* Rows are in hand while they are written; while the loop writes, nothing is
\* recorded; a process that is down holds nothing.
RecHands ==
  /\ \A w \in Writers : hand[w].at # "write" <=> hand[w].rows = {}
  /\ hand["loop"].at \in {"idle", "flush", "write"}
  /\ ~RunsOn => buf = {} /\ \A w \in Writers : hand[w].at = "idle"
  /\ proc = "stopping" /\ hand["loop"].at # "flush" => buf = {}
  /\ hand["loop"].at = "write" => buf = {}

\* What is in hand or on the disk was recorded, on the day of its file or before.
RowsKnown ==
  /\ buf \subseteq DOMAIN days
  /\ \A w \in Writers : \A r \in hand[w].rows : r \in DOMAIN days /\ days[r] <= hand[w].day
  /\ \A d \in Calendar : \A r \in FilesOf(d) : r \in DOMAIN days /\ days[r] <= d

\* What the loop still holds is younger than what was written and than what the
\* thread writes.
YoungerInHand ==
  /\ \A x \in buf \cup Loop, y \in OnDisk \cup Thread : y < x
  /\ Thread \cap OnDisk = {}

\* A day is rolled up once, and its CSV goes only when its rows are rolled up or
\* came too late.
RollingUp ==
  /\ \A d \in Calendar : parquet[d] # {} => d < current
  /\ hand["thread"].at \in {"flush", "write", "compact"} => parquet[rolled] = {}
  /\ hand["thread"].at = "remove" => \A r \in csv[rolled].rows : r \in parquet[rolled] \/ <<rolled, r>> \in late

\* A row is in the files of one day, and in one of them.
OneFile ==
  /\ \A d, e \in Calendar : d # e => FilesOf(d) \cap FilesOf(e) = {}
  /\ \A d \in Calendar : d \notin cut \cup LateDays =>
       /\ csv[d].rows \cap aside[d] = {} /\ parquet[d] \cap aside[d] = {}
       /\ ~(rolled = d /\ hand["thread"].at = "remove") => csv[d].rows \cap parquet[d] = {}

Traced == Memory \cup OnDisk \cup lost \cup TooLate
AllTraced == \A r \in DOMAIN days : r \in Traced \/ days[r] + Retention <= day

RecTypes == RecWords /\ DaysType /\ HandType /\ FileType /\ FateType
RecInv == RecTypes /\ RecClock /\ RecHands /\ RowsKnown /\ YoungerInHand /\ RollingUp /\ OneFile /\ AllTraced

----------------------------------------------------------------------------
LEMMA DiskIs == \A x : x \in OnDisk <=> \E d \in Calendar : x \in FilesOf(d)
  BY DEF OnDisk, FilesOf

LEMMA DiskNext == \A x : x \in OnDisk' <=> \E d \in Calendar : x \in FilesOf(d)'
  BY DEF OnDisk, FilesOf, Calendar

\* A writer turns to something else.
LEMMA DoParts ==
  ASSUME HandType, NEW w \in Writers, NEW at \in Doings, Do(w, at)
  PROVE  /\ HandType' /\ hand'[w].at = at /\ hand'[w].rows = hand[w].rows /\ hand'[w].day = hand[w].day
         /\ \A v \in Writers : v # w => hand'[v] = hand[v]
  BY DEF HandType, Do, Calendar, Row

\* A writer holds something else.
LEMMA HoldParts ==
  ASSUME HandType, NEW w \in Writers,
         NEW h \in [at : Doings, rows : SUBSET Row, day : Calendar], hand' = [hand EXCEPT ![w] = h]
  PROVE  /\ HandType' /\ hand'[w] = h
         /\ \A v \in Writers : v # w => hand'[v] = hand[v]
  BY DEF HandType, Calendar, Row

LEMMA HandParts ==
  ASSUME HandType, NEW w \in Writers
  PROVE  hand[w].at \in Doings /\ hand[w].rows \in SUBSET Row /\ hand[w].day \in Calendar
  BY DEF HandType

LEMMA DaysParts ==
  ASSUME DaysType
  PROVE  /\ Len(days) \in Nat /\ DOMAIN days = 1..Len(days) /\ DOMAIN days \subseteq Row
         /\ \A i \in DOMAIN days : days[i] \in Calendar
  BY RecNumbers DEF DaysType

\* The parts of the invariant that speak of the files, when they stay.
LEMMA SameFiles ==
  ASSUME UNCHANGED priceFiles
  PROVE  OnDisk' = OnDisk /\ \A d \in Calendar : FilesOf(d)' = FilesOf(d)
  BY DEF priceFiles, OnDisk, FilesOf, Calendar

LEMMA RecFirst == Init => RecInv
<1> SUFFICES ASSUME Init PROVE RecInv
  OBVIOUS
<1> USE RecNumbers
<1>1. PICK part \in Parts : RecorderInit(part = "recorder")
  BY DEF Init
<1>2. /\ proc \in {"up", "off"} /\ header \in Columns
      /\ day = 0 /\ current = 0 /\ rolled = 0 /\ days = <<>> /\ buf = {}
      /\ hand = [w \in Writers |-> Resting]
      /\ csv = [d \in Calendar |-> NoCsv]
      /\ parquet = [d \in Calendar |-> {}] /\ aside = [d \in Calendar |-> {}]
      /\ lost = {} /\ torn = {} /\ late = {} /\ cut = {}
      /\ starts = 0 /\ errs = 0
  BY <1>1 DEF RecorderInit
<1>3. DOMAIN days = {} /\ days \in Seq(Calendar) /\ Len(days) = 0
  BY <1>2
<1>4. \A w \in Writers : hand[w] = Resting
  BY <1>2
<1>5. \A d \in Calendar : csv[d] = NoCsv /\ parquet[d] = {} /\ aside[d] = {} /\ FilesOf(d) = {}
  BY <1>2 DEF FilesOf, NoCsv
<1>6. "loop" \in Writers /\ "thread" \in Writers
  BY DEF Writers
<1>7. RecTypes
  <2>1. Resting \in [at : Doings, rows : SUBSET Row, day : Calendar]
    BY DEF Resting, Doings, Calendar
  <2>2. NoCsv \in [columns : Columns \cup {"none"}, rows : SUBSET Row, open : BOOLEAN]
    BY DEF NoCsv
  <2>3. HandType
    BY <1>2, <2>1 DEF HandType
  <2>4. FileType
    BY <1>2, <2>2 DEF FileType
  <2> QED
    BY <1>2, <1>3, <2>3, <2>4 DEF RecTypes, RecWords, DaysType, FateType
<1>8. RecClock /\ RecHands /\ RowsKnown
  BY <1>2, <1>3, <1>4, <1>5, <1>6 DEF RecClock, RecHands, RowsKnown, Resting
<1>9. OnDisk = {} /\ Loop = {} /\ Thread = {}
  BY <1>4, <1>5, <1>6, DiskIs DEF Loop, Thread, Resting
<1>10. YoungerInHand /\ RollingUp /\ OneFile /\ AllTraced
  BY <1>2, <1>3, <1>4, <1>5, <1>6, <1>9 DEF YoungerInHand, RollingUp, OneFile, AllTraced, NoCsv, Resting
<1> QED
  BY <1>7, <1>8, <1>10 DEF RecInv

LEMMA TwoWriters == Writers = {"loop", "thread"} /\ "loop" \in Writers /\ "thread" \in Writers /\ "loop" # "thread"
  BY DEF Writers

\* A price is recorded.
LEMMA RecordKeeps == RecInv /\ Record => RecInv'
<1> SUFFICES ASSUME RecInv, Record PROVE RecInv'
  OBVIOUS
<1> DEFINE n == Len(days) + 1
<1>0. RecTypes /\ RecClock /\ RecHands /\ RowsKnown /\ YoungerInHand /\ RollingUp /\ OneFile /\ AllTraced
  BY DEF RecInv
<1>1. /\ proc = "up" /\ hand["loop"].at = "idle" /\ Len(days) < Len(Tape)
      /\ days' = Append(days, day) /\ buf' = buf \cup {n}
      /\ UNCHANGED <<proc, header, day, current, rolled, priceFiles, fateVars, starts, errs>>
  BY DEF Record
<1>2. PICK at \in {"idle", "flush"} : Do("loop", at)
  BY DEF Record
<1>3. at \in Doings
  BY DEF Doings
<1>4. /\ HandType' /\ hand'["loop"].at = at /\ hand'["loop"].rows = hand["loop"].rows
      /\ hand'["loop"].day = hand["loop"].day /\ hand'["thread"] = hand["thread"]
  BY <1>0, <1>2, <1>3, DoParts, TwoWriters DEF RecTypes
<1>5. /\ Len(days) \in Nat /\ DOMAIN days = 1..Len(days) /\ \A i \in DOMAIN days : days[i] \in Calendar
      /\ days \in Seq(Calendar) /\ day \in Calendar /\ Len(Tape) \in Nat
  BY <1>0, DaysParts, RecNumbers DEF RecTypes, DaysType, RecWords, Calendar
<1>6. /\ days' \in Seq(Calendar) /\ Len(days') = n /\ DOMAIN days' = 1..n
      /\ days'[n] = day /\ \A i \in DOMAIN days : days'[i] = days[i]
  BY <1>1, <1>5
<1>7. n \in DOMAIN days' /\ DOMAIN days \subseteq DOMAIN days' /\ \A i \in DOMAIN days' : i \in DOMAIN days \/ i = n
  BY <1>5, <1>6
<1>8. \A i \in DOMAIN days : i < n /\ i \in Int
  BY <1>5
<1>9. RecTypes'
  BY <1>0, <1>1, <1>4, <1>5, <1>6 DEF RecTypes, RecWords, DaysType, FileType, FateType, priceFiles, fateVars
<1>10. OnDisk' = OnDisk /\ \A d \in Calendar : FilesOf(d)' = FilesOf(d)
  BY <1>1, SameFiles
<1>11. RecClock'
  <2>1. \A i \in DOMAIN days' : days'[i] <= day
    <3>1. day <= day
      BY <1>5, RecNumbers DEF Calendar
    <3> QED
      BY <3>1, <1>0, <1>6, <1>7 DEF RecClock
  <2>2. \A i, j \in DOMAIN days' : i <= j => days'[i] <= days'[j]
    <3> SUFFICES ASSUME NEW i \in DOMAIN days', NEW j \in DOMAIN days', i <= j PROVE days'[i] <= days'[j]
      OBVIOUS
    <3>1. CASE j = n
      BY <3>1, <1>6, <2>1
    <3>2. CASE j # n
      BY <3>2, <1>0, <1>5, <1>6, <1>7 DEF RecClock
    <3> QED
      BY <3>1, <3>2
  <2> QED
    BY <1>0, <1>1, <1>4, <2>1, <2>2 DEF RecClock
<1>12. Loop = {} /\ Loop' = {} /\ Thread' = Thread
  BY <1>0, <1>1, <1>4, TwoWriters DEF RecHands, Loop, Thread
<1>13. RecHands'
  <2>1. hand["loop"].rows = {}
    BY <1>12 DEF Loop
  <2>2. \A w \in Writers : hand'[w].at # "write" <=> hand'[w].rows = {}
    BY <1>0, <1>2, <1>4, <2>1, TwoWriters DEF RecHands
  <2> QED
    BY <1>0, <1>1, <1>2, <1>4, <2>2, TwoWriters DEF RecHands, RunsOn
<1>14. RowsKnown'
  <2>1. \A w \in Writers : hand'[w].rows = hand[w].rows /\ hand'[w].day = hand[w].day
    BY <1>4, TwoWriters
  <2>2. buf' \subseteq DOMAIN days'
    BY <1>0, <1>1, <1>7 DEF RowsKnown
  <2>3. \A w \in Writers : \A r \in hand'[w].rows : r \in DOMAIN days' /\ days'[r] <= hand'[w].day
    BY <1>0, <1>6, <1>7, <2>1 DEF RowsKnown
  <2>4. \A d \in Calendar : \A r \in FilesOf(d)' : r \in DOMAIN days' /\ days'[r] <= d
    BY <1>0, <1>6, <1>7, <1>10 DEF RowsKnown
  <2> QED
    BY <2>2, <2>3, <2>4 DEF RowsKnown, Calendar
<1>15. YoungerInHand'
  <2>1. \A y \in OnDisk \cup Thread : y \in DOMAIN days
    BY <1>0, DiskIs, TwoWriters DEF RowsKnown, Thread
  <2>2. \A x \in buf', y \in OnDisk \cup Thread : y < x
    BY <1>0, <1>1, <1>8, <2>1 DEF YoungerInHand
  <2> QED
    BY <1>0, <1>10, <1>12, <2>2 DEF YoungerInHand
<1>16. RollingUp' /\ OneFile'
  BY <1>0, <1>1, <1>4, <1>10, TwoWriters DEF RollingUp, OneFile, priceFiles, fateVars, LateDays, Calendar
<1>17. AllTraced'
  <2>1. Traced \subseteq Traced' /\ n \in Traced'
    BY <1>1, <1>10, <1>12 DEF Traced, Memory, TooLate, fateVars
  <2> QED
    BY <1>0, <1>1, <1>6, <1>7, <2>1 DEF AllTraced
<1> QED
  BY <1>9, <1>11, <1>13, <1>14, <1>15, <1>16, <1>17 DEF RecInv

\* A step that leaves the files alone: rows may pass from the buffer to a
\* writer, or be lost.
LEMMA NoFileTouched ==
  ASSUME RecInv, UNCHANGED <<days, priceFiles, late>>, RecTypes', RecClock', RecHands',
         day <= day', lost \subseteq lost', cut \subseteq cut',
         buf' \subseteq buf, Memory \subseteq Memory' \cup lost',
         \A w \in Writers : \A r \in hand'[w].rows : r \in DOMAIN days /\ days[r] <= hand'[w].day,
         buf' \cup Loop' \subseteq buf \cup Loop,
         Thread' \subseteq Thread \/ (Thread' \subseteq buf /\ buf' \cup Loop' = {}),
         RollingUp',
         hand["thread"].at = "remove" => (hand'["thread"].at = "remove" /\ rolled' = rolled) \/ rolled \in cut'
  PROVE  RecInv'
<1>0. RecTypes /\ RecClock /\ RecHands /\ RowsKnown /\ YoungerInHand /\ RollingUp /\ OneFile /\ AllTraced
  BY DEF RecInv
<1>1. days' = days /\ late' = late /\ csv' = csv /\ parquet' = parquet /\ aside' = aside
  BY DEF priceFiles
<1>2. OnDisk' = OnDisk /\ \A d \in Calendar : FilesOf(d)' = FilesOf(d)
  BY SameFiles
<1>3. RowsKnown'
  BY <1>0, <1>1, <1>2 DEF RowsKnown, Calendar
<1>4. YoungerInHand'
  <2>1. CASE Thread' \subseteq Thread
    BY <2>1, <1>0, <1>2 DEF YoungerInHand
  <2>2. CASE Thread' \subseteq buf /\ buf' \cup Loop' = {}
    <3>1. \A x \in buf \cap OnDisk : x < x
      BY <1>0 DEF YoungerInHand
    <3>2. \A x \in buf : x \in Int
      BY <1>0, DaysParts DEF RowsKnown, RecTypes, DaysType
    <3>3. buf \cap OnDisk = {}
      BY <3>1, <3>2
    <3> QED
      BY <2>2, <3>3, <1>0, <1>2 DEF YoungerInHand
  <2> QED
    BY <2>1, <2>2
<1>5. OneFile'
  BY <1>0, <1>1, <1>2 DEF OneFile, LateDays, Calendar
<1>6. AllTraced'
  <2>1. Traced \subseteq Traced'
    BY <1>1, <1>2 DEF Traced, TooLate
  <2>2. /\ day \in Int /\ day' \in Int /\ Retention \in Int /\ \A r \in DOMAIN days : days[r] \in Int
    BY <1>0, DaysParts, RecNumbers DEF RecTypes, RecWords, Calendar
  <2> QED
    BY <1>0, <1>1, <2>1, <2>2 DEF AllTraced
<1> QED
  BY <1>3, <1>4, <1>5, <1>6 DEF RecInv

\* A writer takes what is in the buffer.
LEMMA TakeKeeps == ASSUME NEW w \in Writers PROVE RecInv /\ Take(w) => RecInv'
<1> SUFFICES ASSUME RecInv, Take(w) PROVE RecInv'
  OBVIOUS
<1> DEFINE h == IF buf = {} THEN [hand[w] EXCEPT !.at = AfterFlush(w)] ELSE [at |-> "write", rows |-> buf, day |-> day]
<1>0. RecTypes /\ RecClock /\ RecHands /\ RowsKnown /\ YoungerInHand /\ RollingUp /\ OneFile /\ AllTraced
  BY DEF RecInv
<1>1. /\ hand[w].at = "flush" /\ buf' = {} /\ hand' = [hand EXCEPT ![w] = h]
      /\ UNCHANGED <<proc, header, day, current, rolled, days, priceFiles, lost, torn, late, cut, starts, errs>>
  BY DEF Take, Rest, fateVars
<1>2. hand[w] \in [at : Doings, rows : SUBSET Row, day : Calendar] /\ hand[w].rows = {}
  BY <1>0, <1>1 DEF RecTypes, HandType, RecHands
<1>3. buf \subseteq Row /\ day \in Calendar
  BY <1>0, DaysParts DEF RecTypes, RecWords, RowsKnown, Calendar
<1>4. /\ h \in [at : Doings, rows : SUBSET Row, day : Calendar] /\ h.rows = buf
      /\ (buf # {} => h.at = "write" /\ h.day = day) /\ (buf = {} => h.at = AfterFlush(w))
  <2>1. AfterFlush(w) \in Doings
    BY DEF AfterFlush, Doings
  <2>2. CASE buf = {}
    BY <2>1, <2>2, <1>2
  <2>3. CASE buf # {}
    BY <2>3, <1>3 DEF Doings
  <2> QED
    BY <2>2, <2>3
<1> HIDE DEF h
<1>5. HandType' /\ hand'[w] = h /\ \A v \in Writers : v # w => hand'[v] = hand[v]
  BY <1>0, <1>1, <1>4, HoldParts DEF RecTypes
<1>6. RecTypes'
  BY <1>0, <1>1, <1>5 DEF RecTypes, RecWords, DaysType, FileType, FateType, priceFiles
<1>7. RecClock'
  BY <1>0, <1>1, <1>5, TwoWriters DEF RecClock
<1>8. RecHands'
  <2>1. w = "loop" => h.at \in {"idle", "write"}
    BY <1>4 DEF AfterFlush
  <2>2. AfterFlush(w) # "write" /\ RunsOn
    BY <1>0, <1>1 DEF AfterFlush, RecHands
  <2>3. \A v \in Writers : hand'[v].at # "write" <=> hand'[v].rows = {}
    <3> SUFFICES ASSUME NEW v \in Writers PROVE hand'[v].at # "write" <=> hand'[v].rows = {}
      OBVIOUS
    <3>1. CASE v = w
      BY <3>1, <1>4, <1>5, <2>2
    <3>2. CASE v # w
      BY <3>2, <1>0, <1>5 DEF RecHands
    <3> QED
      BY <3>1, <3>2
  <2>4. hand'["loop"].at \in {"idle", "flush", "write"}
    BY <1>0, <1>5, <2>1, TwoWriters DEF RecHands
  <2>5. RunsOn' /\ buf' = {}
    BY <1>1, <2>2 DEF RunsOn
  <2> QED
    BY <2>3, <2>4, <2>5 DEF RecHands
<1>9. hand["loop"].at = "write" => buf = {}
  BY <1>0 DEF RecHands
<1>10. \A v \in Writers : \A r \in hand'[v].rows : r \in DOMAIN days /\ days[r] <= hand'[v].day
  <2> SUFFICES ASSUME NEW v \in Writers, NEW r \in hand'[v].rows PROVE r \in DOMAIN days /\ days[r] <= hand'[v].day
    OBVIOUS
  <2>1. CASE v = w
    BY <2>1, <1>0, <1>4, <1>5 DEF RowsKnown, RecClock
  <2>2. CASE v # w
    BY <2>2, <1>0, <1>5 DEF RowsKnown
  <2> QED
    BY <2>1, <2>2
<1>11. /\ w = "loop" => Loop' = buf /\ Thread' = Thread /\ Loop = {}
       /\ w = "thread" => Thread' = buf /\ Loop' = Loop /\ Thread = {}
  BY <1>2, <1>4, <1>5, TwoWriters DEF Loop, Thread
<1>12. w = "loop" \/ w = "thread"
  BY TwoWriters
<1>13. Memory \subseteq Memory' /\ buf' \cup Loop' \subseteq buf \cup Loop
  BY <1>1, <1>11, <1>12 DEF Memory
<1>14. Thread' \subseteq Thread \/ (Thread' \subseteq buf /\ buf' \cup Loop' = {})
  <2>1. CASE w = "loop"
    BY <2>1, <1>11
  <2>2. CASE w = "thread" /\ buf = {}
    BY <2>2, <1>11
  <2>3. CASE w = "thread" /\ buf # {}
    <3>1. Loop = {}
      BY <2>3, <1>0, <1>9, TwoWriters DEF Loop, RecHands
    <3> QED
      BY <3>1, <2>3, <1>1, <1>11
  <2> QED
    BY <2>1, <2>2, <2>3, <1>12
<1>15. hand'["thread"].at = "remove" => hand["thread"].at = "remove"
  BY <1>4, <1>5, TwoWriters DEF AfterFlush
<1>16. hand["thread"].at = "remove" => hand'["thread"].at = "remove"
  BY <1>1, <1>5, TwoWriters
<1>17. RollingUp'
  <2>1. hand'["thread"].at \in {"flush", "write", "compact"} => hand["thread"].at \in {"flush", "write", "compact"}
    BY <1>1, <1>5, TwoWriters
  <2> QED
    BY <1>0, <1>1, <1>15, <2>1 DEF RollingUp, priceFiles, Calendar
<1>18. day <= day' /\ buf' \subseteq buf
  BY <1>0, <1>1, RecNumbers DEF RecTypes, RecWords
<1> QED
  BY <1>1, <1>6, <1>7, <1>8, <1>10, <1>13, <1>14, <1>16, <1>17, <1>18, NoFileTouched

\* The thread begins, fails, gives up; the process starts, stops, leaves; the
\* day turns.
LEMMA TurnsKeep == RecInv /\ (Maintain \/ CompactFails \/ RemoveFails \/ Starts \/ LastFlush \/ Leave \/ DayTurns) => RecInv'
<1> SUFFICES ASSUME RecInv, Maintain \/ CompactFails \/ RemoveFails \/ Starts \/ LastFlush \/ Leave \/ DayTurns PROVE RecInv'
  OBVIOUS
<1>0. RecTypes /\ RecClock /\ RecHands /\ RowsKnown /\ YoungerInHand /\ RollingUp /\ OneFile /\ AllTraced
  BY DEF RecInv
<1>1. UNCHANGED <<days, priceFiles, late, buf, lost>>
  BY DEF Maintain, CompactFails, RemoveFails, Starts, LastFlush, Leave, DayTurns, fateVars
<1>2. /\ day \in Int /\ current \in Int /\ rolled \in Int /\ \A r \in DOMAIN days : days[r] \in Int
      /\ starts \in Int /\ errs \in Int /\ MaxDay \in Nat /\ MaxStarts \in Nat /\ MaxErrs \in Nat
  BY <1>0, DaysParts, RecNumbers DEF RecTypes, RecWords, Calendar
<1>3. {"idle", "flush", "purge", "compact", "remove"} \subseteq Doings
  BY DEF Doings
\* Who does what.
<1>4. /\ HandType' /\ \A w \in Writers : hand'[w].rows = hand[w].rows /\ hand'[w].day = hand[w].day
      /\ (hand' # hand => RunsOn)
  <2>1. CASE Maintain
    BY <2>1, <1>0, <1>3, DoParts, TwoWriters DEF Maintain, RecTypes, RunsOn
  <2>2. CASE CompactFails \/ RemoveFails
    BY <2>2, <1>0, <1>3, DoParts, TwoWriters DEF CompactFails, RemoveFails, RecTypes, RunsOn
  <2>3. CASE LastFlush
    BY <2>3, <1>0, <1>3, DoParts, TwoWriters DEF LastFlush, RecTypes, RunsOn
  <2>4. CASE Starts \/ Leave \/ DayTurns
    BY <2>4, <1>0 DEF Starts, Leave, DayTurns, RecTypes, HandType
  <2> QED
    BY <2>1, <2>2, <2>3, <2>4
<1>5. RecWords'
  BY <1>0, <1>2 DEF RecTypes, RecWords, Maintain, CompactFails, RemoveFails, Starts, LastFlush, Leave, DayTurns, Fail, RecClock
<1>6. DaysType' /\ FileType' /\ FateType'
  <2>1. rolled \in Calendar
    BY <1>0 DEF RecTypes, RecWords, Calendar
  <2>2. torn' = torn /\ cut' \in {cut, cut \cup {rolled}}
    BY DEF Maintain, CompactFails, RemoveFails, Starts, LastFlush, Leave, DayTurns, fateVars
  <2> QED
    BY <1>0, <1>1, <2>1, <2>2 DEF RecTypes, DaysType, FileType, FateType, priceFiles
<1>7. day <= day' /\ cut \subseteq cut'
  BY <1>2 DEF Maintain, CompactFails, RemoveFails, Starts, LastFlush, Leave, DayTurns, fateVars
<1>7a. LastFlush => /\ hand["loop"].at = "idle" /\ hand'["loop"].at = "flush"
                    /\ hand'["thread"].at = hand["thread"].at
  BY <1>0, <1>3, DoParts, TwoWriters DEF LastFlush, RecTypes
<1>8. hand'["loop"].at = hand["loop"].at \/ (LastFlush /\ hand["loop"].at = "idle" /\ hand'["loop"].at = "flush")
  <2>1. CASE LastFlush
    BY <2>1, <1>7a
  <2>2. CASE Maintain
    BY <2>2, <1>0, <1>3, DoParts, TwoWriters DEF Maintain, RecTypes
  <2>3. CASE CompactFails \/ RemoveFails
    BY <2>3, <1>0, <1>3, DoParts, TwoWriters DEF CompactFails, RemoveFails, RecTypes
  <2>4. CASE Starts \/ Leave \/ DayTurns
    BY <2>4 DEF Starts, Leave, DayTurns
  <2> QED
    BY <2>1, <2>2, <2>3, <2>4
<1>8a. Maintain => hand["thread"].at = "idle" /\ hand'["thread"].at = "flush"
  BY <1>0, <1>3, DoParts, TwoWriters DEF Maintain, RecTypes
<1>9. \/ Maintain /\ hand["thread"].at = "idle" /\ hand'["thread"].at = "flush"
      \/ CompactFails /\ hand["thread"].at = "compact" /\ hand'["thread"].at = "purge"
      \/ RemoveFails /\ hand["thread"].at = "remove" /\ hand'["thread"].at = "purge"
      \/ (Starts \/ LastFlush \/ Leave \/ DayTurns) /\ hand'["thread"].at = hand["thread"].at
  <2>1. CASE Maintain
    BY <2>1, <1>8a
  <2>2. CASE CompactFails
    BY <2>2, <1>0, <1>3, DoParts, TwoWriters DEF CompactFails, RecTypes
  <2>3. CASE RemoveFails
    BY <2>3, <1>0, <1>3, DoParts, TwoWriters DEF RemoveFails, RecTypes
  <2>4. CASE LastFlush
    BY <2>4, <1>7a
  <2>5. CASE Starts \/ Leave \/ DayTurns
    BY <2>5 DEF Starts, Leave, DayTurns
  <2> QED
    BY <2>1, <2>2, <2>3, <2>4, <2>5
<1>10. /\ rolled' = rolled \/ (Maintain /\ rolled' = current /\ current' = day /\ day # current /\ day' = day)
       /\ current' = current \/ (current' = day /\ day' = day)
  BY DEF Maintain, CompactFails, RemoveFails, Starts, LastFlush, Leave, DayTurns
<1>11. RecClock'
  <2>1. rolled' <= current' /\ current' <= day' /\ \A i \in DOMAIN days : days[i] <= day'
    BY <1>0, <1>2, <1>5, <1>7, <1>10 DEF RecClock, RecWords
  <2>2. current <= current'
    BY <1>0, <1>2, <1>10 DEF RecClock
  <2>3. hand'["thread"].at # "idle" => rolled' < current'
    <3>1. CASE rolled' = rolled /\ hand["thread"].at # "idle"
      BY <3>1, <2>2, <1>0, <1>2, <1>5 DEF RecClock, RecWords
    <3>2. CASE Maintain
      BY <3>2, <1>0, <1>2 DEF RecClock, Maintain
    <3> QED
      BY <3>1, <3>2, <1>9, <1>10
  <2> QED
    BY <1>0, <1>1, <2>1, <2>3 DEF RecClock
<1>12. RecHands'
  <2>1. \A w \in Writers : hand'[w].at # "write" <=> hand'[w].rows = {}
    <3>1. \A w \in Writers : hand'[w].at = "write" <=> hand[w].at = "write"
      BY <1>8, <1>9, TwoWriters
    <3> QED
      BY <1>0, <1>4, <3>1 DEF RecHands
  <2>2. hand'["loop"].at \in {"idle", "flush", "write"} /\ (hand'["loop"].at = "write" => buf' = {})
    BY <1>0, <1>1, <1>8 DEF RecHands
  <2>3. ~RunsOn' => buf' = {} /\ \A w \in Writers : hand'[w].at = "idle"
    <3>1. CASE Leave
      <4>1. buf = {}
        BY <3>1, <1>0, TwoWriters DEF Leave, RecHands
      <4> QED
        BY <3>1, <4>1, <1>1 DEF Leave
    <3>2. CASE Maintain \/ CompactFails \/ RemoveFails \/ Starts \/ LastFlush
      BY <3>2 DEF Maintain, CompactFails, RemoveFails, Starts, LastFlush, RunsOn
    <3>3. CASE DayTurns
      BY <3>3, <1>0 DEF DayTurns, RunsOn, RecHands
    <3> QED
      BY <3>1, <3>2, <3>3
  <2>4. proc' = "stopping" /\ hand'["loop"].at # "flush" => buf' = {}
    <3>1. CASE LastFlush
      BY <3>1, <1>3, <1>0, DoParts, TwoWriters DEF LastFlush, RecTypes
    <3>2. CASE ~LastFlush
      BY <3>2, <1>0, <1>1, <1>8 DEF RecHands, Maintain, CompactFails, RemoveFails, Starts, Leave, DayTurns
    <3> QED
      BY <3>1, <3>2
  <2> QED
    BY <2>1, <2>2, <2>3, <2>4 DEF RecHands
<1>13. RollingUp'
  <2>1. \A d \in Calendar : parquet[d] # {} => d < current'
    BY <1>0, <1>2, <1>10 DEF RollingUp, RecClock, Calendar
  <2>2. hand'["thread"].at \in {"flush", "write", "compact"} => parquet[rolled'] = {}
    <3>1. current \in Calendar /\ ~(current < current)
      BY <1>0, <1>2 DEF RecTypes, RecWords, Calendar
    <3>2. Maintain => rolled' = current
      BY DEF Maintain
    <3> QED
      BY <1>0, <1>9, <1>10, <3>1, <3>2 DEF RollingUp
  <2>3. hand'["thread"].at = "remove" => hand["thread"].at = "remove" /\ rolled' = rolled
    BY <1>8a, <1>9, <1>10
  <2> QED
    BY <1>0, <1>1, <2>1, <2>2, <2>3 DEF RollingUp, priceFiles, Calendar
<1>14. hand["thread"].at = "remove" => (hand'["thread"].at = "remove" /\ rolled' = rolled) \/ rolled \in cut'
  <2>1. RemoveFails => rolled \in cut'
    BY DEF RemoveFails
  <2> QED
    BY <2>1, <1>8a, <1>9, <1>10
<1>15. /\ Loop' = Loop /\ Thread' = Thread /\ Memory' = Memory
       /\ \A w \in Writers : \A r \in hand'[w].rows : r \in DOMAIN days /\ days[r] <= hand'[w].day
  BY <1>0, <1>1, <1>4, TwoWriters DEF Loop, Thread, Memory, RowsKnown
<1>16. RecTypes'
  BY <1>4, <1>5, <1>6 DEF RecTypes
<1> QED
  BY <1>1, <1>7, <1>11, <1>12, <1>13, <1>14, <1>15, <1>16, NoFileTouched

\* A write that fails, a kill between two steps: what was in hand is lost.
LEMMA FailKeeps == ASSUME NEW w \in Writers PROVE RecInv /\ WriteFails(w) => RecInv'
<1> SUFFICES ASSUME RecInv, WriteFails(w) PROVE RecInv'
  OBVIOUS
<1> DEFINE h == [Resting EXCEPT !.at = AfterFlush(w)]
<1>0. RecTypes /\ RecClock /\ RecHands /\ RowsKnown /\ YoungerInHand /\ RollingUp /\ OneFile /\ AllTraced
  BY DEF RecInv
<1>1. /\ RunsOn /\ hand[w].at = "write" /\ hand' = [hand EXCEPT ![w] = h] /\ lost' = lost \cup hand[w].rows
      /\ errs < MaxErrs /\ errs' = errs + 1
      /\ UNCHANGED <<proc, header, day, current, rolled, days, buf, priceFiles, torn, late, cut, starts>>
  BY DEF WriteFails, Fail
<1>2. hand[w].rows \in SUBSET Row
  BY <1>0, HandParts DEF RecTypes
<1>3. h \in [at : Doings, rows : SUBSET Row, day : Calendar] /\ h.rows = {} /\ h.at = AfterFlush(w)
  BY RecNumbers DEF Resting, AfterFlush, Doings, Calendar
<1> HIDE DEF h
<1>4. HandType' /\ hand'[w] = h /\ \A v \in Writers : v # w => hand'[v] = hand[v]
  BY <1>0, <1>1, <1>3, HoldParts DEF RecTypes
<1>5. RecTypes'
  <2>1. RecWords'
    BY <1>0, <1>1, RecNumbers DEF RecTypes, RecWords
  <2> QED
    BY <2>1, <1>0, <1>1, <1>2, <1>4 DEF RecTypes, DaysType, FileType, FateType, priceFiles
<1>6. RecClock'
  BY <1>0, <1>1, <1>4, TwoWriters DEF RecClock
<1>7. RecHands'
  <2>1. AfterFlush(w) # "write" /\ RunsOn' /\ (w = "loop" => AfterFlush(w) = "idle")
    BY <1>1 DEF AfterFlush, RunsOn
  <2>2. \A v \in Writers : hand'[v].at # "write" <=> hand'[v].rows = {}
    BY <1>0, <1>3, <1>4, <2>1 DEF RecHands
  <2>3. hand'["loop"].at \in {"idle", "flush", "write"} /\ (hand'["loop"].at = "write" => buf' = {})
    BY <1>0, <1>1, <1>3, <1>4, <2>1, TwoWriters DEF RecHands
  <2>4. proc' = "stopping" /\ hand'["loop"].at # "flush" => buf' = {}
    BY <1>0, <1>1, <1>4, TwoWriters DEF RecHands
  <2> QED
    BY <2>1, <2>2, <2>3, <2>4 DEF RecHands
<1>8. \A v \in Writers : \A r \in hand'[v].rows : r \in DOMAIN days /\ days[r] <= hand'[v].day
  BY <1>0, <1>3, <1>4 DEF RowsKnown
<1>9. Loop' \subseteq Loop /\ Thread' \subseteq Thread /\ Memory \subseteq Memory' \cup lost'
  BY <1>1, <1>3, <1>4, TwoWriters DEF Loop, Thread, Memory
<1>10. w = "thread" => hand'["thread"].at = "compact"
  BY <1>3, <1>4, TwoWriters DEF AfterFlush
<1>11. RollingUp' /\ (hand["thread"].at = "remove" => hand'["thread"].at = "remove" /\ rolled' = rolled)
  BY <1>0, <1>1, <1>4, <1>10, TwoWriters DEF RollingUp, priceFiles, Calendar
<1>12. day <= day' /\ buf' \subseteq buf /\ lost \subseteq lost' /\ cut \subseteq cut'
  BY <1>0, <1>1, RecNumbers DEF RecTypes, RecWords
<1> QED
  BY <1>1, <1>5, <1>6, <1>7, <1>8, <1>9, <1>11, <1>12, NoFileTouched

\* A process that dies leaves nothing in hand.
LEMMA DeadParts ==
  ASSUME RecInv, NEW written, Dies(written)
  PROVE  /\ RecWords' /\ HandType' /\ RecClock' /\ RecHands' /\ DaysType'
         /\ buf' = {} /\ Loop' = {} /\ Thread' = {} /\ days' = days /\ day' = day /\ day <= day' /\ current' = current
         /\ rolled' = rolled
         /\ (hand["thread"].at = "remove" => rolled \in cut') /\ cut \subseteq cut' /\ cut' \subseteq Calendar
         /\ lost' = lost \cup (Memory \ written) /\ lost' \subseteq Row
         /\ \A w \in Writers : hand'[w].at = "idle" /\ hand'[w].rows = {}
<1>0. RecTypes /\ RecClock /\ RowsKnown
  BY DEF RecInv
<1>1. /\ proc' = "down" /\ buf' = {} /\ hand' = [w \in Writers |-> Resting]
      /\ lost' = lost \cup ((buf \cup UNION {hand[w].rows : w \in Writers}) \ written)
      /\ cut' = cut \cup (IF hand["thread"].at = "remove" THEN {rolled} ELSE {})
      /\ errs < MaxErrs /\ errs' = errs + 1
      /\ UNCHANGED <<header, day, current, rolled, days, starts>>
  BY DEF Dies, Fail
<1>2. Resting \in [at : Doings, rows : SUBSET Row, day : Calendar] /\ Resting.at = "idle" /\ Resting.rows = {}
  BY RecNumbers DEF Resting, Doings, Calendar
<1>3. \A w \in Writers : hand'[w] = Resting
  BY <1>1
<1>4. HandType' /\ RecHands'
  BY <1>1, <1>2, <1>3, TwoWriters DEF HandType, RecHands
<1>5. RecWords' /\ RecClock' /\ DaysType' /\ day <= day'
  BY <1>0, <1>1, <1>2, <1>3, RecNumbers, TwoWriters DEF RecTypes, RecWords, RecClock, DaysType
<1>6. UNION {hand[w].rows : w \in Writers} = Loop \cup Thread
  BY TwoWriters DEF Loop, Thread
<1>7. Memory \subseteq Row
  <2>1. Loop \subseteq Row /\ Thread \subseteq Row
    BY <1>0, HandParts, TwoWriters DEF RecTypes, Loop, Thread
  <2> QED
    BY <2>1, <1>0, DaysParts DEF RecTypes, RowsKnown, Memory
<1>8. lost' = lost \cup (Memory \ written)
  BY <1>1, <1>6 DEF Memory
<1>9. lost' \subseteq Row /\ cut' \subseteq Calendar
  BY <1>0, <1>1, <1>7, <1>8 DEF RecTypes, RecWords, FateType, Calendar
<1>10. Loop' = {} /\ Thread' = {}
  BY <1>2, <1>3, TwoWriters DEF Loop, Thread
<1>11. \A w \in Writers : hand'[w].at = "idle" /\ hand'[w].rows = {}
  BY <1>2, <1>3
<1> QED
  BY <1>1, <1>4, <1>5, <1>8, <1>9, <1>10, <1>11

LEMMA KilledKeeps == RecInv /\ Killed => RecInv'
<1> SUFFICES ASSUME RecInv, Killed PROVE RecInv'
  OBVIOUS
<1>0. RecTypes /\ RollingUp
  BY DEF RecInv
<1>1. Dies({}) /\ UNCHANGED <<priceFiles, torn, late>>
  BY DEF Killed
<1>2. /\ RecWords' /\ HandType' /\ RecClock' /\ RecHands' /\ DaysType'
      /\ buf' = {} /\ Loop' = {} /\ Thread' = {} /\ days' = days /\ day <= day' /\ current' = current
      /\ (hand["thread"].at = "remove" => rolled \in cut') /\ cut \subseteq cut' /\ cut' \subseteq Calendar
      /\ lost' = lost \cup (Memory \ {}) /\ lost' \subseteq Row
      /\ \A w \in Writers : hand'[w].at = "idle" /\ hand'[w].rows = {}
  BY <1>1, DeadParts
<1>3. RecTypes'
  BY <1>0, <1>1, <1>2 DEF RecTypes, FileType, FateType, priceFiles
<1>4. RollingUp'
  BY <1>0, <1>1, <1>2, TwoWriters DEF RollingUp, priceFiles, Calendar
<1> QED
  BY <1>1, <1>2, <1>3, <1>4, NoFileTouched

\* A set of rows has a first one.
LEMMA FirstRow ==
  ASSUME NEW T \in SUBSET Row, T # {}
  PROVE  Earliest(T) \in T /\ \A x \in T : Earliest(T) <= x
<1>1. T \subseteq Nat
  BY RecNumbers
<1>2. PICK m \in T : \A x \in T : ~(<<x, m>> \in OpToRel(<, Nat))
  BY <1>1, NatLessThanWellFounded, WFMin
<1>3. \A x \in T : ~(x < m)
  BY <1>1, <1>2 DEF OpToRel
<1>4. \A x \in T : m <= x
  BY <1>1, <1>3
<1> QED
  BY <1>4 DEF Earliest

\* What a write leaves: the rows come to the day's files, but for the one that
\* ends up in a torn line.
Written(d, put, sw) ==
  /\ sw \subseteq put
  /\ FileType' /\ parquet' = parquet /\ late' \subseteq Calendar \X Row
  /\ \A e \in Calendar \ {d} : csv'[e] = csv[e] /\ aside'[e] = aside[e] /\ FilesOf(e)' = FilesOf(e)
  /\ FilesOf(d)' = FilesOf(d) \cup (put \ sw)
  /\ \/ csv'[d].rows = csv[d].rows \cup (put \ sw) /\ aside'[d] = aside[d]
     \/ csv'[d].rows = put \ sw /\ aside'[d] = aside[d] \cup csv[d].rows
  /\ OnDisk' = OnDisk \cup (put \ sw)
  /\ late \subseteq late' /\ (d # day => late' = late \cup ({d} \X put))
  /\ put \subseteq Row /\ \A r \in put : r \in DOMAIN days /\ days[r] <= d

LEMMA WriteParts ==
  ASSUME RecInv, NEW w \in Writers, hand[w].at = "write",
         NEW put \in SUBSET hand[w].rows, put # {}, NEW killed \in BOOLEAN,
         WriteRows(w, put, killed), days' = days,
         NEW d \in Calendar, d = hand[w].day, NEW sw, sw = Swallowed(csv[d], put)
  PROVE  Written(d, put, sw)
<1>0. RecTypes /\ RowsKnown
  BY DEF RecInv
<1>1. put \subseteq Row /\ \A r \in put : r \in DOMAIN days /\ days[r] <= d
  BY <1>0, HandParts DEF RecTypes, RowsKnown
<1>2. Earliest(put) \in put
  BY <1>1, FirstRow
<1>3. sw \subseteq put
  BY <1>2 DEF Swallowed
<1>4. /\ csv' = [csv EXCEPT ![d] = Appended(csv[d], put, killed)]
      /\ aside' = [aside EXCEPT ![d] = aside[d] \cup SetAside(csv[d])]
      /\ late' = late \cup (IF d = day THEN {} ELSE {d} \X put) /\ parquet' = parquet
  BY DEF WriteRows
<1>5. /\ csv \in [Calendar -> [columns : Columns \cup {"none"}, rows : SUBSET Row, open : BOOLEAN]]
      /\ csv[d].rows \subseteq Row /\ aside \in [Calendar -> SUBSET Row] /\ header \in Columns
  BY <1>0 DEF RecTypes, FileType, RecWords
<1>6. /\ Appended(csv[d], put, killed).rows = (IF Rotates(csv[d]) THEN {} ELSE csv[d].rows) \cup (put \ sw)
      /\ Appended(csv[d], put, killed) \in [columns : Columns \cup {"none"}, rows : SUBSET Row, open : BOOLEAN]
  BY <1>1, <1>5 DEF Appended
<1>7. SetAside(csv[d]) = (IF Rotates(csv[d]) THEN csv[d].rows ELSE {})
  BY DEF SetAside
<1>8. /\ csv'[d] = Appended(csv[d], put, killed) /\ aside'[d] = aside[d] \cup SetAside(csv[d])
      /\ \A e \in Calendar \ {d} : csv'[e] = csv[e] /\ aside'[e] = aside[e]
  BY <1>4, <1>5
<1>9. FileType'
  <2>1. csv' \in [Calendar -> [columns : Columns \cup {"none"}, rows : SUBSET Row, open : BOOLEAN]]
    BY <1>4, <1>5, <1>6
  <2>2. aside' \in [Calendar -> SUBSET Row]
    BY <1>4, <1>5, <1>7
  <2> QED
    BY <2>1, <2>2, <1>0, <1>4 DEF RecTypes, FileType, Calendar
<1>10. /\ \/ csv'[d].rows = csv[d].rows \cup (put \ sw) /\ aside'[d] = aside[d]
          \/ csv'[d].rows = put \ sw /\ aside'[d] = aside[d] \cup csv[d].rows
  <2>1. CASE Rotates(csv[d])
    BY <2>1, <1>6, <1>7, <1>8
  <2>2. CASE ~Rotates(csv[d])
    BY <2>2, <1>6, <1>7, <1>8
  <2> QED
    BY <2>1, <2>2
<1>11. FilesOf(d)' = FilesOf(d) \cup (put \ sw)
  BY <1>4, <1>10 DEF FilesOf
<1>12. \A e \in Calendar \ {d} : FilesOf(e)' = FilesOf(e)
  BY <1>4, <1>8 DEF FilesOf
<1>13. OnDisk' = OnDisk \cup (put \ sw)
  <2>1. \A x : x \in OnDisk' <=> x \in OnDisk \cup (put \ sw)
    BY <1>11, <1>12, DiskIs, DiskNext
  <2> QED
    BY <2>1
<1>14. late \subseteq late' /\ (d # day => late' = late \cup ({d} \X put)) /\ late' \subseteq Calendar \X Row
  BY <1>0, <1>1, <1>4 DEF RecTypes, FateType
<1> QED
  BY <1>1, <1>3, <1>4, <1>8, <1>9, <1>10, <1>11, <1>12, <1>13, <1>14 DEF Written

\* Each row stays in one file after a write.
LEMMA WriteOneFile ==
  ASSUME RecInv, NEW w \in Writers, hand[w].at = "write",
         NEW put \in SUBSET hand[w].rows, put # {}, NEW killed \in BOOLEAN,
         WriteRows(w, put, killed), days' = days, day' = day, current' = current, rolled' = rolled,
         cut \subseteq cut',
         hand["thread"].at = "remove" => hand'["thread"].at = "remove" \/ rolled \in cut',
         hand'["thread"].at = "remove" => hand["thread"].at = "remove" /\ w = "loop",
         hand'["thread"].at \in {"flush", "write", "compact"} => hand["thread"].at \in {"flush", "write", "compact"}
  PROVE  OneFile' /\ RollingUp' /\ \A e \in Calendar : \A r \in FilesOf(e)' : r \in DOMAIN days /\ days[r] <= e
<1>0. RecTypes /\ RecClock /\ RecHands /\ RowsKnown /\ YoungerInHand /\ RollingUp /\ OneFile
  BY DEF RecInv
<1>1. PICK d \in Calendar : d = hand[w].day
  BY <1>0, HandParts DEF RecTypes
<1>2. PICK sw : sw = Swallowed(csv[d], put)
  OBVIOUS
<1>2a. Written(d, put, sw)
  BY <1>1, <1>2, WriteParts, Zenon
<1>3. /\ FileType' /\ parquet' = parquet
      /\ \A e \in Calendar \ {d} : csv'[e] = csv[e] /\ aside'[e] = aside[e] /\ FilesOf(e)' = FilesOf(e)
      /\ FilesOf(d)' = FilesOf(d) \cup (put \ sw)
      /\ \/ csv'[d].rows = csv[d].rows \cup (put \ sw) /\ aside'[d] = aside[d]
         \/ csv'[d].rows = put \ sw /\ aside'[d] = aside[d] \cup csv[d].rows
      /\ late \subseteq late' /\ (d # day => late' = late \cup ({d} \X put))
      /\ put \subseteq Row /\ \A r \in put : r \in DOMAIN days /\ days[r] <= d
  BY <1>2a DEF Written
<1>4. put \cap OnDisk = {}
  <2>1. CASE w = "thread"
    BY <2>1, <1>0 DEF YoungerInHand, Thread
  <2>2. CASE w = "loop"
    <3>1. \A x \in put \cap OnDisk : x < x /\ x \in Int
      BY <2>2, <1>0, <1>3, RecNumbers DEF YoungerInHand, Loop
    <3> QED
      BY <3>1
  <2> QED
    BY <2>1, <2>2, TwoWriters
<1>5. \A e \in Calendar : put \cap FilesOf(e) = {}
  BY <1>4, DiskIs
<1>6. \A e, f \in Calendar : e # f => FilesOf(e)' \cap FilesOf(f)' = {}
  <2> SUFFICES ASSUME NEW e \in Calendar, NEW f \in Calendar, e # f PROVE FilesOf(e)' \cap FilesOf(f)' = {}
    OBVIOUS
  <2>1. FilesOf(e) \cap FilesOf(f) = {}
    BY <1>0 DEF OneFile
  <2>2. CASE e = d
    BY <2>1, <2>2, <1>3, <1>5
  <2>3. CASE f = d
    BY <2>1, <2>3, <1>3, <1>5
  <2>4. CASE e # d /\ f # d
    BY <2>1, <2>4, <1>3
  <2> QED
    BY <2>2, <2>3, <2>4
<1>7. LateDays \subseteq LateDays' /\ (d # day => d \in LateDays')
  <2>1. LateDays \subseteq LateDays'
    BY <1>3 DEF LateDays
  <2>2. ASSUME d # day PROVE d \in LateDays'
    <3>1. PICK r \in put : TRUE
      OBVIOUS
    <3>2. <<d, r>> \in late' /\ <<d, r>>[1] = d
      BY <2>2, <1>3
    <3> QED
      BY <3>2 DEF LateDays
  <2> QED
    BY <2>1, <2>2
<1>8. day \in Calendar /\ parquet[day] = {}
  <2>1. day \in Calendar /\ day \in Int /\ current \in Int
    BY <1>0, RecNumbers DEF RecTypes, RecWords, Calendar
  <2> QED
    BY <2>1, <1>0 DEF RollingUp, RecClock
<1>9. ASSUME NEW e \in Calendar, e \notin cut' \cup LateDays'
      PROVE  /\ csv'[e].rows \cap aside'[e] = {} /\ parquet'[e] \cap aside'[e] = {}
             /\ ~(rolled' = e /\ hand'["thread"].at = "remove") => csv'[e].rows \cap parquet'[e] = {}
  <2>1. /\ csv[e].rows \cap aside[e] = {} /\ parquet[e] \cap aside[e] = {}
        /\ ~(rolled = e /\ hand["thread"].at = "remove") => csv[e].rows \cap parquet[e] = {}
    BY <1>0, <1>7, <1>9 DEF OneFile
  <2>2. CASE e = d
    <3>1. parquet[e] = {}
      BY <2>2, <1>7, <1>8, <1>9
    <3>2. put \cap csv[e].rows = {} /\ put \cap aside[e] = {}
      BY <1>5 DEF FilesOf
    <3> QED
      BY <2>1, <2>2, <3>1, <3>2, <1>3
  <2>3. CASE e # d
    BY <2>1, <2>3, <1>3, <1>9
  <2> QED
    BY <2>2, <2>3
<1>10. OneFile'
  BY <1>6, <1>9 DEF OneFile, Calendar
<1>11. RollingUp'
  <2>1. ASSUME hand'["thread"].at = "remove"
        PROVE  \A r \in csv'[rolled].rows : r \in parquet[rolled] \/ <<rolled, r>> \in late'
    <3>1. \A r \in csv[rolled].rows : r \in parquet[rolled] \/ <<rolled, r>> \in late
      BY <2>1, <1>0 DEF RollingUp
    <3>2. rolled \in Calendar
      BY <1>0 DEF RecTypes, RecWords, Calendar
    <3>3. CASE d # rolled
      BY <3>1, <3>2, <3>3, <1>3
    <3>4. CASE d = rolled
      <4>1. d # day
        <5>1. rolled \in Int /\ day \in Int /\ current \in Int
          BY <1>0, RecNumbers DEF RecTypes, RecWords
        <5> QED
          BY <5>1, <3>4, <2>1, <1>0 DEF RecClock
      <4>2. \A r \in put : <<rolled, r>> \in late'
        BY <4>1, <3>4, <1>3
      <4> QED
        BY <3>1, <3>4, <4>2, <1>3
    <3> QED
      BY <3>3, <3>4
  <2> QED
    BY <2>1, <1>0, <1>3 DEF RollingUp, Calendar
<1>12. \A e \in Calendar : \A r \in FilesOf(e)' : r \in DOMAIN days /\ days[r] <= e
  BY <1>0, <1>3 DEF RowsKnown
<1> QED
  BY <1>10, <1>11, <1>12

\* A write: the rows go from the hand to the file.
LEMMA WritesKeep == ASSUME NEW w \in Writers PROVE RecInv /\ Writes(w) => RecInv'
<1> SUFFICES ASSUME RecInv, Writes(w) PROVE RecInv'
  OBVIOUS
<1> DEFINE h == [Resting EXCEPT !.at = AfterFlush(w)]
<1>0. RecTypes /\ RecClock /\ RecHands /\ RowsKnown /\ YoungerInHand /\ RollingUp /\ OneFile /\ AllTraced
  BY DEF RecInv
<1>1. /\ RunsOn /\ hand[w].at = "write" /\ WriteRows(w, hand[w].rows, FALSE) /\ hand' = [hand EXCEPT ![w] = h]
      /\ lost' = lost \cup Swallowed(csv[hand[w].day], hand[w].rows)
      /\ UNCHANGED <<proc, header, day, current, rolled, days, buf, torn, cut, starts, errs>>
  BY DEF Writes
<1>2. PICK d \in Calendar : d = hand[w].day
  BY <1>0, HandParts DEF RecTypes
<1>3. PICK put \in SUBSET hand[w].rows : put = hand[w].rows /\ put # {}
  BY <1>0, <1>1 DEF RecHands
<1>4. PICK sw : sw = Swallowed(csv[d], put)
  OBVIOUS
<1>5. WriteRows(w, put, FALSE) /\ lost' = lost \cup sw
  BY <1>1, <1>2, <1>3, <1>4
<1>6. Written(d, put, sw)
  BY <1>1, <1>2, <1>3, <1>4, <1>5, WriteParts, Zenon
<1>7. /\ sw \subseteq put /\ put \subseteq Row
      /\ FileType' /\ parquet' = parquet /\ late' \subseteq Calendar \X Row
      /\ OnDisk' = OnDisk \cup (put \ sw) /\ late \subseteq late'
  BY <1>6 DEF Written
<1>8. h \in [at : Doings, rows : SUBSET Row, day : Calendar] /\ h.rows = {} /\ h.at = AfterFlush(w)
  BY RecNumbers DEF Resting, AfterFlush, Doings, Calendar
<1> HIDE DEF h
<1>9. HandType' /\ hand'[w] = h /\ \A v \in Writers : v # w => hand'[v] = hand[v]
  BY <1>0, <1>1, <1>8, HoldParts DEF RecTypes
<1>10. RecTypes'
  BY <1>0, <1>1, <1>5, <1>7, <1>9 DEF RecTypes, RecWords, DaysType, FateType
<1>11. RecClock'
  BY <1>0, <1>1, <1>9, TwoWriters DEF RecClock
<1>12. AfterFlush(w) # "write" /\ RunsOn' /\ (w = "loop" => AfterFlush(w) = "idle") /\ (w = "thread" => AfterFlush(w) = "compact")
  BY <1>1, TwoWriters DEF AfterFlush, RunsOn
<1>13. RecHands'
  <2>1. \A v \in Writers : hand'[v].at # "write" <=> hand'[v].rows = {}
    BY <1>0, <1>8, <1>9, <1>12 DEF RecHands
  <2>2. hand'["loop"].at \in {"idle", "flush", "write"} /\ (hand'["loop"].at = "write" => buf' = {})
    BY <1>0, <1>1, <1>8, <1>9, <1>12, TwoWriters DEF RecHands
  <2>3. proc' = "stopping" /\ hand'["loop"].at # "flush" => buf' = {}
    BY <1>0, <1>1, <1>9, TwoWriters DEF RecHands
  <2> QED
    BY <1>12, <2>1, <2>2, <2>3 DEF RecHands
<1>14. w = "thread" => hand["thread"].at = "write" /\ hand'["thread"].at = "compact"
  BY <1>1, <1>8, <1>9, <1>12
<1>15. w = "loop" => hand'["thread"] = hand["thread"]
  BY <1>9, TwoWriters
<1>16. /\ (hand["thread"].at = "remove" => hand'["thread"].at = "remove" \/ rolled \in cut')
       /\ (hand'["thread"].at = "remove" => hand["thread"].at = "remove" /\ w = "loop")
       /\ (hand'["thread"].at \in {"flush", "write", "compact"} => hand["thread"].at \in {"flush", "write", "compact"})
  BY <1>14, <1>15, TwoWriters
<1>17. OneFile' /\ RollingUp' /\ \A e \in Calendar : \A r \in FilesOf(e)' : r \in DOMAIN days /\ days[r] <= e
  <2>1. days' = days /\ day' = day /\ current' = current /\ rolled' = rolled /\ cut \subseteq cut'
    BY <1>1
  <2> QED
    BY <1>1, <1>3, <1>5, <1>16, <2>1, WriteOneFile
<1>18. RowsKnown'
  BY <1>0, <1>1, <1>8, <1>9, <1>17 DEF RowsKnown, Calendar
<1>19. /\ w = "loop" => Loop = put /\ Loop' = {} /\ Thread' = Thread /\ buf = {}
       /\ w = "thread" => Thread = put /\ Thread' = {} /\ Loop' = Loop
  BY <1>0, <1>1, <1>3, <1>8, <1>9, TwoWriters DEF Loop, Thread, RecHands
<1>20. w = "loop" \/ w = "thread"
  BY TwoWriters
<1>21. YoungerInHand'
  <2>1. CASE w = "loop"
    <3>1. put \cap Thread = {}
      <4>1. \A x \in put \cap Thread : x < x /\ x \in Int
        BY <2>1, <1>0, <1>7, <1>19, RecNumbers DEF YoungerInHand
      <4> QED
        BY <4>1
    <3> QED
      BY <2>1, <3>1, <1>0, <1>1, <1>7, <1>19 DEF YoungerInHand
  <2>2. CASE w = "thread"
    BY <2>2, <1>0, <1>1, <1>7, <1>19 DEF YoungerInHand
  <2> QED
    BY <1>20, <2>1, <2>2
<1>22. AllTraced'
  <2>1. Memory \subseteq Memory' \cup put
    BY <1>1, <1>19, <1>20 DEF Memory
  <2>2. TooLate \subseteq TooLate'
    BY <1>7 DEF TooLate
  <2>3. Traced \subseteq Traced'
    BY <1>5, <1>7, <2>1, <2>2 DEF Traced
  <2> QED
    BY <1>0, <1>1, <2>3 DEF AllTraced
<1> QED
  BY <1>10, <1>11, <1>13, <1>17, <1>18, <1>21, <1>22 DEF RecInv

\* A kill within a write: some of the rows have come to the file.
LEMMA TearsKeep == ASSUME NEW w \in Writers PROVE RecInv /\ KilledTears(w) => RecInv'
<1> SUFFICES ASSUME RecInv, KilledTears(w) PROVE RecInv'
  OBVIOUS
<1>0. RecTypes /\ RecClock /\ RecHands /\ RowsKnown /\ YoungerInHand /\ RollingUp /\ OneFile /\ AllTraced
  BY DEF RecInv
<1>1. /\ hand[w].at = "write"
      /\ \E r \in hand[w].rows :
           /\ WriteRows(w, {x \in hand[w].rows : x <= r}, TRUE) /\ torn' = torn \cup {r}
           /\ Dies({x \in hand[w].rows : x <= r} \ Swallowed(csv[hand[w].day], {x \in hand[w].rows : x <= r}))
  BY DEF KilledTears
<1>2. PICK r \in hand[w].rows :
           /\ WriteRows(w, {x \in hand[w].rows : x <= r}, TRUE) /\ torn' = torn \cup {r}
           /\ Dies({x \in hand[w].rows : x <= r} \ Swallowed(csv[hand[w].day], {x \in hand[w].rows : x <= r}))
  BY <1>1
<1>3. PICK d \in Calendar : d = hand[w].day
  BY <1>0, HandParts DEF RecTypes
<1>4. r \in Row /\ hand[w].rows \subseteq Row
  BY <1>0, HandParts DEF RecTypes
<1>5. PICK put \in SUBSET hand[w].rows : put = {x \in hand[w].rows : x <= r} /\ put # {}
  <2>1. r <= r
    BY <1>4, RecNumbers
  <2> QED
    BY <2>1
<1>6. PICK sw : sw = Swallowed(csv[d], put)
  OBVIOUS
<1>7. WriteRows(w, put, TRUE) /\ Dies(put \ sw)
  BY <1>2, <1>3, <1>5, <1>6
<1>8. /\ RecWords' /\ HandType' /\ RecClock' /\ RecHands' /\ DaysType'
      /\ buf' = {} /\ Loop' = {} /\ Thread' = {} /\ days' = days /\ day' = day /\ current' = current
      /\ rolled' = rolled
      /\ (hand["thread"].at = "remove" => rolled \in cut') /\ cut \subseteq cut' /\ cut' \subseteq Calendar
      /\ lost' = lost \cup (Memory \ (put \ sw)) /\ lost' \subseteq Row
      /\ \A v \in Writers : hand'[v].at = "idle" /\ hand'[v].rows = {}
  BY <1>7, DeadParts
<1>9. Written(d, put, sw)
  BY <1>1, <1>3, <1>5, <1>6, <1>7, <1>8, WriteParts, Zenon
<1>10. /\ FileType' /\ late' \subseteq Calendar \X Row
       /\ OnDisk' = OnDisk \cup (put \ sw) /\ late \subseteq late'
  BY <1>9 DEF Written
<1>11. RecTypes'
  <2>1. torn' \subseteq Row
    BY <1>0, <1>2, <1>4 DEF RecTypes, FateType
  <2> QED
    BY <2>1, <1>8, <1>10 DEF RecTypes, FateType
<1>12. hand'["thread"].at = "idle"
  BY <1>8, TwoWriters
<1>13. OneFile' /\ RollingUp' /\ \A e \in Calendar : \A x \in FilesOf(e)' : x \in DOMAIN days /\ days[x] <= e
  BY <1>1, <1>5, <1>7, <1>8, <1>12, WriteOneFile
<1>14. RowsKnown'
  BY <1>8, <1>13 DEF RowsKnown, Calendar
<1>15. YoungerInHand'
  BY <1>8 DEF YoungerInHand
<1>16. AllTraced'
  <2>1. TooLate \subseteq TooLate'
    BY <1>10 DEF TooLate
  <2>2. Traced \subseteq Traced'
    BY <1>8, <1>10, <2>1 DEF Traced
  <2> QED
    BY <1>0, <1>8, <2>2 DEF AllTraced
<1> QED
  BY <1>8, <1>11, <1>13, <1>14, <1>15, <1>16 DEF RecInv

\* What a step of the thread that holds nothing leaves alone.
LEMMA ThreadParts ==
  ASSUME RecInv, NEW at \in Doings, at # "write", RunsOn, hand["thread"].at # "write", hand["thread"].at # "idle",
         Do("thread", at), UNCHANGED <<proc, header, day, current, rolled, days, buf, starts, errs>>
  PROVE  /\ RecWords' /\ DaysType' /\ HandType' /\ RecClock' /\ RecHands'
         /\ Loop' = Loop /\ Thread' = {} /\ Memory' = Memory /\ hand'["thread"].at = at
         /\ \A w \in Writers : hand'[w].rows = hand[w].rows /\ hand'[w].day = hand[w].day
         /\ rolled \in Calendar /\ rolled < current
<1>0. RecTypes /\ RecClock /\ RecHands
  BY DEF RecInv
<1>1. /\ HandType' /\ hand'["thread"].at = at /\ hand'["thread"].rows = hand["thread"].rows
      /\ hand'["thread"].day = hand["thread"].day /\ hand'["loop"] = hand["loop"]
  BY <1>0, DoParts, TwoWriters DEF RecTypes
<1>2. hand["thread"].rows = {}
  BY <1>0, TwoWriters DEF RecHands
<1>3. \A w \in Writers : hand'[w].rows = hand[w].rows /\ hand'[w].day = hand[w].day
  BY <1>1, TwoWriters
<1>4. Loop' = Loop /\ Thread = {} /\ Thread' = {} /\ Memory' = Memory
  BY <1>1, <1>2 DEF Loop, Thread, Memory
<1>5. RecWords' /\ DaysType'
  BY <1>0 DEF RecTypes, RecWords, DaysType
<1>6. RecClock' /\ rolled < current
  BY <1>0, <1>1 DEF RecClock
<1>7. RecHands'
  BY <1>0, <1>1, <1>2, TwoWriters DEF RecHands, RunsOn
<1>8. rolled \in Calendar
  BY <1>0 DEF RecTypes, RecWords, Calendar
<1> QED
  BY <1>1, <1>3, <1>4, <1>5, <1>6, <1>7, <1>8

\* The CSV of the day before becomes a Parquet file; there was none.
LEMMA CompactKeeps == RecInv /\ Compact => RecInv'
<1> SUFFICES ASSUME RecInv, Compact PROVE RecInv'
  OBVIOUS
<1>0. RecTypes /\ RecClock /\ RecHands /\ RowsKnown /\ YoungerInHand /\ RollingUp /\ OneFile /\ AllTraced
  BY DEF RecInv
<1>1. /\ RunsOn /\ hand["thread"].at = "compact"
      /\ UNCHANGED <<proc, header, day, current, rolled, days, buf, csv, aside, lost, torn, late, cut, starts, errs>>
  BY DEF Compact, fateVars
<1>2. PICK at \in Doings : /\ at = (IF csv[rolled].columns = "none" THEN "purge" ELSE "remove")
                          /\ Do("thread", at)
  BY DEF Compact, Doings
<1>3. at # "write"
  BY <1>2
<1>4. /\ RecWords' /\ DaysType' /\ HandType' /\ RecClock' /\ RecHands'
      /\ Loop' = Loop /\ Thread' = {} /\ Memory' = Memory /\ hand'["thread"].at = at
      /\ \A w \in Writers : hand'[w].rows = hand[w].rows /\ hand'[w].day = hand[w].day
      /\ rolled \in Calendar /\ rolled < current
  BY <1>1, <1>2, <1>3, ThreadParts
<1>5. CASE csv[rolled].columns = "none"
  <2>1. parquet' = parquet /\ at = "purge"
    BY <1>2, <1>5 DEF Compact
  <2>2. RecTypes' /\ UNCHANGED <<days, priceFiles, late>>
    BY <1>0, <1>1, <1>4, <2>1 DEF RecTypes, FileType, FateType, priceFiles
  <2>3. RollingUp'
    BY <1>0, <1>1, <1>4, <2>1 DEF RollingUp, Calendar
  <2>4. day <= day' /\ lost \subseteq lost' /\ cut \subseteq cut' /\ buf' \subseteq buf
    BY <1>0, <1>1, RecNumbers DEF RecTypes, RecWords
  <2>5. \A w \in Writers : \A r \in hand'[w].rows : r \in DOMAIN days /\ days[r] <= hand'[w].day
    BY <1>0, <1>4 DEF RowsKnown
  <2> QED
    BY <1>1, <1>4, <2>1, <2>2, <2>3, <2>4, <2>5, NoFileTouched
<1>6. CASE csv[rolled].columns # "none"
  <2>1. parquet' = [parquet EXCEPT ![rolled] = csv[rolled].rows] /\ at = "remove"
    BY <1>2, <1>6 DEF Compact, RolledUp
  <2>2. csv[rolled].rows \subseteq Row /\ parquet \in [Calendar -> SUBSET Row] /\ parquet[rolled] = {}
    BY <1>0, <1>1, <1>4 DEF RecTypes, FileType, RollingUp
  <2>3. /\ parquet' \in [Calendar -> SUBSET Row] /\ parquet'[rolled] = csv[rolled].rows
        /\ \A d \in Calendar \ {rolled} : parquet'[d] = parquet[d]
    BY <1>4, <2>1, <2>2
  <2>4. RecTypes'
    BY <1>0, <1>1, <1>4, <2>3 DEF RecTypes, FileType, FateType
  <2>5. \A d \in Calendar : FilesOf(d)' = FilesOf(d)
    <3> SUFFICES ASSUME NEW d \in Calendar PROVE FilesOf(d)' = FilesOf(d)
      OBVIOUS
    <3>1. CASE d = rolled
      BY <3>1, <1>1, <2>2, <2>3 DEF FilesOf
    <3>2. CASE d # rolled
      BY <3>2, <1>1, <2>3 DEF FilesOf
    <3> QED
      BY <3>1, <3>2
  <2>6. OnDisk' = OnDisk
    <3>1. \A x : x \in OnDisk' <=> x \in OnDisk
      BY <2>5, DiskIs, DiskNext
    <3> QED
      BY <3>1
  <2>7. RowsKnown' /\ YoungerInHand'
    BY <1>0, <1>1, <1>4, <2>5, <2>6 DEF RowsKnown, YoungerInHand, Calendar
  <2>8. RollingUp'
    BY <1>0, <1>1, <1>4, <2>1, <2>3 DEF RollingUp, Calendar
  <2>9. OneFile'
    <3>1. \A d, e \in Calendar : d # e => FilesOf(d)' \cap FilesOf(e)' = {}
      BY <1>0, <2>5 DEF OneFile
    <3>2. ASSUME NEW d \in Calendar, d \notin cut' \cup LateDays'
          PROVE  /\ csv'[d].rows \cap aside'[d] = {} /\ parquet'[d] \cap aside'[d] = {}
                 /\ ~(rolled' = d /\ hand'["thread"].at = "remove") => csv'[d].rows \cap parquet'[d] = {}
      <4>1. /\ csv[d].rows \cap aside[d] = {} /\ parquet[d] \cap aside[d] = {}
            /\ csv[d].rows \cap parquet[d] = {}
        BY <1>0, <1>1, <3>2 DEF OneFile, LateDays
      <4>2. CASE d = rolled
        BY <4>1, <4>2, <1>1, <1>4, <2>1, <2>3
      <4>3. CASE d # rolled
        BY <4>1, <4>3, <1>1, <2>3
      <4> QED
        BY <4>2, <4>3
    <3> QED
      BY <3>1, <3>2 DEF OneFile, Calendar
  <2>10. AllTraced'
    BY <1>0, <1>1, <1>4, <2>6 DEF AllTraced, Traced, TooLate
  <2> QED
    BY <1>4, <2>4, <2>7, <2>8, <2>9, <2>10 DEF RecInv
<1> QED
  BY <1>5, <1>6

\* Files that shrink: what goes is rolled up, came too late or is old.
LEMMA ShrinkKeeps ==
  ASSUME RecInv, RunsOn, hand["thread"].at \in {"remove", "purge"},
         NEW at \in {"idle", "purge"}, Do("thread", at),
         UNCHANGED <<proc, header, day, current, rolled, days, buf, lost, torn, late, cut, starts, errs>>,
         csv' \in [Calendar -> [columns : Columns \cup {"none"}, rows : SUBSET Row, open : BOOLEAN]],
         parquet' \in [Calendar -> SUBSET Row], aside' \in [Calendar -> SUBSET Row],
         \A d \in Calendar : csv'[d].rows \subseteq csv[d].rows /\ parquet'[d] \subseteq parquet[d] /\ aside'[d] \subseteq aside[d],
         hand["thread"].at = "remove" => csv'[rolled].rows = {},
         \A d \in Calendar : \A r \in FilesOf(d) \ FilesOf(d)' : <<d, r>> \in late \/ days[r] + Retention <= day
  PROVE  RecInv'
<1>0. RecTypes /\ RecClock /\ RecHands /\ RowsKnown /\ YoungerInHand /\ RollingUp /\ OneFile /\ AllTraced
  BY DEF RecInv
<1>1. at \in Doings /\ at # "write"
  BY DEF Doings
<1>2. /\ RecWords' /\ DaysType' /\ HandType' /\ RecClock' /\ RecHands'
      /\ Loop' = Loop /\ Thread' = {} /\ Memory' = Memory /\ hand'["thread"].at = at
      /\ \A w \in Writers : hand'[w].rows = hand[w].rows /\ hand'[w].day = hand[w].day
      /\ rolled \in Calendar /\ rolled < current
  BY <1>1, ThreadParts
<1>3. RecTypes'
  BY <1>0, <1>2 DEF RecTypes, FileType, FateType
<1>4. \A d \in Calendar : FilesOf(d)' \subseteq FilesOf(d)
  BY DEF FilesOf
<1>5. OnDisk' \subseteq OnDisk
  BY <1>4, DiskIs, DiskNext
<1>6. RowsKnown' /\ YoungerInHand'
  BY <1>0, <1>2, <1>4, <1>5 DEF RowsKnown, YoungerInHand, Calendar
<1>7. RollingUp'
  BY <1>0, <1>2 DEF RollingUp, Calendar
<1>8. OneFile'
  <2>1. \A d, e \in Calendar : d # e => FilesOf(d)' \cap FilesOf(e)' = {}
    BY <1>0, <1>4 DEF OneFile
  <2>2. ASSUME NEW d \in Calendar, d \notin cut' \cup LateDays'
        PROVE  /\ csv'[d].rows \cap aside'[d] = {} /\ parquet'[d] \cap aside'[d] = {}
               /\ csv'[d].rows \cap parquet'[d] = {}
    <3>1. /\ csv[d].rows \cap aside[d] = {} /\ parquet[d] \cap aside[d] = {}
          /\ ~(rolled = d /\ hand["thread"].at = "remove") => csv[d].rows \cap parquet[d] = {}
      BY <1>0, <2>2 DEF OneFile, LateDays
    <3>2. CASE rolled = d /\ hand["thread"].at = "remove"
      BY <3>1, <3>2
    <3>3. CASE ~(rolled = d /\ hand["thread"].at = "remove")
      BY <3>1, <3>3
    <3> QED
      BY <3>2, <3>3
  <2> QED
    BY <2>1, <2>2 DEF OneFile, Calendar
<1>9. AllTraced'
  <2> SUFFICES ASSUME NEW r \in DOMAIN days PROVE r \in Traced' \/ days[r] + Retention <= day
    BY DEF AllTraced
  <2>1. r \in Traced \/ days[r] + Retention <= day
    BY <1>0 DEF AllTraced
  <2>2. TooLate' = TooLate
    BY DEF TooLate
  <2>3. CASE r \in OnDisk /\ r \notin OnDisk'
    <3>1. PICK d \in Calendar : r \in FilesOf(d)
      BY <2>3, DiskIs
    <3>2. r \notin FilesOf(d)'
      BY <2>3, DiskNext
    <3>3. <<d, r>> \in late \/ days[r] + Retention <= day
      BY <3>1, <3>2
    <3>4. <<d, r>> \in late => r \in TooLate
      <4>1. <<d, r>>[2] = r
        OBVIOUS
      <4> QED
        BY <4>1 DEF TooLate
    <3> QED
      BY <3>3, <3>4, <2>2 DEF Traced
  <2>4. CASE r \in OnDisk => r \in OnDisk'
    BY <2>1, <2>2, <2>4, <1>2 DEF Traced
  <2> QED
    BY <2>3, <2>4
<1> QED
  BY <1>3, <1>2, <1>6, <1>7, <1>8, <1>9 DEF RecInv

LEMMA RemovesKeep == RecInv /\ RemoveCsv => RecInv'
<1> SUFFICES ASSUME RecInv, RemoveCsv PROVE RecInv'
  OBVIOUS
<1>0. RecTypes /\ RollingUp
  BY DEF RecInv
<1>1. /\ RunsOn /\ hand["thread"].at = "remove" /\ Do("thread", "purge")
      /\ csv' = [csv EXCEPT ![rolled] = NoCsv] /\ parquet' = parquet /\ aside' = aside
      /\ UNCHANGED <<proc, header, day, current, rolled, days, buf, lost, torn, late, cut, starts, errs>>
  BY DEF RemoveCsv, fateVars
<1>2. /\ rolled \in Calendar /\ parquet \in [Calendar -> SUBSET Row] /\ aside \in [Calendar -> SUBSET Row]
      /\ csv \in [Calendar -> [columns : Columns \cup {"none"}, rows : SUBSET Row, open : BOOLEAN]]
  BY <1>0 DEF RecTypes, RecWords, FileType, Calendar
<1>3. NoCsv \in [columns : Columns \cup {"none"}, rows : SUBSET Row, open : BOOLEAN] /\ NoCsv.rows = {}
  BY DEF NoCsv
<1>4. /\ csv' \in [Calendar -> [columns : Columns \cup {"none"}, rows : SUBSET Row, open : BOOLEAN]]
      /\ csv'[rolled].rows = {} /\ \A d \in Calendar : d # rolled => csv'[d] = csv[d]
  BY <1>1, <1>2, <1>3
<1>5. \A d \in Calendar : csv'[d].rows \subseteq csv[d].rows /\ parquet'[d] \subseteq parquet[d] /\ aside'[d] \subseteq aside[d]
  BY <1>1, <1>4
<1>6. \A d \in Calendar : \A r \in FilesOf(d) \ FilesOf(d)' : <<d, r>> \in late
  <2> SUFFICES ASSUME NEW d \in Calendar, NEW r \in FilesOf(d) \ FilesOf(d)' PROVE <<d, r>> \in late
    OBVIOUS
  <2>1. r \in csv[d].rows /\ r \notin parquet[d] /\ r \notin csv'[d].rows
    BY <1>1 DEF FilesOf
  <2>2. d = rolled
    BY <2>1, <1>4
  <2> QED
    BY <2>1, <2>2, <1>0, <1>1 DEF RollingUp
<1> QED
  BY <1>1, <1>2, <1>4, <1>5, <1>6, ShrinkKeeps

LEMMA PurgeKeeps == RecInv /\ Purge => RecInv'
<1> SUFFICES ASSUME RecInv, Purge PROVE RecInv'
  OBVIOUS
<1>0. RecTypes /\ RowsKnown
  BY DEF RecInv
<1>1. /\ RunsOn /\ hand["thread"].at = "purge" /\ Do("thread", "idle")
      /\ csv' = [d \in Calendar |-> IF Outlived(d) THEN NoCsv ELSE csv[d]]
      /\ parquet' = [d \in Calendar |-> IF Outlived(d) THEN {} ELSE parquet[d]]
      /\ aside' = [d \in Calendar |-> IF Outlived(d) THEN {} ELSE aside[d]]
      /\ UNCHANGED <<proc, header, day, current, rolled, days, buf, lost, torn, late, cut, starts, errs>>
  BY DEF Purge, fateVars
<1>2. /\ parquet \in [Calendar -> SUBSET Row] /\ aside \in [Calendar -> SUBSET Row]
      /\ csv \in [Calendar -> [columns : Columns \cup {"none"}, rows : SUBSET Row, open : BOOLEAN]]
  BY <1>0 DEF RecTypes, FileType
<1>3. NoCsv \in [columns : Columns \cup {"none"}, rows : SUBSET Row, open : BOOLEAN] /\ NoCsv.rows = {}
  BY DEF NoCsv
<1>4. /\ csv' \in [Calendar -> [columns : Columns \cup {"none"}, rows : SUBSET Row, open : BOOLEAN]]
      /\ parquet' \in [Calendar -> SUBSET Row] /\ aside' \in [Calendar -> SUBSET Row]
  BY <1>1, <1>2, <1>3
<1>5. \A d \in Calendar : csv'[d].rows \subseteq csv[d].rows /\ parquet'[d] \subseteq parquet[d] /\ aside'[d] \subseteq aside[d]
  BY <1>1, <1>3
<1>6. \A d \in Calendar : \A r \in FilesOf(d) \ FilesOf(d)' : days[r] + Retention <= day
  <2> SUFFICES ASSUME NEW d \in Calendar, NEW r \in FilesOf(d) \ FilesOf(d)' PROVE days[r] + Retention <= day
    OBVIOUS
  <2>1. Outlived(d)
    BY <1>1 DEF FilesOf
  <2>2. days[r] <= d /\ r \in DOMAIN days
    BY <1>0 DEF RowsKnown
  <2>3. days[r] \in Int /\ d \in Int /\ day \in Int /\ Retention \in Int
    BY <1>0, <2>2, DaysParts, RecNumbers DEF RecTypes, RecWords, Calendar
  <2> QED
    BY <2>1, <2>2, <2>3 DEF Outlived
<1> QED
  BY <1>1, <1>4, <1>5, <1>6, ShrinkKeeps

LEMMA RecStep == RecInv /\ [RecorderNext]_recVars => RecInv'
<1> SUFFICES ASSUME RecInv, [RecorderNext]_recVars PROVE RecInv'
  OBVIOUS
<1>1. CASE Record
  BY <1>1, RecordKeeps
<1>2. CASE Maintain \/ CompactFails \/ RemoveFails \/ Starts \/ LastFlush \/ Leave \/ DayTurns
  BY <1>2, TurnsKeep
<1>3. CASE Killed \/ Compact \/ RemoveCsv \/ Purge
  BY <1>3, KilledKeeps, CompactKeeps, RemovesKeep, PurgeKeeps
<1>4. CASE \E w \in Writers : Take(w) \/ Writes(w) \/ WriteFails(w) \/ KilledTears(w)
  <2>1. PICK w \in Writers : Take(w) \/ Writes(w) \/ WriteFails(w) \/ KilledTears(w)
    BY <1>4
  <2> QED
    BY <2>1, TakeKeeps, WritesKeep, FailKeeps, TearsKeep
<1>5. CASE UNCHANGED recVars
  <2>1. /\ UNCHANGED <<proc, header, day, current, rolled, days, buf, hand, priceFiles, lost, torn, late, cut, starts, errs>>
        /\ csv' = csv /\ parquet' = parquet /\ aside' = aside
    BY <1>5 DEF recVars, priceFiles, fateVars
  <2>2. RecTypes /\ RecClock /\ RecHands /\ RowsKnown /\ RollingUp
    BY DEF RecInv
  <2>3. RecTypes'
    BY <2>1, <2>2 DEF RecTypes, RecWords, DaysType, HandType, FileType, FateType
  <2>4. RecClock' /\ RecHands' /\ RollingUp'
    BY <2>1, <2>2 DEF RecClock, RecHands, RollingUp, RunsOn, Calendar
  <2>5. Loop' = Loop /\ Thread' = Thread /\ Memory' = Memory
    BY <2>1 DEF Loop, Thread, Memory
  <2>6. day <= day'
    BY <2>1, <2>2, RecNumbers DEF RecTypes, RecWords
  <2>7. \A w \in Writers : \A r \in hand'[w].rows : r \in DOMAIN days /\ days[r] <= hand'[w].day
    BY <2>1, <2>2 DEF RowsKnown
  <2> QED
    BY <2>1, <2>3, <2>4, <2>5, <2>6, <2>7, NoFileTouched
<1> QED
  BY <1>1, <1>2, <1>3, <1>4, <1>5 DEF RecorderNext

----------------------------------------------------------------------------
(* What the invariant says of the files and the labels.                     *)

LEMMA AccountedHolds == RecInv => RecorderTypeOK /\ Accounted
<1> SUFFICES ASSUME RecInv PROVE RecorderTypeOK /\ Accounted
  OBVIOUS
<1>1. RecTypes /\ RecHands /\ AllTraced
  BY DEF RecInv
<1>2. RecorderTypeOK
  <2>1. /\ proc \in {"off", "down", "up", "stopping"} /\ header \in Columns
        /\ {day, current, rolled} \subseteq Calendar /\ starts \in 0..MaxStarts /\ errs \in 0..MaxErrs
    BY <1>1 DEF RecTypes, RecWords, Calendar
  <2>2. days \in Seq(Calendar) /\ Len(days) <= Len(Tape)
    BY <1>1 DEF RecTypes, DaysType
  <2>3. hand \in [Writers -> [at : {"idle", "flush", "write", "compact", "remove", "purge"}, rows : SUBSET Row, day : Calendar]]
    BY <1>1 DEF RecTypes, HandType, Doings
  <2>4. /\ csv \in [Calendar -> [columns : Columns \cup {"none"}, rows : SUBSET Row, open : BOOLEAN]]
        /\ {parquet, aside} \subseteq [Calendar -> SUBSET Row]
    BY <1>1 DEF RecTypes, FileType
  <2>5. {lost, torn} \subseteq SUBSET Row /\ late \subseteq Calendar \X Row /\ cut \subseteq Calendar
    BY <1>1 DEF RecTypes, FateType
  <2>6. buf \subseteq Row
    BY <1>1, DaysParts DEF RecInv, RecTypes, RowsKnown
  <2> QED
    BY <2>1, <2>2, <2>3, <2>4, <2>5, <2>6 DEF RecorderTypeOK
<1>3. InHand = Memory
  <2>1. UNION {hand[w].rows : w \in Writers} = Loop \cup Thread
    BY TwoWriters DEF Loop, Thread
  <2>2. CASE RunsOn
    BY <2>1, <2>2 DEF InHand, Memory
  <2>3. CASE ~RunsOn
    <3>1. buf = {} /\ \A w \in Writers : hand[w].rows = {}
      BY <1>1, <2>3 DEF RecHands
    <3> QED
      BY <2>3, <3>1, TwoWriters DEF InHand, Memory, Loop, Thread
  <2> QED
    BY <2>2, <2>3
<1>4. Accounted
  BY <1>1, <1>3 DEF AllTraced, Traced, Accounted
<1> QED
  BY <1>2, <1>4

LEMMA HeldIs ==
  ASSUME NEW d, NEW r
  PROVE  /\ Held(d, r) \subseteq {"csv", "parquet", "aside"}
         /\ "csv" \in Held(d, r) <=> r \in csv[d].rows
         /\ "parquet" \in Held(d, r) <=> r \in parquet[d]
         /\ "aside" \in Held(d, r) <=> r \in aside[d]
  BY DEF Held

LEMMA OnceHolds == RecInv => ReadOnce
<1> SUFFICES ASSUME RecInv, NEW r \in OnDisk
             PROVE  \/ Cardinality({x \in Calendar \X {"csv", "parquet", "aside"} : x[2] \in Held(x[1], r)}) = 1
                    \/ \E d \in Calendar : /\ Held(d, r) # {}
                                           /\ d \in cut \/ d \in {x[1] : x \in late}
                                              \/ (rolled = d /\ hand["thread"].at = "remove")
  BY DEF ReadOnce
<1> DEFINE Where == {x \in Calendar \X {"csv", "parquet", "aside"} : x[2] \in Held(x[1], r)}
<1>1. OneFile
  BY DEF RecInv
<1>2. PICK d \in Calendar : r \in FilesOf(d)
  BY DiskIs
<1>3. PICK f \in {"csv", "parquet", "aside"} : f \in Held(d, r)
  BY <1>2, HeldIs DEF FilesOf
<1>4. CASE d \in cut \/ d \in LateDays \/ (rolled = d /\ hand["thread"].at = "remove")
  BY <1>3, <1>4 DEF LateDays
<1>5. CASE ~(d \in cut \/ d \in LateDays \/ (rolled = d /\ hand["thread"].at = "remove"))
  <2>1. \A e \in Calendar : Held(e, r) # {} => r \in FilesOf(e)
    BY HeldIs DEF FilesOf
  <2>2. \A e \in Calendar : Held(e, r) # {} => e = d
    BY <1>1, <1>2, <2>1 DEF OneFile
  <2>3. \A g \in Held(d, r) : g = f
    <3>1. csv[d].rows \cap aside[d] = {} /\ parquet[d] \cap aside[d] = {} /\ csv[d].rows \cap parquet[d] = {}
      BY <1>1, <1>5 DEF OneFile
    <3> QED
      BY <1>3, <3>1, HeldIs
  <2>4. \A x \in Where : x = <<d, f>>
    <3> SUFFICES ASSUME NEW x \in Where PROVE x = <<d, f>>
      OBVIOUS
    <3>1. x = <<x[1], x[2]>> /\ x[1] \in Calendar /\ x[2] \in Held(x[1], r)
      OBVIOUS
    <3>2. x[1] = d
      BY <2>2, <3>1
    <3> QED
      BY <2>3, <3>1, <3>2
  <2>5. <<d, f>> \in Where
    BY <1>3
  <2>6. Where = {<<d, f>>}
    BY <2>4, <2>5, Zenon
  <2>7. Cardinality(Where) = 1
    BY <2>6, FS_Singleton, Zenon
  <2> QED
    BY <2>7
<1> QED
  BY <1>4, <1>5

\* A label is told by the rows of the path and by the first row ahead.
Told(path, from, side) ==
  LET move(r) == side * (Tape[r] - Tape[from])
      touch == {r \in path : move(r) >= Barrier \/ move(r) <= -Barrier}
      end   == CHOOSE r \in path : \A x \in path : x <= r
  IN IF touch # {} THEN (IF move(Earliest(touch)) > 0 THEN "pt" ELSE "sl")
     ELSE IF move(end) > 0 THEN "up" ELSE "down"
Since(known, s) == {r \in known : r >= s}
PathOf(known, s) == {r \in Since(known, s) : r <= s + Horizon}

LEMMA LabelTold ==
  ASSUME NEW known, NEW s, NEW side
  PROVE  LabelOf(known, s, side) =
           IF Cardinality(Since(known, s)) < 2 \/ ~Decided(known, s) \/ Cardinality(PathOf(known, s)) < 2 THEN "open"
           ELSE Told(PathOf(known, s), Earliest(Since(known, s)), side)
  BY DEF LabelOf, Since, PathOf, Told

\* With the thread at rest, what is recorded and not on the disk is younger than
\* the last row on it.
LEMMA YetToCome ==
  ASSUME RecInv, hand["thread"].at = "idle", NEW s \in DOMAIN days, days[s] + Retention > day,
         NEW x \in DOMAIN days \ (lost \cup TooLate), x >= s, x \notin OnDisk
  PROVE  \A y \in OnDisk : y < x
<1>0. RecTypes /\ RecClock /\ RecHands /\ YoungerInHand /\ AllTraced
  BY DEF RecInv
<1>1. /\ days[s] \in Int /\ days[x] \in Int /\ day \in Int /\ Retention \in Int /\ days[s] <= days[x]
  BY <1>0, DaysParts, RecNumbers DEF RecTypes, RecWords, RecClock, Calendar
<1>2. x \in Memory
  BY <1>0, <1>1 DEF AllTraced, Traced
<1>3. Thread = {}
  BY <1>0, TwoWriters DEF RecHands, Thread
<1> QED
  BY <1>0, <1>2, <1>3 DEF Memory, YoungerInHand

LEMMA LabelsHold == RecInv => LabelsLast
<1> SUFFICES ASSUME RecInv, hand["thread"].at = "idle", NEW s \in DOMAIN days, NEW side \in {1, -1},
                    LabelOf(OnDisk, s, side) # "open", days[s] + Retention > day
             PROVE  LabelOf(OnDisk, s, side) = LabelOf(OnDisk \cup (DOMAIN days \ (lost \cup TooLate)), s, side)
  BY DEF LabelsLast
<1>0. RecTypes /\ RowsKnown
  BY DEF RecInv
<1>1. PICK kept \in SUBSET DOMAIN days : kept = OnDisk \cup (DOMAIN days \ (lost \cup TooLate))
  <2>1. OnDisk \subseteq DOMAIN days
    BY <1>0, DiskIs DEF RowsKnown
  <2> QED
    BY <2>1
<1>2. /\ OnDisk \subseteq kept /\ \A x \in kept : x \in Int /\ kept \subseteq Row /\ s \in Int /\ s + Horizon \in Int
      /\ s <= s + Horizon
  BY <1>0, <1>1, DaysParts, RecNumbers DEF RecTypes
<1>3. /\ ~(Cardinality(Since(OnDisk, s)) < 2) /\ Decided(OnDisk, s) /\ ~(Cardinality(PathOf(OnDisk, s)) < 2)
      /\ LabelOf(OnDisk, s, side) = Told(PathOf(OnDisk, s), Earliest(Since(OnDisk, s)), side)
  BY LabelTold
<1>4. PICK z \in OnDisk : z >= s + Horizon
  BY <1>3 DEF Decided
<1>5. \A x \in kept : x >= s /\ x \notin OnDisk => \A y \in OnDisk : y < x
  BY <1>1, YetToCome
<1>6. \A x \in kept : x >= s /\ x \notin OnDisk => x > s + Horizon
  BY <1>2, <1>4, <1>5
<1>7. PathOf(kept, s) = PathOf(OnDisk, s)
  BY <1>2, <1>6 DEF PathOf, Since
<1>8. Decided(kept, s)
  BY <1>2, <1>4 DEF Decided
<1>9. Since(OnDisk, s) \subseteq Since(kept, s) /\ z \in Since(OnDisk, s)
  BY <1>2, <1>4 DEF Since
<1>10. ~(Cardinality(Since(kept, s)) < 2)
  <2>1. IsFiniteSet(Since(kept, s))
    <3>1. Since(kept, s) \subseteq Row
      BY <1>2 DEF Since
    <3>2. IsFiniteSet(Row)
      BY RecNumbers, FS_Interval
    <3> QED
      BY <3>1, <3>2, FS_Subset, Zenon
  <2>2. /\ IsFiniteSet(Since(OnDisk, s)) /\ Cardinality(Since(OnDisk, s)) <= Cardinality(Since(kept, s))
    BY <1>9, <2>1, FS_Subset, Zenon
  <2>3. Cardinality(Since(OnDisk, s)) \in Nat /\ Cardinality(Since(kept, s)) \in Nat
    BY <2>1, <2>2, FS_CardinalityType, Zenon
  <2> QED
    BY <1>3, <2>2, <2>3
<1>11. Earliest(Since(kept, s)) = Earliest(Since(OnDisk, s))
  <2>1. Since(kept, s) \in SUBSET Row /\ Since(OnDisk, s) \in SUBSET Row
    BY <1>2, <1>9 DEF Since
  <2>2. PICK e \in Since(kept, s) : e = Earliest(Since(kept, s)) /\ \A x \in Since(kept, s) : e <= x
    BY <2>1, <1>9, FirstRow
  <2>3. PICK m \in Since(OnDisk, s) : m = Earliest(Since(OnDisk, s)) /\ \A x \in Since(OnDisk, s) : m <= x
    BY <2>1, <1>9, FirstRow
  <2>4. e <= m
    BY <1>9, <2>2
  <2>5. e \in OnDisk
    <3>1. e \notin OnDisk => m < e
      BY <1>5, <2>2, <2>3 DEF Since
    <3> QED
      BY <2>1, <2>4, <3>1, RecNumbers
  <2>6. m <= e
    BY <2>2, <2>3, <2>5 DEF Since
  <2> QED
    BY <2>1, <2>2, <2>3, <2>4, <2>6, RecNumbers
<1>12. LabelOf(kept, s, side) = Told(PathOf(kept, s), Earliest(Since(kept, s)), side)
  BY <1>3, <1>7, <1>8, <1>10, LabelTold
<1> QED
  BY <1>1, <1>3, <1>7, <1>11, <1>12

\* data_recorder.py:10-12, meta_trainer.py: what was recorded is on the disk
\* until its retention has passed, once, and the label a signal gets from the
\* files does not change with what is written later (RecordKept), for every
\* tape, number of days, of starts and of failures.
THEOREM RecordStays == Spec => []RecordKept
<1>1. Init => RecInv
  BY RecFirst
<1>2. RecInv /\ [Next]_vars => RecInv'
  <2> SUFFICES ASSUME RecInv, [Next]_vars PROVE RecInv'
    OBVIOUS
  <2>1. [RecorderNext]_recVars
    BY DEF Next, vars
  <2> QED
    BY <2>1, RecStep
<1>3. RecInv => RecordKept
  BY AccountedHolds, OnceHolds, LabelsHold DEF RecordKept
<1> QED
  BY <1>1, <1>2, <1>3, PTL DEF Spec

----------------------------------------------------------------------------
(***************************************************************************)
(* The handling of the bars.                                                *)
(***************************************************************************)

LEMMA BarNumbers ==
  /\ Period \in Nat /\ Cap \in Nat /\ Valid \in Nat /\ MaxBars \in Nat /\ Delay \in Nat /\ MaxBetter \in Nat
  /\ MaxWoes \in Nat /\ Period > 0 /\ MaxBars > 0 /\ Delay < Cap /\ Cap < Period
  /\ Bars = 1..MaxBars
  BY BarLoopAssumption DEF Bars

\* The types of BarLoop in parts.
ClockType == phase \in 0..Period - 1 /\ formed \in 0..MaxBars /\ brings \in [Bars -> SUBSET Sides]
TurnType ==
  /\ loop \in {"off", "top", "sleep", "fetch", "stamp", "bars", "act", "arm", "mark"}
  /\ due \in 0..Period + Delay /\ nap \in 0..Cap
  /\ snap \in 0..MaxBars /\ cur \in 0..MaxBars + 1 /\ upto \in 0..MaxBars /\ last \in 0..MaxBars
FlagType == barEvt \in BOOLEAN /\ early \in BOOLEAN
WorkType == work \in [sigs : SUBSET Sides, used : SUBSET Sides, exited : BOOLEAN, todo : {"arm", "move", "close"}]
TradeType ==
  trade \in [st : States, dir : Sides, exp : 0..MaxBars + Valid,
             fill : 0..MaxBars, stop : 0..MaxBetter, sent : 0..MaxBetter]
PastType ==
  past \in [armed : Seq(Bars \X Sides), left : SUBSET Bars, swept : SUBSET Bars, counted : Seq(Bars), passed : SUBSET Bars, first : 0..MaxBars]
OrphanType == orphan \in Sides \cup {"no"}
WoeType == missed \in 0..MaxWoes /\ failed \in 0..MaxWoes /\ kills \in 0..MaxWoes
BarTypes == ClockType /\ TurnType /\ FlagType /\ rows \subseteq Bars \X Sides /\ WorkType /\ TradeType /\ OrphanType /\ PastType /\ WoeType

\* Where the loop is: what it has asked for and what it has still to handle.
Bounds ==
  /\ missed + failed + kills <= MaxWoes
  /\ loop # "off" => formed >= 1
  /\ snap <= formed /\ last <= formed /\ upto <= formed
  /\ loop = "stamp" => last <= snap
  /\ loop = "bars" \/ Handling =>
       1 <= cur /\ last < cur /\ cur <= upto + 1 /\ (last # None => cur = last + 1)
  /\ Handling => cur <= upto

\* The bars counted for a position: all after its fill, but for those before the
\* first mark and those that passed it over, and each once as long as nothing
\* fails.
Counted(b) == \E i \in DOMAIN past.counted : past.counted[i] = b
Heeded(b) == Counted(b) \/ b \in past.passed
\* The trade has a position, known to it or not.
Filled == trade.st \in {"holding", "exposed"} \/ Executed
Covered ==
  /\ trade.st \in {"pending", "recovery"} => past.counted = <<>>
  /\ Filled =>
       /\ \A b \in Bars : b > trade.fill /\ b >= past.first /\ b <= last => Heeded(b)
       /\ \A i \in DOMAIN past.counted : past.counted[i] > trade.fill
       /\ Handling /\ cur > trade.fill => Heeded(cur)
  /\ failed = 0 => past.passed = {} /\ trade.st \notin {"recovery", "exposed"} /\ ~Executed
  /\ failed = 0 /\ kills = 0 =>
       /\ \A i, j \in DOMAIN past.counted : i < j => past.counted[i] < past.counted[j]
       /\ \A i \in DOMAIN past.counted : past.counted[i] <= last \/ (Handling /\ past.counted[i] = cur)

\* What a bar has brought is in the rows once it is handled; a trade is armed by
\* a row that was new, and a position is younger than the bars that armed one.
ArmedOnce ==
  /\ \A i \in DOMAIN past.armed : past.armed[i] \in rows /\ past.armed[i][1] <= formed
  /\ \A i, j \in DOMAIN past.armed : past.armed[i] = past.armed[j] => i = j
  /\ loop \in {"act", "arm"} => \A d \in work.sigs : \A i \in DOMAIN past.armed : past.armed[i] # <<cur, d>>
  /\ Handling => \A d \in work.sigs : <<cur, d>> \in rows
  /\ Filled => \A i \in DOMAIN past.armed : past.armed[i][1] <= trade.fill
  /\ loop = "act" /\ work.todo = "close" => trade.st = "holding" /\ cur > trade.fill /\ work.exited
Settled ==
  ~early =>
    /\ \A b \in past.left : b <= formed /\ \A d \in brings[b] : <<b, d>> \in rows
    /\ Handling => \A d \in brings[cur] : <<cur, d>> \in rows
    /\ loop \in {"act", "arm"} /\ cur \in past.left => work.sigs = {} \/ work.exited
    /\ \A i \in DOMAIN past.armed : past.armed[i][1] \notin past.left

BarInv == BarTypes /\ Bounds /\ Covered /\ ArmedOnce /\ Settled

----------------------------------------------------------------------------
LEMMA BarFirst == Init => BarInv
<1> SUFFICES ASSUME Init PROVE BarInv
  OBVIOUS
<1> USE BarNumbers
<1>1. PICK part \in Parts : BarInit(part = "loop")
  BY DEF Init
<1>2. /\ phase \in 0..Period - 1 /\ formed \in {0, 1} /\ brings \in [Bars -> {{}}]
      /\ barEvt = TRUE /\ loop \in {"top", "off"} /\ due = 0 /\ nap = 0
      /\ snap = 0 /\ cur = 0 /\ upto = 0 /\ last = 0
      /\ rows = {} /\ work = Idle /\ trade = NoTrade /\ orphan = "no"
      /\ past = [armed |-> <<>>, left |-> {}, swept |-> {}, counted |-> <<>>, passed |-> {}, first |-> 0]
      /\ early = FALSE /\ missed = 0 /\ failed = 0 /\ kills = 0
      /\ (loop # "off" => formed = 1)
  BY <1>1 DEF BarInit, None
<1>3. past.counted = <<>> /\ past.armed = <<>> /\ past.left = {} /\ past.passed = {}
  BY <1>2
<1>4. DOMAIN past.counted = {} /\ DOMAIN past.armed = {}
  BY <1>3
<1>5. trade.st = "none" /\ ~Handling /\ ~Filled /\ ~Executed
  BY <1>2 DEF NoTrade, Handling, Filled, Executed
<1>6. BarTypes
  <2>1. WorkType /\ FlagType
    BY <1>2 DEF WorkType, FlagType, Idle
  <2>2. TradeType
    BY <1>2 DEF TradeType, NoTrade, Sides, States
  <2>3. PastType
    BY <1>2 DEF PastType
  <2>4. ClockType
    BY <1>2 DEF ClockType
  <2> QED
    BY <1>2, <2>1, <2>2, <2>3, <2>4 DEF BarTypes, TurnType, WoeType, OrphanType
<1>7. Bounds
  BY <1>2, <1>5 DEF Bounds
<1>8. Covered /\ ArmedOnce /\ Settled
  BY <1>2, <1>3, <1>4, <1>5 DEF Covered, ArmedOnce, Settled
<1> QED
  BY <1>6, <1>7, <1>8 DEF BarInv

\* What the engine has done stays as it is while time passes and the loop looks
\* for bars; a bar that has closed brings what it brought.
LEMMA EngineRests ==
  ASSUME BarInv, UNCHANGED <<last, rows, trade, past, early>>, formed <= formed', formed' \in Int,
         \A b \in Bars : b <= formed => brings'[b] = brings[b],
         Handling' => loop' = loop /\ cur' = cur /\ work' = work,
         failed' = 0 /\ kills' = 0 => failed = 0 /\ kills = 0 /\ (Handling => Handling'), failed' = 0 => failed = 0
  PROVE  Covered' /\ ArmedOnce' /\ Settled'
<1>0. BarTypes /\ Bounds /\ Covered /\ ArmedOnce /\ Settled
  BY DEF BarInv
<1>1. (loop' \in {"act", "arm"} => Handling') /\ (loop' = "act" => Handling') /\ (Handling' => Handling)
  BY DEF Handling
<1>2. /\ \A b : Heeded(b)' <=> Heeded(b)
      /\ (Filled' <=> Filled) /\ (Executed' <=> Executed)
  BY DEF Counted, Heeded, Filled, Executed
<1>3. Covered'
  BY <1>0, <1>1, <1>2 DEF Covered
<1>4. formed \in Int /\ past.left \subseteq Bars /\ past.armed \in Seq(Bars \X Sides) /\ cur \in Int
  BY <1>0, BarNumbers DEF BarTypes, ClockType, TurnType, PastType
<1>5. \A i \in DOMAIN past.armed : past.armed[i][1] \in Int
  <2>1. \A i \in DOMAIN past.armed : past.armed[i] \in Bars \X Sides
    BY <1>4
  <2> QED
    BY <2>1, BarNumbers
<1>6. ArmedOnce'
  <2>1. \A i \in DOMAIN past.armed : past.armed[i] \in rows /\ past.armed[i][1] <= formed'
    BY <1>0, <1>4, <1>5 DEF ArmedOnce
  <2>2. loop' \in {"act", "arm"} => \A d \in work'.sigs : \A i \in DOMAIN past.armed : past.armed[i] # <<cur', d>>
    BY <1>0, <1>1 DEF ArmedOnce
  <2>3. Handling' => \A d \in work'.sigs : <<cur', d>> \in rows
    BY <1>0, <1>1 DEF ArmedOnce
  <2>4. loop' = "act" /\ work'.todo = "close" => trade.st = "holding" /\ cur' > trade.fill /\ work'.exited
    BY <1>0, <1>1, Zenon DEF ArmedOnce
  <2> QED
    BY <1>0, <1>2, <2>1, <2>2, <2>3, <2>4 DEF ArmedOnce
<1>7. Settled'
  <2>1. Handling => cur \in Bars /\ cur <= formed
    BY <1>0, BarNumbers DEF Bounds, BarTypes, TurnType, ClockType
  <2>2. \A b \in past.left : b \in Bars /\ b \in Int
    BY <1>4, BarNumbers
  <2> QED
    BY <1>0, <1>1, <1>4, <2>1, <2>2 DEF Settled
<1> QED
  BY <1>3, <1>6, <1>7

\* Time passes, a bar closes, the stream comes back.
LEMMA ClockKeeps == BarInv /\ (Tick \/ Close \/ Reconnected) => BarInv'
<1> SUFFICES ASSUME BarInv, Tick \/ Close \/ Reconnected PROVE BarInv'
  OBVIOUS
<1>0. BarTypes /\ Bounds
  BY DEF BarInv
<1>1. UNCHANGED <<loop, snap, cur, upto, last, rows, work, trade, orphan, past, early, failed, kills>>
  BY DEF Tick, Close, Reconnected, engVars, loopVars, clockVars, badVars
<1>2. /\ phase \in Int /\ formed \in Int /\ due \in 0..Period + Delay /\ nap \in 0..Cap /\ missed \in 0..MaxWoes
      /\ failed \in 0..MaxWoes /\ kills \in 0..MaxWoes /\ brings \in [Bars -> SUBSET Sides] /\ loop # "off"
      /\ phase \in 0..Period - 1 /\ formed \in 0..MaxBars
  BY <1>0, BarNumbers DEF BarTypes, ClockType, TurnType, WoeType, Tick, Close, Reconnected, MayPass
<1>3. due' \in 0..Period + Delay /\ nap' \in 0..Cap
  BY <1>2, BarNumbers DEF Tick, Close, Reconnected, Left, loopVars
<1>4. /\ formed' \in 0..MaxBars /\ formed <= formed' /\ phase' \in 0..Period - 1
      /\ ((formed' = formed /\ brings' = brings)
          \/ \E s \in SUBSET Sides : brings' = [brings EXCEPT ![formed + 1] = s])
  <2>1. CASE Tick
    BY <2>1, <1>2, BarNumbers DEF Tick
  <2>2. CASE Close
    <3>1. /\ phase' = 0 /\ formed' = formed + 1 /\ formed < MaxBars
          /\ \E s \in SUBSET Sides : brings' = [brings EXCEPT ![formed + 1] = s]
      BY <2>2 DEF Close
    <3>2. formed' \in 0..MaxBars /\ formed <= formed' /\ phase' \in 0..Period - 1
      BY <1>2, <3>1, BarNumbers
    <3> QED
      BY <3>1, <3>2
  <2>3. CASE Reconnected
    BY <2>3, <1>2, BarNumbers DEF Reconnected, clockVars
  <2> QED
    BY <2>1, <2>2, <2>3
<1>5. brings' \in [Bars -> SUBSET Sides] /\ \A b \in Bars : b <= formed => brings'[b] = brings[b]
  <2>1. CASE brings' = brings
    BY <2>1, <1>2
  <2>2. CASE \E s \in SUBSET Sides : brings' = [brings EXCEPT ![formed + 1] = s]
    <3>1. PICK s \in SUBSET Sides : brings' = [brings EXCEPT ![formed + 1] = s]
      BY <2>2
    <3>2. \A b \in Bars : b <= formed => b # formed + 1
      BY <1>2, BarNumbers
    <3> QED
      BY <1>2, <3>1, <3>2
  <2> QED
    BY <1>4, <2>1, <2>2
<1>6. missed' \in 0..MaxWoes /\ missed' + failed + kills <= MaxWoes
  BY <1>0, <1>2, BarNumbers DEF Bounds, Tick, Close, Reconnected, Woe, badVars
<1>7. barEvt' \in BOOLEAN
  <2>1. Tick => barEvt' = barEvt
    BY DEF Tick
  <2>2. Close => barEvt' = TRUE \/ barEvt' = barEvt
    BY DEF Close
  <2>3. Reconnected => barEvt' = TRUE
    BY DEF Reconnected
  <2> QED
    BY <1>0, <2>1, <2>2, <2>3, Zenon DEF BarTypes, FlagType
<1>8. BarTypes'
  <2>1. FlagType'
    BY <1>0, <1>1, <1>7, Zenon DEF BarTypes, FlagType
  <2>2. WorkType' /\ TradeType' /\ PastType' /\ OrphanType'
    BY <1>0, <1>1 DEF BarTypes, WorkType, TradeType, PastType, OrphanType
  <2> QED
    BY <1>0, <1>1, <1>3, <1>4, <1>5, <1>6, <2>1, <2>2 DEF BarTypes, ClockType, TurnType, WoeType
<1>9. Handling' <=> Handling
  BY <1>1 DEF Handling
<1>10. Bounds'
  <2>1. snap \in Int /\ last \in Int /\ upto \in Int /\ formed' \in Int
    BY <1>0, <1>4, BarNumbers DEF BarTypes, TurnType
  <2> QED
    BY <1>0, <1>1, <1>2, <1>4, <1>6, <1>9, <2>1 DEF Bounds
<1>11. Covered' /\ ArmedOnce' /\ Settled'
  BY <1>1, <1>4, <1>5, <1>9, BarNumbers, EngineRests
<1> QED
  BY <1>8, <1>10, <1>11 DEF BarInv

\* The loop waits, asks for the bars and takes what it has to handle.
LEMMA LoopKeeps == BarInv /\ (Top \/ Noticed \/ TimedOut \/ Fetch \/ Stamp \/ TurnEnds) => BarInv'
<1> SUFFICES ASSUME BarInv, Top \/ Noticed \/ TimedOut \/ Fetch \/ Stamp \/ TurnEnds PROVE BarInv'
  OBVIOUS
<1>0. BarTypes /\ Bounds
  BY DEF BarInv
<1>1. UNCHANGED <<phase, formed, brings, last, rows, work, trade, orphan, past, early, missed, failed, kills>>
  BY DEF Top, Noticed, TimedOut, Fetch, Stamp, TurnEnds, engVars, clockVars, badVars
<1>2. /\ phase \in 0..Period - 1 /\ formed \in 0..MaxBars /\ due \in 0..Period + Delay /\ nap \in 0..Cap
      /\ snap \in 0..MaxBars /\ cur \in 0..MaxBars + 1 /\ upto \in 0..MaxBars /\ last \in 0..MaxBars
      /\ snap <= formed /\ last <= formed /\ upto <= formed
  BY <1>0 DEF BarTypes, ClockType, TurnType, Bounds
<1>3. loop # "off" /\ formed >= 1
  BY <1>0 DEF Bounds, Top, Noticed, TimedOut, Fetch, Stamp, TurnEnds
<1>4. ~Handling /\ ~Handling'
  BY DEF Handling, Top, Noticed, TimedOut, Fetch, Stamp, TurnEnds, Start
<1>5. FlagType'
  <2>1. barEvt' \in {barEvt, FALSE}
    BY DEF Top, Noticed, TimedOut, Fetch, Stamp, TurnEnds, Start, Clear
  <2>2. barEvt' = barEvt \/ barEvt' = FALSE
    BY <2>1
  <2> QED
    BY <1>0, <1>1, <2>2, Zenon DEF BarTypes, FlagType
<1>6. WorkType' /\ TradeType' /\ OrphanType' /\ PastType' /\ ClockType' /\ WoeType' /\ rows' \subseteq Bars \X Sides
  BY <1>0, <1>1 DEF BarTypes, WorkType, TradeType, OrphanType, PastType, ClockType, WoeType
<1>7. TurnType' /\ Bounds'
  <2>1. CASE Top
    <3>1. ToNext \in 0..Period + Delay /\ Lesser(ToNext, Cap) \in 0..Cap
      BY <1>2, BarNumbers DEF ToNext, Lesser
    <3>2. loop' = "sleep" /\ due' = ToNext /\ nap' = Lesser(ToNext, Cap) /\ snap' = snap /\ cur' = cur /\ upto' = upto
      BY <2>1 DEF Top
    <3> QED
      BY <1>0, <1>1, <1>2, <1>3, <1>4, <3>1, <3>2 DEF TurnType, Bounds
  <2>2. CASE Noticed
    <3>1. loop' = "fetch" /\ due' = 0 /\ nap' = 0 /\ snap' = snap /\ cur' = cur /\ upto' = upto
      BY <2>2 DEF Noticed, Start
    <3> QED
      BY <1>0, <1>1, <1>2, <1>3, <1>4, <3>1, BarNumbers DEF TurnType, Bounds
  <2>3. CASE TimedOut
    <3>1. loop' \in {"fetch", "top"} /\ due' \in {0, due} /\ nap' = nap /\ snap' = snap /\ cur' = cur /\ upto' = upto
      BY <2>3 DEF TimedOut, Start
    <3> QED
      BY <1>0, <1>1, <1>2, <1>3, <1>4, <3>1, BarNumbers DEF TurnType, Bounds
  <2>4. CASE Fetch
    <3>1. loop' = "stamp" /\ snap' = formed /\ due' = due /\ nap' = nap /\ cur' = cur /\ upto' = upto
      BY <2>4 DEF Fetch
    <3> QED
      BY <1>0, <1>1, <1>2, <1>3, <1>4, <3>1, BarNumbers DEF TurnType, Bounds
  <2>5. CASE Stamp
    <3>1. loop' = "bars" /\ cur' = First(Answered) /\ upto' = Answered /\ due' = due /\ nap' = nap /\ snap' = snap
      BY <2>5 DEF Stamp
    <3>2. last <= snap
      BY <1>0, <2>5 DEF Bounds, Stamp
    <3>3. Answered \in 1..formed /\ last <= Answered
      BY <1>2, <1>3, <3>2, BarNumbers DEF Answered, Lesser
    <3>4. First(Answered) \in 1..Answered + 1 /\ last < First(Answered) /\ (last # None => First(Answered) = last + 1)
      BY <1>2, <3>3, BarNumbers DEF First, None
    <3> QED
      BY <1>0, <1>1, <1>2, <1>3, <1>4, <3>1, <3>3, <3>4, BarNumbers DEF TurnType, Bounds
  <2>6. CASE TurnEnds
    <3>1. loop' = "top" /\ due' = 0 /\ nap' = 0 /\ snap' = 0 /\ cur' = 0 /\ upto' = 0
      BY <2>6 DEF TurnEnds, Forget
    <3> QED
      BY <1>0, <1>1, <1>2, <1>3, <1>4, <3>1, BarNumbers DEF TurnType, Bounds
  <2> QED
    BY <2>1, <2>2, <2>3, <2>4, <2>5, <2>6
<1>8. Covered' /\ ArmedOnce' /\ Settled'
  BY <1>1, <1>2, <1>4, BarNumbers, EngineRests
<1> QED
  BY <1>5, <1>6, <1>7, <1>8 DEF BarInv, BarTypes

\* A turn that fails and a kill forget what the loop was at.
LEMMA GivenUp == BarInv /\ (TurnFails \/ Kill) => BarInv'
<1> SUFFICES ASSUME BarInv, TurnFails \/ Kill PROVE BarInv'
  OBVIOUS
<1>0. BarTypes /\ Bounds
  BY DEF BarInv
<1>1. /\ UNCHANGED <<phase, formed, brings, last, rows, trade, orphan, past, early, missed>>
      /\ loop' = "top" /\ due' = 0 /\ nap' = 0 /\ snap' = 0 /\ cur' = 0 /\ upto' = 0 /\ work' = Idle
      /\ missed + failed + kills < MaxWoes
      /\ (failed' = failed + 1 /\ kills' = kills) \/ (failed' = failed /\ kills' = kills + 1)
      /\ loop # "off"
  BY DEF TurnFails, Kill, GiveUp, Forget, clockVars, Woe, Turn, Handling
<1>2. /\ formed \in 0..MaxBars /\ last \in 0..MaxBars /\ last <= formed /\ formed >= 1
      /\ missed \in 0..MaxWoes /\ failed \in 0..MaxWoes /\ kills \in 0..MaxWoes
  BY <1>0, <1>1 DEF BarTypes, ClockType, TurnType, Bounds, WoeType
<1>3. ~Handling'
  BY <1>1 DEF Handling
<1>4. FlagType'
  <2>1. barEvt' = barEvt \/ barEvt' = TRUE
    BY DEF TurnFails, Kill
  <2> QED
    BY <1>0, <1>1, <2>1, Zenon DEF BarTypes, FlagType
<1>5. WorkType'
  BY <1>1 DEF WorkType, Idle
<1>6. TradeType' /\ OrphanType' /\ PastType' /\ ClockType' /\ rows' \subseteq Bars \X Sides
  BY <1>0, <1>1 DEF BarTypes, TradeType, OrphanType, PastType, ClockType
<1>7. WoeType' /\ Bounds' /\ TurnType'
  BY <1>1, <1>2, <1>3, BarNumbers DEF WoeType, Bounds, TurnType
<1>8. Covered' /\ ArmedOnce' /\ Settled'
  BY <1>1, <1>2, <1>3, BarNumbers, EngineRests
<1> QED
  BY <1>4, <1>5, <1>6, <1>7, <1>8 DEF BarInv, BarTypes

\* Between the bars a trade fills, is found filled, loses its stop, goes or comes.
Between == Breakout \/ StopLost \/ Recovered \/ Adopt \/ Cancelled \/ Flat

LEMMA TradeKeeps == BarInv /\ Between => BarInv'
<1> SUFFICES ASSUME BarInv, Between PROVE BarInv'
  OBVIOUS
<1>0. BarTypes /\ Bounds /\ Covered /\ ArmedOnce /\ Settled
  BY DEF BarInv
<1>1. /\ UNCHANGED <<phase, formed, brings, barEvt, loop, due, nap, snap, cur, upto, last, rows, work, past, early, missed, kills>>
      /\ ~Handling /\ loop # "off"
      /\ failed' = failed \/ (missed + failed + kills < MaxWoes /\ failed' = failed + 1)
  BY DEF Between, Breakout, StopLost, Recovered, Adopt, Cancelled, Flat, Away, clockVars, loopVars, Unlocked, Woe
<1>2. /\ formed \in 0..MaxBars /\ formed > 0 /\ last \in 0..MaxBars /\ last <= formed
      /\ missed \in 0..MaxWoes /\ failed \in 0..MaxWoes /\ kills \in 0..MaxWoes
      /\ trade \in [st : States, dir : Sides, exp : 0..MaxBars + Valid,
                    fill : 0..MaxBars, stop : 0..MaxBetter, sent : 0..MaxBetter]
      /\ orphan \in Sides \cup {"no"}
  BY <1>0, <1>1, BarNumbers DEF BarTypes, ClockType, TurnType, TradeType, OrphanType, Bounds, WoeType
<1>3. ~Handling' /\ loop # "act"
  BY <1>1 DEF Handling
\* What becomes of the trade: it ends or is another, stays, waits or is as new
\* as its last bar, or is filled as before.
<1>4. /\ TradeType' /\ OrphanType'
      /\ \/ trade'.st \in {"none", "adopted", "closing"}
         \/ trade' = trade
         \/ trade.st = "pending" /\ trade'.st = "recovery" /\ trade'.fill = 0 /\ failed' = failed + 1
         \/ /\ trade.st \in {"pending", "recovery"} /\ trade'.st \in {"holding", "exposed", "pending", "recovery"}
            /\ trade'.fill = formed /\ (trade'.st = "holding" \/ failed' = failed + 1)
         \/ /\ Filled /\ trade'.st \in {"holding", "exposed"} /\ trade'.fill = trade.fill
            /\ (trade'.st = "holding" \/ failed' = failed + 1)
  <2>1. ASSUME NEW st \in States, NEW at \in 0..MaxBars, Turns(st, at), orphan' = orphan
        PROVE  TradeType' /\ OrphanType' /\ trade'.st = st /\ trade'.fill = at
    BY <1>2, <2>1 DEF Turns, TradeType, OrphanType
  <2>2. /\ {"holding", "exposed", "pending", "recovery", "closing"} \subseteq States
        /\ 0 \in 0..MaxBars /\ trade.fill \in 0..MaxBars /\ trade.dir \in Sides
    BY <1>2, BarNumbers DEF States
  <2>3. ASSUME trade' = NoTrade, orphan' \in Sides \cup {"no"}
        PROVE  TradeType' /\ OrphanType' /\ trade'.st = "none"
    BY <2>3, BarNumbers DEF NoTrade, Sides, States, TradeType, OrphanType
  <2>4. CASE Breakout
    <3>1. /\ trade.st = "pending" /\ orphan' = orphan
          /\ \/ Turns("holding", formed)
             \/ failed' = failed + 1 /\ \E st \in {"exposed", "pending", "recovery"} : Turns(st, formed)
             \/ failed' = failed + 1 /\ Turns("recovery", 0)
      BY <2>4 DEF Breakout
    <3>2. CASE Turns("holding", formed)
      BY <3>1, <3>2, <2>1, <2>2, <1>2
    <3>3. CASE failed' = failed + 1 /\ \E st \in {"exposed", "pending", "recovery"} : Turns(st, formed)
      BY <3>1, <3>3, <2>1, <2>2, <1>2
    <3>4. CASE failed' = failed + 1 /\ Turns("recovery", 0)
      BY <3>1, <3>4, <2>1, <2>2
    <3> QED
      BY <3>1, <3>2, <3>3, <3>4
  <2>5. CASE StopLost
    <3>1. trade.st = "holding" /\ Turns("exposed", trade.fill) /\ orphan' = orphan /\ failed' = failed + 1
      BY <2>5 DEF StopLost
    <3> QED
      BY <3>1, <2>1, <2>2 DEF Filled
  <2>6. CASE Recovered
    <3>1. /\ orphan' = orphan
          /\ \/ Executed /\ Turns("holding", trade.fill)
             \/ Executed /\ Turns("holding", formed)
             \/ trade.st = "exposed" /\ Turns("holding", trade.fill)
             \/ Turns("closing", trade.fill)
      BY <2>6 DEF Recovered
    <3>2. CASE Turns("closing", trade.fill)
      BY <3>1, <3>2, <2>1, <2>2
    <3>3. CASE Executed /\ Turns("holding", formed)
      BY <3>1, <3>3, <2>1, <2>2, <1>2 DEF Executed
    <3>4. CASE (Executed \/ trade.st = "exposed") /\ Turns("holding", trade.fill)
      BY <3>1, <3>4, <2>1, <2>2 DEF Filled
    <3> QED
      BY <3>1, <3>2, <3>3, <3>4
  <2>7. CASE Adopt
    <3>1. /\ orphan # "no" /\ orphan' = "no"
          /\ \E st \in {"adopted", "closing"} : trade' = [NoTrade EXCEPT !.st = st, !.dir = orphan, !.fill = formed]
      BY <2>7 DEF Adopt
    <3>2. PICK st \in {"adopted", "closing"} : trade' = [NoTrade EXCEPT !.st = st, !.dir = orphan, !.fill = formed]
      BY <3>1
    <3>3. trade' = [st |-> st, dir |-> orphan, exp |-> 0, fill |-> formed, stop |-> 0, sent |-> 0]
      BY <3>2 DEF NoTrade
    <3>4. st \in States /\ orphan \in Sides
      BY <1>2, <3>1, <3>2 DEF States, OrphanType
    <3>5. 0 \in 0..MaxBars + Valid /\ 0 \in 0..MaxBetter /\ formed \in 0..MaxBars
      BY <1>2, BarNumbers
    <3>6. TradeType'
      BY <3>3, <3>4, <3>5 DEF TradeType
    <3> QED
      BY <3>1, <3>6 DEF OrphanType
  <2>8. CASE Cancelled
    <3>1. trade' = NoTrade /\ orphan' = IF Executed THEN trade.dir ELSE orphan
      BY <2>8 DEF Cancelled, Dropped
    <3> QED
      BY <1>2, <2>2, <2>3, <3>1
  <2>9. CASE Flat
    <3>1. (trade' = NoTrade /\ orphan' = orphan) \/ (orphan' = "no" /\ trade' = trade)
      BY <2>9 DEF Flat
    <3>2. CASE trade' = NoTrade /\ orphan' = orphan
      BY <1>2, <2>3, <3>2
    <3>3. CASE orphan' = "no" /\ trade' = trade
      BY <1>2, <3>3 DEF TradeType, OrphanType
    <3> QED
      BY <3>1, <3>2, <3>3
  <2> QED
    BY <2>4, <2>5, <2>6, <2>7, <2>8, <2>9 DEF Between
<1>5. BarTypes'
  <2>1. failed' \in 0..MaxWoes
    BY <1>1, <1>2, BarNumbers
  <2>2. WoeType'
    BY <1>1, <1>2, <2>1 DEF WoeType
  <2>3. ClockType' /\ TurnType' /\ FlagType'
    BY <1>0, <1>1 DEF BarTypes, ClockType, TurnType, FlagType
  <2>4. WorkType' /\ PastType'
    BY <1>0, <1>1 DEF BarTypes, WorkType, PastType
  <2>5. (rows \subseteq Bars \X Sides)'
    BY <1>0, <1>1 DEF BarTypes
  <2> QED
    BY <1>4, <2>2, <2>3, <2>4, <2>5 DEF BarTypes
<1>6. Bounds'
  BY <1>0, <1>1, <1>2, <1>3, BarNumbers DEF Bounds
<1>7. \A b : Heeded(b)' <=> Heeded(b)
  BY <1>1 DEF Counted, Heeded
<1>8. failed' = 0 => failed = 0 /\ failed' # failed + 1
  BY <1>1, <1>2, BarNumbers
<1>9. Covered' /\ (Filled' => \A i \in DOMAIN past.armed : past.armed[i][1] <= trade'.fill)
  <2>0. /\ failed = 0 /\ kills = 0 =>
             /\ \A i, j \in DOMAIN past.counted : i < j => past.counted[i] < past.counted[j]
             /\ \A i \in DOMAIN past.counted : past.counted[i] <= last \/ (Handling /\ past.counted[i] = cur)
        /\ failed = 0 => past.passed = {}
        /\ \A i \in DOMAIN past.armed : past.armed[i][1] <= formed
    BY <1>0 DEF Covered, ArmedOnce
  <2>1. CASE trade'.st \in {"none", "adopted", "closing"}
    <3>1. ~Filled' /\ ~Executed'
      BY <2>1 DEF Filled, Executed
    <3> QED
      BY <1>1, <1>3, <1>8, <2>0, <2>1, <3>1 DEF Covered
  <2>2. CASE trade' = trade
    <3>1. (Filled' <=> Filled) /\ (Executed' <=> Executed)
      BY <2>2 DEF Filled, Executed
    <3> QED
      BY <1>0, <1>1, <1>3, <1>7, <1>8, <2>2, <3>1 DEF Covered, ArmedOnce
  <2>3. CASE trade.st = "pending" /\ trade'.st = "recovery" /\ trade'.fill = 0 /\ failed' = failed + 1
    <3>1. ~Filled' /\ ~Executed'
      BY <2>3 DEF Filled, Executed
    <3>2. past.counted = <<>>
      BY <1>0, <2>3 DEF Covered
    <3> QED
      BY <1>1, <1>3, <1>8, <2>0, <2>3, <3>1, <3>2 DEF Covered
  <2>4. CASE /\ trade.st \in {"pending", "recovery"} /\ trade'.st \in {"holding", "exposed", "pending", "recovery"}
             /\ trade'.fill = formed /\ (trade'.st = "holding" \/ failed' = failed + 1)
    <3>1. past.counted = <<>> /\ DOMAIN past.counted = {}
      BY <1>0, <2>4 DEF Covered
    <3>2. \A b \in Bars : ~(b > formed /\ b <= last)
      BY <1>2, BarNumbers
    <3>3. trade'.st = "holding" => ~Executed'
      BY DEF Executed
    <3> QED
      BY <1>1, <1>3, <1>8, <2>0, <2>4, <3>1, <3>2, <3>3 DEF Covered
  <2>5. CASE /\ Filled /\ trade'.st \in {"holding", "exposed"} /\ trade'.fill = trade.fill
             /\ (trade'.st = "holding" \/ failed' = failed + 1)
    <3>1. ~Executed'
      BY <2>5 DEF Executed
    <3> QED
      BY <1>0, <1>1, <1>3, <1>7, <1>8, <2>0, <2>5, <3>1 DEF Covered, ArmedOnce
  <2> QED
    BY <1>4, <2>1, <2>2, <2>3, <2>4, <2>5
<1>10. ArmedOnce'
  BY <1>0, <1>1, <1>3, <1>9 DEF ArmedOnce, Handling
<1>11. Settled'
  BY <1>0, <1>1, <1>3 DEF Settled, Handling
<1> QED
  BY <1>5, <1>6, <1>9, <1>10, <1>11 DEF BarInv

\* The bar is marked as handled.
LEMMA MarkKeeps == BarInv /\ Marked => BarInv'
<1> SUFFICES ASSUME BarInv, Marked PROVE BarInv'
  OBVIOUS
<1>0. BarTypes /\ Bounds /\ Covered /\ ArmedOnce /\ Settled
  BY DEF BarInv
<1>1. /\ loop = "mark" /\ loop' = "bars" /\ last' = cur /\ cur' = cur + 1 /\ work' = Idle
      /\ past' = [past EXCEPT !.first = IF last = None THEN cur ELSE past.first]
      /\ UNCHANGED <<phase, formed, brings, barEvt, due, nap, snap, upto, rows, trade, orphan, early, missed, failed, kills>>
  BY DEF Marked, clockVars, badVars
<1>2. Handling /\ ~Handling'
  BY <1>1 DEF Handling
<1>3. /\ past \in [armed : Seq(Bars \X Sides), left : SUBSET Bars, swept : SUBSET Bars, counted : Seq(Bars), passed : SUBSET Bars, first : 0..MaxBars]
      /\ formed \in 0..MaxBars /\ last \in 0..MaxBars /\ cur \in 0..MaxBars + 1 /\ upto \in 0..MaxBars /\ snap \in 0..MaxBars
      /\ 1 <= cur /\ last < cur /\ cur <= upto /\ upto <= formed /\ (last # None => cur = last + 1)
  BY <1>0, <1>2 DEF BarTypes, PastType, ClockType, TurnType, Bounds
<1>4. cur \in Bars
  BY <1>3, BarNumbers
<1>5. /\ past' \in [armed : Seq(Bars \X Sides), left : SUBSET Bars, swept : SUBSET Bars, counted : Seq(Bars), passed : SUBSET Bars, first : 0..MaxBars]
      /\ past'.armed = past.armed /\ past'.left = past.left /\ past'.counted = past.counted
      /\ past'.passed = past.passed /\ past'.first = IF last = None THEN cur ELSE past.first
  <2>1. PICK f \in 0..MaxBars : f = IF last = None THEN cur ELSE past.first
    <3>1. past.first \in 0..MaxBars /\ cur \in 0..MaxBars
      BY <1>3, <1>4, BarNumbers
    <3> QED
      BY <3>1
  <2>2. past' = [past EXCEPT !.first = f]
    BY <1>1, <2>1
  <2> QED
    BY <1>3, <2>1, <2>2
<1>6. BarTypes'
  <2>1. WorkType'
    BY <1>1 DEF WorkType, Idle
  <2>2. TurnType'
    <3>1. cur \in 0..MaxBars /\ cur + 1 \in 0..MaxBars + 1
      BY <1>4, BarNumbers
    <3> QED
      BY <1>0, <1>1, <3>1 DEF BarTypes, TurnType
  <2> QED
    BY <1>0, <1>1, <1>5, <2>1, <2>2 DEF BarTypes, ClockType, FlagType, TradeType, OrphanType, PastType, WoeType
<1>7. Bounds'
  <2>1. missed' + failed' + kills' <= MaxWoes /\ formed' >= 1 /\ snap' <= formed' /\ upto' <= formed'
    BY <1>0, <1>1, <1>2 DEF Bounds, Handling
  <2>2. last' <= formed' /\ 1 <= cur' /\ last' < cur' /\ cur' <= upto' + 1 /\ cur' = last' + 1
    <3>1. cur' = cur + 1 /\ last' = cur /\ upto' = upto /\ formed' = formed
      BY <1>1
    <3>2. cur \in Int /\ upto \in Int /\ formed \in Int /\ 1 <= cur /\ cur <= upto /\ upto <= formed
      BY <1>3, BarNumbers
    <3> QED
      BY <3>1, <3>2
  <2> QED
    BY <1>1, <1>2, <2>1, <2>2 DEF Bounds
<1>8. (\A b : Heeded(b)' <=> Heeded(b)) /\ (Filled' <=> Filled) /\ (Executed' <=> Executed)
  BY <1>1, <1>5 DEF Counted, Heeded, Filled, Executed
<1>9. Covered'
  <2>1. ASSUME Filled, NEW b \in Bars, b > trade.fill, b >= past'.first, b <= cur
        PROVE  Heeded(b)
    <3>1. b = cur \/ (last # None /\ b <= last /\ past'.first = past.first)
      BY <2>1, <1>3, <1>5, BarNumbers DEF None
    <3> QED
      BY <2>1, <3>1, <1>0, <1>2 DEF Covered
  <2>2. failed = 0 /\ kills = 0 => \A i \in DOMAIN past.counted : past.counted[i] <= cur
    <3>1. \A i \in DOMAIN past.counted : past.counted[i] \in Int
      BY <1>3, BarNumbers
    <3> QED
      BY <1>0, <1>3, <3>1 DEF Covered
  <2> QED
    BY <1>0, <1>1, <1>2, <1>5, <1>8, <2>1, <2>2 DEF Covered
<1>10. ArmedOnce' /\ Settled'
  BY <1>0, <1>1, <1>2, <1>5, <1>8 DEF ArmedOnce, Settled
<1> QED
  BY <1>6, <1>7, <1>9, <1>10 DEF BarInv

\* The exit is sent; the stop is moved, or not, or the position is closed.
LEMMA SendKeeps == BarInv /\ (CloseSent \/ MoveSent) => BarInv'
<1> SUFFICES ASSUME BarInv, CloseSent \/ MoveSent PROVE BarInv'
  OBVIOUS
<1>0. BarTypes /\ Bounds /\ Covered /\ ArmedOnce /\ Settled
  BY DEF BarInv
<1>1. /\ loop = "act" /\ loop' = "arm"
      /\ UNCHANGED <<phase, formed, brings, barEvt, due, nap, snap, cur, upto, last, rows, work, orphan, early, missed, kills>>
      /\ failed' = failed \/ (missed + failed + kills < MaxWoes /\ failed' = failed + 1)
  BY DEF CloseSent, MoveSent, clockVars, badVars, Woe
<1>2. Handling /\ Handling'
  BY <1>1 DEF Handling
<1>3. /\ cur \in Bars /\ cur <= formed /\ formed \in Int /\ missed \in 0..MaxWoes /\ failed \in 0..MaxWoes /\ kills \in 0..MaxWoes
  BY <1>0, <1>2, BarNumbers DEF BarTypes, TurnType, ClockType, Bounds, WoeType
<1>4. trade' = NoTrade \/ trade' = [trade EXCEPT !.st = "closing"] \/ trade' = [trade EXCEPT !.sent = trade.stop] \/ trade' = trade
  BY DEF CloseSent, MoveSent
<1>5. TradeType' /\ (trade'.st \in {"none", "closing"} \/ (trade'.st = trade.st /\ trade'.fill = trade.fill))
  <2>1. CASE trade' = NoTrade
    BY <2>1, BarNumbers DEF NoTrade, Sides, States, TradeType
  <2>2. CASE trade' # NoTrade
    BY <2>2, <1>0, <1>4 DEF BarTypes, TradeType, States
  <2> QED
    BY <2>1, <2>2
<1>6. /\ PastType' /\ past'.armed = past.armed /\ past'.counted = past.counted /\ past'.first = past.first
      /\ past'.passed = past.passed
      /\ past'.left = past.left \/ (past'.left = past.left \cup {cur} /\ work.todo = "close")
  <2>1. CASE past' = past
    BY <2>1, <1>0 DEF BarTypes, PastType
  <2>2. CASE past' = [past EXCEPT !.left = past.left \cup {cur}] /\ work.todo = "close"
    BY <2>2, <1>0, <1>3 DEF BarTypes, PastType
  <2>3. CASE past' = [past EXCEPT !.swept = past.swept \cup {cur}]
    BY <2>3, <1>0, <1>3 DEF BarTypes, PastType
  <2> QED
    BY <2>1, <2>2, <2>3 DEF CloseSent, MoveSent
<1>7. BarTypes'
  BY <1>0, <1>1, <1>3, <1>5, <1>6, BarNumbers DEF BarTypes, ClockType, TurnType, FlagType, WorkType, OrphanType, WoeType
<1>8. Bounds'
  BY <1>0, <1>1, <1>2, <1>3, BarNumbers DEF Bounds
<1>9. (\A b : Heeded(b)' <=> Heeded(b)) /\ (Filled' => Filled /\ trade'.fill = trade.fill)
      /\ (Executed' => Executed) /\ (trade'.st = trade.st \/ trade'.st \in {"none", "closing"})
      /\ (failed' = 0 => failed = 0)
  <2>1. failed' = 0 => failed = 0
    BY <1>1, <1>3, BarNumbers
  <2> QED
    BY <1>5, <1>6, <2>1 DEF Counted, Heeded, Filled, Executed
<1>10. Covered'
  BY <1>0, <1>1, <1>2, <1>3, <1>6, <1>9 DEF Covered
<1>11. ArmedOnce'
  BY <1>0, <1>1, <1>2, <1>5, <1>6, <1>9 DEF ArmedOnce
<1>12. Settled'
  <2> SUFFICES ASSUME ~early
      PROVE  /\ \A b \in past'.left : b <= formed /\ \A d \in brings[b] : <<b, d>> \in rows
             /\ \A d \in brings[cur] : <<cur, d>> \in rows
             /\ cur \in past'.left => work.sigs = {} \/ work.exited
             /\ \A i \in DOMAIN past.armed : past.armed[i][1] \notin past'.left
    BY <1>1, <1>6 DEF Settled
  <2>1. /\ \A b \in past.left : b <= formed /\ \A d \in brings[b] : <<b, d>> \in rows
        /\ \A d \in brings[cur] : <<cur, d>> \in rows
        /\ cur \in past.left => work.sigs = {} \/ work.exited
        /\ \A i \in DOMAIN past.armed : past.armed[i][1] \notin past.left
    BY <1>0, <1>1, <1>2 DEF Settled
  <2>2. CASE past'.left = past.left
    BY <2>1, <2>2
  <2>3. CASE past'.left = past.left \cup {cur} /\ work.todo = "close"
    <3>1. trade.st = "holding" /\ cur > trade.fill /\ work.exited /\ \A i \in DOMAIN past.armed : past.armed[i][1] <= trade.fill
      BY <2>3, <1>0, <1>1 DEF ArmedOnce, Filled
    <3>2. trade.fill \in Int /\ cur \in Int
      BY <1>0, <1>3, BarNumbers DEF BarTypes, TradeType
    <3>3. ~(cur <= trade.fill)
      BY <3>1, <3>2
    <3>4. \A i \in DOMAIN past.armed : past.armed[i][1] # cur
      BY <3>1, <3>3
    <3> QED
      BY <2>1, <2>3, <1>3, <3>1, <3>4
  <2> QED
    BY <1>6, <2>2, <2>3
<1> QED
  BY <1>7, <1>8, <1>10, <1>11, <1>12 DEF BarInv

\* What a sequence holds with one more at its end.
LEMMA OneMore ==
  ASSUME NEW S, NEW q \in Seq(S), NEW x \in S
  PROVE  /\ Append(q, x) \in Seq(S) /\ DOMAIN q = 1..Len(q) /\ Len(q) \in Nat
         /\ DOMAIN Append(q, x) = 1..Len(q) + 1
         /\ Append(q, x)[Len(q) + 1] = x /\ \A i \in DOMAIN q : Append(q, x)[i] = q[i] /\ q[i] \in S
         /\ \A i \in DOMAIN Append(q, x) : i \in DOMAIN q \/ i = Len(q) + 1
  OBVIOUS

\* A signal is armed, or none.
LEMMA ArmKeeps == BarInv /\ Arm => BarInv'
<1> SUFFICES ASSUME BarInv, Arm PROVE BarInv'
  OBVIOUS
<1>0. BarTypes /\ Bounds /\ Covered /\ ArmedOnce /\ Settled
  BY DEF BarInv
<1>1. /\ loop = "arm" /\ loop' = "mark"
      /\ UNCHANGED <<phase, formed, brings, barEvt, due, nap, snap, cur, upto, last, rows, work, orphan, early, missed, failed, kills>>
  BY DEF Arm, clockVars, badVars
<1>2. Handling /\ Handling'
  BY <1>1 DEF Handling
<1>3. /\ cur \in Bars /\ cur <= formed /\ work.sigs \subseteq Sides
      /\ past.armed \in Seq(Bars \X Sides)
  BY <1>0, <1>2, BarNumbers DEF BarTypes, TurnType, ClockType, Bounds, WorkType, PastType
<1>4. Bounds'
  BY <1>0, <1>1, <1>2 DEF Bounds
<1>5. CASE trade' = trade /\ past' = past
  <2>1. BarTypes'
    BY <1>0, <1>1, <1>5 DEF BarTypes, ClockType, TurnType, FlagType, WorkType, TradeType, OrphanType, PastType, WoeType
  <2>2. (\A b : Heeded(b)' <=> Heeded(b)) /\ (Filled' <=> Filled) /\ (Executed' <=> Executed)
    BY <1>5 DEF Counted, Heeded, Filled, Executed
  <2>3. Covered'
    BY <1>0, <1>1, <1>2, <1>5, <2>2 DEF Covered
  <2>4. ArmedOnce' /\ Settled'
    BY <1>0, <1>1, <1>2, <1>5, <2>2 DEF ArmedOnce, Settled
  <2> QED
    BY <1>4, <2>1, <2>3, <2>4 DEF BarInv
<1>6. ASSUME NEW d \in work.sigs, Free,
             trade' = [NoTrade EXCEPT !.st = "pending", !.dir = d, !.exp = cur + Valid],
             past' = [past EXCEPT !.armed = Append(past.armed, <<cur, d>>), !.counted = <<>>, !.passed = {}]
      PROVE  BarInv'
  <2>1. /\ TradeType' /\ trade'.st = "pending" /\ ~Filled' /\ ~Executed'
    <3>1. trade' = [st |-> "pending", dir |-> d, exp |-> cur + Valid, fill |-> 0, stop |-> 0, sent |-> 0]
      BY <1>6 DEF NoTrade
    <3>2. d \in Sides /\ cur + Valid \in 0..MaxBars + Valid /\ 0 \in 0..MaxBars /\ 0 \in 0..MaxBetter
      BY <1>3, <1>6, BarNumbers
    <3> QED
      BY <3>1, <3>2 DEF TradeType, States, Filled, Executed
  <2>2. <<cur, d>> \in Bars \X Sides
    BY <1>3, <1>6
  <2>3. PICK more \in Seq(Bars \X Sides) : more = Append(past.armed, <<cur, d>>)
    BY <1>3, <2>2, OneMore
  <2>4. PICK n : n = Len(past.armed) + 1
    OBVIOUS
  <2>5. /\ DOMAIN more = 1..n /\ more[n] = <<cur, d>> /\ \A i \in DOMAIN past.armed : more[i] = past.armed[i]
        /\ \A i \in DOMAIN more : i \in DOMAIN past.armed \/ i = n
    BY <1>3, <2>2, <2>3, <2>4, OneMore
  <2>6. PastType' /\ past'.armed = more /\ past'.counted = <<>> /\ past'.passed = {} /\ past'.left = past.left
    <3>1. past' = [past EXCEPT !.armed = more, !.counted = <<>>, !.passed = {}]
      BY <1>6, <2>3
    <3>2. <<>> \in Seq(Bars)
      OBVIOUS
    <3> QED
      BY <1>0, <3>1, <3>2 DEF BarTypes, PastType
  <2>7. BarTypes'
    BY <1>0, <1>1, <2>1, <2>6 DEF BarTypes, ClockType, TurnType, FlagType, WorkType, OrphanType, WoeType
  <2>8. Covered'
    <3>1. DOMAIN past'.counted = {}
      BY <2>6
    <3> QED
      BY <2>1, <2>6, <3>1 DEF Covered
  <2>9. /\ <<cur, d>> \in rows /\ <<cur, d>>[1] = cur
        /\ \A i \in DOMAIN past.armed : past.armed[i] # <<cur, d>>
    BY <1>0, <1>1, <1>2, <1>6 DEF ArmedOnce
  <2>10. ArmedOnce'
    <3>1. \A i \in DOMAIN more : more[i] \in rows /\ more[i][1] <= formed
      BY <1>0, <1>3, <2>5, <2>9 DEF ArmedOnce
    <3>2. ASSUME NEW i \in DOMAIN more, NEW j \in DOMAIN more, more[i] = more[j] PROVE i = j
      <4>1. CASE i \in DOMAIN past.armed /\ j \in DOMAIN past.armed
        BY <1>0, <2>5, <3>2, <4>1 DEF ArmedOnce
      <4>2. CASE i = n \/ j = n
        BY <2>5, <2>9, <3>2, <4>2
      <4> QED
        BY <2>5, <4>1, <4>2
    <3> QED
      BY <1>0, <1>1, <1>2, <2>1, <2>6, <3>1, <3>2 DEF ArmedOnce
  <2>11. Settled'
    <3>1. ~early => cur \notin past.left
      BY <1>0, <1>1, <1>6 DEF Settled, Free
    <3>2. ~early => \A i \in DOMAIN more : more[i][1] \notin past.left
      BY <1>0, <2>5, <2>9, <3>1 DEF Settled
    <3> QED
      BY <1>0, <1>1, <1>2, <2>6, <3>2 DEF Settled
  <2> QED
    BY <1>4, <2>7, <2>8, <2>10, <2>11 DEF BarInv
<1> QED
  BY <1>5, <1>6 DEF Arm

\* The three ways a bar is taken, by what the trade is doing.
LEMMA BarTaken ==
  ASSUME BarInv, NEW v \in [sigs : SUBSET Sides, used : SUBSET Sides, exited : BOOLEAN, todo : {"arm", "move", "close"}],
         v.todo = "arm", NEW s,
         loop = "bars", cur \in Bars,
         OnPending(v, Other(trade.dir) \in s) \/ OnHolding(v, Other(trade.dir) \in s) \/ OnOther(v)
  PROVE  /\ WorkType' /\ work'.sigs = v.sigs /\ TradeType' /\ OrphanType'
         /\ \/ past' = past /\ trade' = NoTrade /\ work'.todo = "arm"
            \/ past' = past /\ trade' = trade /\ work'.todo = "arm" /\ (Filled => ~(cur > trade.fill))
            \/ /\ past' = [past EXCEPT !.passed = past.passed \cup {cur}] /\ trade' = trade /\ work'.todo = "arm"
               /\ Executed \/ trade.st \in {"recovery", "exposed"}
            \/ /\ past' = [past EXCEPT !.counted = Append(past.counted, cur)]
               /\ trade.st = "holding" /\ trade'.st = "holding" /\ trade'.fill = trade.fill /\ cur > trade.fill
               /\ (work'.todo = "close" => work'.exited)
<1>0. BarTypes
  BY DEF BarInv
<1>1. /\ trade \in [st : States, dir : Sides, exp : 0..MaxBars + Valid,
             fill : 0..MaxBars, stop : 0..MaxBetter, sent : 0..MaxBetter]
      /\ {Other(trade.dir)} \in SUBSET Sides
  BY <1>0 DEF BarTypes, TradeType, Other, Sides
<1>20. orphan \in Sides \cup {"no"} /\ trade.dir \in Sides
  BY <1>0, <1>1 DEF BarTypes, OrphanType
<1>2. NoTrade \in [st : States, dir : Sides, exp : 0..MaxBars + Valid,
             fill : 0..MaxBars, stop : 0..MaxBetter, sent : 0..MaxBetter] /\ NoTrade.st = "none"
  BY BarNumbers DEF NoTrade, Sides, States
<1>3. CASE OnPending(v, Other(trade.dir) \in s)
  <2>1. work' = v \/ work' = [v EXCEPT !.used = {Other(trade.dir)}, !.exited = TRUE]
    BY <1>3 DEF OnPending
  <2>2. WorkType' /\ work'.sigs = v.sigs /\ work'.todo = "arm"
    BY <1>1, <2>1 DEF WorkType
  <2>3. /\ trade.st = "pending" /\ orphan' \in {orphan, trade.dir}
        /\ \/ past' = past /\ trade' = NoTrade
           \/ past' = past /\ trade' = trade /\ ~Executed
           \/ past' = [past EXCEPT !.passed = past.passed \cup {cur}] /\ trade' = trade /\ Executed
    BY <1>3 DEF OnPending, Dropped, PassedOver
  <2>4. OrphanType' /\ TradeType'
    BY <1>1, <1>20, <1>2, <2>3 DEF OrphanType, TradeType
  <2> QED
    BY <2>2, <2>3, <2>4 DEF Filled
<1>4. CASE OnHolding(v, Other(trade.dir) \in s)
  <2>1. PICK u : u = IF Other(trade.dir) \in s THEN [v EXCEPT !.used = {Other(trade.dir)}] ELSE v
    OBVIOUS
  <2>2. u \in [sigs : SUBSET Sides, used : SUBSET Sides, exited : BOOLEAN, todo : {"arm", "move", "close"}] /\ u.sigs = v.sigs /\ u.todo = "arm"
    BY <1>1, <2>1
  <2>3. /\ trade.st = "holding" /\ cur > trade.fill /\ orphan' = orphan /\ past' = [past EXCEPT !.counted = Append(past.counted, cur)]
        /\ \/ trade' = trade /\ work' = Exit(u)
           \/ trade' = trade /\ work' = u
           \/ trade.stop < MaxBetter /\ trade' = [trade EXCEPT !.stop = trade.stop + 1] /\ work' = [u EXCEPT !.todo = "move"]
    BY <1>4, <2>1 DEF OnHolding, Counts
  <2>4. WorkType' /\ work'.sigs = v.sigs /\ (work'.todo = "close" => work'.exited)
    <3>1. CASE work' = Exit(u)
      BY <3>1, <2>2 DEF Exit, WorkType
    <3>2. CASE work' = u
      BY <3>2, <2>2 DEF WorkType
    <3>3. CASE work' = [u EXCEPT !.todo = "move"]
      BY <3>3, <2>2 DEF WorkType
    <3> QED
      BY <2>3, <3>1, <3>2, <3>3
  <2>5. TradeType' /\ trade'.st = "holding" /\ trade'.fill = trade.fill
    <3>1. CASE trade' = trade
      BY <3>1, <1>1, <2>3 DEF TradeType
    <3>2. CASE trade.stop < MaxBetter /\ trade' = [trade EXCEPT !.stop = trade.stop + 1]
      <4>1. trade.stop + 1 \in 0..MaxBetter
        BY <1>1, <3>2, BarNumbers
      <4> QED
        BY <1>1, <2>3, <3>2, <4>1 DEF TradeType
    <3> QED
      BY <2>3, <3>1, <3>2
  <2> QED
    BY <1>20, <2>3, <2>4, <2>5 DEF OrphanType
<1>5. CASE OnOther(v)
  <2>1. work' = v \/ work' = Closing(v)
    BY <1>5 DEF OnOther
  <2>2. WorkType' /\ work'.sigs = v.sigs /\ work'.todo = "arm"
    BY <2>1 DEF WorkType, Closing
  <2>3. /\ trade' = trade /\ orphan' = orphan
        /\ \/ past' = past /\ (Filled => ~(cur > trade.fill))
           \/ /\ past' = [past EXCEPT !.passed = past.passed \cup {cur}]
              /\ trade.st \in {"recovery", "exposed"}
    BY <1>5 DEF OnOther, Counts, PassedOver, Filled, Executed
  <2> QED
    BY <1>1, <1>20, <2>2, <2>3 DEF TradeType, OrphanType
<1> QED
  BY <1>3, <1>4, <1>5

LEMMA OnBarKeeps == BarInv /\ OnBar => BarInv'
<1> SUFFICES ASSUME BarInv, OnBar PROVE BarInv'
  OBVIOUS
<1>0. BarTypes /\ Bounds /\ Covered /\ ArmedOnce /\ Settled
  BY DEF BarInv
<1>1. /\ loop = "bars" /\ cur <= upto
      /\ UNCHANGED <<phase, formed, brings, barEvt, due, nap, snap, cur, upto, last, missed, failed, kills>>
      /\ early' = (early \/ cur > snap)
      /\ loop' = IF work'.todo = "arm" THEN "arm" ELSE "act"
  BY DEF OnBar, clockVars, badVars
<1>2. ~Handling /\ Handling' /\ loop' \in {"act", "arm"} /\ (loop' = "act" => work'.todo # "arm")
  BY <1>1 DEF Handling
<1>3. /\ cur \in Bars /\ cur <= formed /\ last \in Int /\ cur \in Int /\ last < cur /\ 1 <= cur
      /\ brings \in [Bars -> SUBSET Sides]
  BY <1>0, <1>1, BarNumbers DEF BarTypes, TurnType, ClockType, Bounds
<1>4. PICK s \in Evaluations :
        /\ rows' = rows \cup ({cur} \X {d \in s : <<cur, d>> \notin rows})
        /\ \/ OnPending([Idle EXCEPT !.sigs = {d \in s : <<cur, d>> \notin rows}], Other(trade.dir) \in s)
           \/ OnHolding([Idle EXCEPT !.sigs = {d \in s : <<cur, d>> \notin rows}], Other(trade.dir) \in s)
           \/ OnOther([Idle EXCEPT !.sigs = {d \in s : <<cur, d>> \notin rows}])
  BY DEF OnBar
<1>5. s \in SUBSET Sides /\ (cur <= snap => s = brings[cur])
  BY <1>3 DEF Evaluations
<1>6. PICK new \in SUBSET Sides : new = {d \in s : <<cur, d>> \notin rows}
  BY <1>5
<1>7. PICK v \in [sigs : SUBSET Sides, used : SUBSET Sides, exited : BOOLEAN, todo : {"arm", "move", "close"}] :
         v = [Idle EXCEPT !.sigs = new] /\ v.todo = "arm" /\ v.sigs = new
  <2>1. Idle \in [sigs : SUBSET Sides, used : SUBSET Sides, exited : BOOLEAN, todo : {"arm", "move", "close"}] /\ Idle.todo = "arm"
    BY DEF Idle
  <2>2. /\ [Idle EXCEPT !.sigs = new] \in [sigs : SUBSET Sides, used : SUBSET Sides, exited : BOOLEAN, todo : {"arm", "move", "close"}]
        /\ [Idle EXCEPT !.sigs = new].todo = "arm" /\ [Idle EXCEPT !.sigs = new].sigs = new
    BY <2>1
  <2> QED
    BY <2>2, Zenon
<1>9. rows' = rows \cup ({cur} \X new) /\ (OnPending(v, Other(trade.dir) \in s) \/ OnHolding(v, Other(trade.dir) \in s) \/ OnOther(v))
  BY <1>4, <1>6, <1>7
<1>10. /\ WorkType' /\ work'.sigs = new /\ TradeType' /\ OrphanType'
       /\ \/ past' = past /\ trade' = NoTrade /\ work'.todo = "arm"
          \/ past' = past /\ trade' = trade /\ work'.todo = "arm" /\ (Filled => ~(cur > trade.fill))
          \/ /\ past' = [past EXCEPT !.passed = past.passed \cup {cur}] /\ trade' = trade /\ work'.todo = "arm"
             /\ Executed \/ trade.st \in {"recovery", "exposed"}
          \/ /\ past' = [past EXCEPT !.counted = Append(past.counted, cur)]
             /\ trade.st = "holding" /\ trade'.st = "holding" /\ trade'.fill = trade.fill /\ cur > trade.fill
             /\ (work'.todo = "close" => work'.exited)
  BY <1>1, <1>3, <1>7, <1>9, BarTaken
<1>11. PICK more \in Seq(Bars) : more = Append(past.counted, cur)
  <2>1. past.counted \in Seq(Bars)
    BY <1>0 DEF BarTypes, PastType
  <2> QED
    BY <2>1, <1>3, OneMore
<1>12. PICK n : n = Len(past.counted) + 1
  OBVIOUS
<1>13. /\ DOMAIN past.counted = 1..n - 1 /\ n \in Nat /\ n >= 1 /\ DOMAIN more = 1..n /\ more[n] = cur
       /\ \A i \in DOMAIN past.counted : more[i] = past.counted[i] /\ past.counted[i] \in Bars
       /\ \A i \in DOMAIN more : i \in DOMAIN past.counted \/ i = n
  <2>1. past.counted \in Seq(Bars)
    BY <1>0 DEF BarTypes, PastType
  <2> QED
    BY <2>1, <1>3, <1>11, <1>12, OneMore
<1>14. /\ PastType' /\ past'.armed = past.armed /\ past'.left = past.left /\ past'.first = past.first
       /\ \/ past'.counted = past.counted /\ past'.passed \in {past.passed, past.passed \cup {cur}}
          \/ past'.counted = more /\ past'.passed = past.passed
  <2>1. CASE past' = past
    BY <1>0, <2>1 DEF BarTypes, PastType
  <2>2. CASE past' = [past EXCEPT !.passed = past.passed \cup {cur}]
    BY <1>0, <1>3, <2>2 DEF BarTypes, PastType
  <2>3. CASE past' = [past EXCEPT !.counted = Append(past.counted, cur)]
    BY <1>0, <1>11, <2>3 DEF BarTypes, PastType
  <2> QED
    BY <1>10, <2>1, <2>2, <2>3
<1>15. BarTypes'
  <2>1. FlagType'
    <3>1. early' \in BOOLEAN
      BY <1>1
    <3> QED
      BY <1>0, <1>1, <3>1, Zenon DEF BarTypes, FlagType
  <2>2. rows' \subseteq Bars \X Sides
    BY <1>0, <1>3, <1>9 DEF BarTypes
  <2> QED
    BY <1>0, <1>1, <1>2, <1>10, <1>14, <2>1, <2>2 DEF BarTypes, ClockType, TurnType, WoeType
<1>16. Bounds'
  BY <1>0, <1>1, <1>2 DEF Bounds
<1>17. Covered'
  <2>1. CASE past' = past /\ trade' = NoTrade
    <3>1. ~Filled' /\ ~Executed' /\ trade'.st = "none"
      BY <2>1 DEF NoTrade, Filled, Executed
    <3> QED
      BY <1>0, <1>1, <1>2, <2>1, <3>1 DEF Covered
  <2>4. CASE past' = past /\ trade' = trade /\ (Filled => ~(cur > trade.fill))
    <3>1. (\A b : Heeded(b)' <=> Heeded(b)) /\ (Filled' <=> Filled) /\ (Executed' <=> Executed)
      BY <2>4 DEF Counted, Heeded, Filled, Executed
    <3> QED
      BY <1>0, <1>1, <1>2, <2>4, <3>1 DEF Covered
  <2>5. CASE /\ past' = [past EXCEPT !.passed = past.passed \cup {cur}] /\ trade' = trade
             /\ Executed \/ trade.st \in {"recovery", "exposed"}
    <3>1. past'.passed = past.passed \cup {cur} /\ past'.counted = past.counted /\ past'.first = past.first
      BY <1>0, <2>5 DEF BarTypes, PastType
    <3>2. (\A b : Heeded(b)' <=> Heeded(b) \/ b = cur) /\ (Filled' <=> Filled) /\ (Executed' <=> Executed)
      BY <2>5, <3>1 DEF Counted, Heeded, Filled, Executed
    <3>3. failed # 0
      BY <1>0, <2>5 DEF Covered
    <3> QED
      BY <1>0, <1>1, <1>2, <2>5, <3>1, <3>2, <3>3 DEF Covered
  <2>2. CASE /\ past'.counted = more
             /\ past'.passed = past.passed
             /\ trade.st = "holding" /\ trade'.st = "holding" /\ trade'.fill = trade.fill /\ cur > trade.fill
    <3>0. /\ Filled /\ Filled' /\ ~Executed' /\ past'.first = past.first
      BY <1>14, <2>2 DEF Filled, Executed
    <3>1. \A b : Heeded(b)' <=> Heeded(b) \/ b = cur
      <4>1. \A i \in DOMAIN past.counted : i \in DOMAIN more /\ more[i] = past.counted[i]
        BY <1>13
      <4>2. n \in DOMAIN more
        BY <1>13
      <4> QED
        BY <1>13, <2>2, <4>1, <4>2 DEF Counted, Heeded
    <3>2. \A i \in DOMAIN more : more[i] > trade.fill
      BY <1>0, <1>13, <2>2, <3>0 DEF Covered
    <3>3. ASSUME failed = 0, kills = 0
          PROVE  /\ \A i, j \in DOMAIN more : i < j => more[i] < more[j]
                 /\ \A i \in DOMAIN more : more[i] <= last \/ more[i] = cur
      <4>1. \A i \in DOMAIN past.counted : past.counted[i] <= last /\ past.counted[i] < cur
        <5>1. \A i \in DOMAIN past.counted : past.counted[i] \in Int
          BY <1>13, BarNumbers
        <5> QED
          BY <1>0, <1>2, <1>3, <3>3, <5>1 DEF Covered
      <4>2. \A i, j \in DOMAIN past.counted : i < j => past.counted[i] < past.counted[j]
        BY <1>0, <3>3 DEF Covered
      <4>3. ASSUME NEW i \in DOMAIN more, NEW j \in DOMAIN more, i < j PROVE more[i] < more[j]
        <5>1. i \in DOMAIN past.counted
          BY <1>13, <4>3
        <5>2. CASE j = n
          BY <5>1, <5>2, <4>1, <1>13
        <5>3. CASE j # n
          BY <5>1, <5>3, <4>2, <4>3, <1>13
        <5> QED
          BY <5>2, <5>3
      <4> QED
        BY <1>13, <4>1, <4>3
    <3> QED
      BY <1>0, <1>1, <1>2, <1>14, <2>2, <3>0, <3>1, <3>2, <3>3 DEF Covered
  <2>3. (past' = [past EXCEPT !.counted = Append(past.counted, cur)]) => past'.counted = more /\ past'.passed = past.passed
    BY <1>0, <1>11 DEF BarTypes, PastType
  <2> QED
    BY <1>10, <2>1, <2>2, <2>3, <2>4, <2>5
<1>18. \A d \in new : <<cur, d>> \in rows' /\ <<cur, d>> \notin rows
  BY <1>6, <1>9
<1>19. rows \subseteq rows'
  BY <1>9
<1>20. ArmedOnce'
  <2>1. \A i \in DOMAIN past.armed : past.armed[i] \in rows' /\ past.armed[i][1] <= formed
    BY <1>0, <1>19 DEF ArmedOnce
  <2>2. \A d \in new : \A i \in DOMAIN past.armed : past.armed[i] # <<cur, d>>
    BY <1>0, <1>18 DEF ArmedOnce
  <2>3. Filled' => Filled /\ trade'.fill = trade.fill
    BY <1>10 DEF Filled, Executed, NoTrade
  <2>4. loop' = "act" /\ work'.todo = "close" => trade'.st = "holding" /\ cur > trade'.fill /\ work'.exited
    BY <1>2, <1>10
  <2> QED
    BY <1>0, <1>1, <1>2, <1>10, <1>14, <1>18, <2>1, <2>2, <2>3, <2>4 DEF ArmedOnce
<1>21. Settled'
  <2> SUFFICES ASSUME ~early, ~(cur > snap)
      PROVE  /\ \A b \in past.left : b <= formed /\ \A d \in brings[b] : <<b, d>> \in rows'
             /\ \A d \in brings[cur] : <<cur, d>> \in rows'
             /\ cur \in past.left => new = {}
             /\ \A i \in DOMAIN past.armed : past.armed[i][1] \notin past.left
    BY <1>1, <1>2, <1>10, <1>14 DEF Settled
  <2>1. s = brings[cur]
    BY <1>0, <1>3, <1>5, BarNumbers DEF BarTypes, TurnType
  <2>2. /\ \A b \in past.left : b <= formed /\ \A d \in brings[b] : <<b, d>> \in rows
        /\ \A i \in DOMAIN past.armed : past.armed[i][1] \notin past.left
    BY <1>0 DEF Settled
  <2>3. \A d \in brings[cur] : <<cur, d>> \in rows \/ d \in new
    BY <1>6, <2>1
  <2>4. cur \in past.left => new = {}
    BY <1>6, <2>1, <2>2
  <2> QED
    BY <1>18, <1>19, <2>2, <2>3, <2>4
<1> QED
  BY <1>15, <1>16, <1>17, <1>20, <1>21 DEF BarInv

LEMMA BarStep == BarInv /\ [BarNext]_barVars => BarInv'
<1> SUFFICES ASSUME BarInv, [BarNext]_barVars PROVE BarInv'
  OBVIOUS
<1>1. CASE BarNext
  BY <1>1, ClockKeeps, LoopKeeps, GivenUp, TradeKeeps, MarkKeeps, SendKeeps, ArmKeeps, OnBarKeeps DEF BarNext, LoopSteps, Between
<1>2. CASE UNCHANGED barVars
  <2>1. UNCHANGED <<phase, formed, brings, barEvt, loop, due, nap, snap, cur, upto, last, rows, work, trade, orphan, past, early,
                    missed, failed, kills>>
    BY <1>2 DEF barVars, clockVars, loopVars, engVars, badVars
  <2>2. BarTypes /\ Bounds
    BY DEF BarInv
  <2>3. BarTypes'
    <3>1. ClockType' /\ TurnType' /\ WoeType' /\ rows' \subseteq Bars \X Sides
      BY <2>1, <2>2 DEF BarTypes, ClockType, TurnType, WoeType
    <3>2. FlagType'
      BY <2>1, <2>2, Zenon DEF BarTypes, FlagType
    <3>3. WorkType' /\ TradeType' /\ OrphanType' /\ PastType'
      BY <2>1, <2>2 DEF BarTypes, WorkType, TradeType, OrphanType, PastType
    <3> QED
      BY <3>1, <3>2, <3>3 DEF BarTypes
  <2>4. Bounds'
    BY <2>1, <2>2 DEF Bounds, Handling
  <2>5. formed \in Int /\ formed <= formed
    BY <2>2, BarNumbers DEF BarTypes, ClockType
  <2>6. Handling' <=> Handling
    BY <2>1 DEF Handling
  <2>7. Covered' /\ ArmedOnce' /\ Settled'
    BY <2>1, <2>5, <2>6, EngineRests
  <2> QED
    BY <2>3, <2>4, <2>7 DEF BarInv
<1> QED
  BY <1>1, <1>2

\* A bar has its effect on a position, and a signal on the trade, once.
LEMMA BarsSettled == BarInv => BarsRight
<1> SUFFICES ASSUME BarInv PROVE BarsRight
  OBVIOUS
<1>0. BarTypes /\ Covered /\ ArmedOnce /\ Settled
  BY DEF BarInv
<1>1. BarTypeOK
  BY <1>0 DEF BarTypes, ClockType, TurnType, FlagType, WorkType, TradeType, OrphanType, PastType, WoeType, BarTypeOK
<1>2. past.counted \in Seq(Bars)
  BY <1>0 DEF BarTypes, PastType
<1>3. EveryBarCounted
  <2> SUFFICES ASSUME trade.st = "holding"
      PROVE  /\ Handled \ past.passed \subseteq ToSet(past.counted)
             /\ \A b \in ToSet(past.counted) : b > trade.fill
             /\ failed = 0 => past.passed = {}
             /\ failed = 0 /\ kills = 0 => Len(past.counted) = Cardinality(ToSet(past.counted))
    BY DEF EveryBarCounted
  <2>1. \A b : b \in ToSet(past.counted) <=> Counted(b)
    BY DEF ToSet, Counted
  <2>0. Filled
    BY DEF Filled
  <2>2. \A b \in ToSet(past.counted) : b > trade.fill
    BY <1>0, <2>0 DEF Covered, ToSet
  <2>4. \A b \in Handled : Heeded(b)
    BY <1>0, <2>0 DEF Covered, Handled
  <2>3. ASSUME failed = 0, kills = 0 PROVE Len(past.counted) = Cardinality(ToSet(past.counted))
    <3>1. \A i, j \in DOMAIN past.counted : i < j => past.counted[i] < past.counted[j]
      BY <1>0, <2>3 DEF Covered
    <3>2. /\ DOMAIN past.counted = 1..Len(past.counted) /\ Len(past.counted) \in Nat
          /\ \A i \in DOMAIN past.counted : past.counted[i] \in Int
      BY <1>2, BarNumbers
    <3>3. past.counted \in Bijection(1..Len(past.counted), ToSet(past.counted))
      <4>1. past.counted \in [1..Len(past.counted) -> ToSet(past.counted)]
        BY <1>2, <3>2 DEF ToSet
      <4>2. \A i, j \in 1..Len(past.counted) : past.counted[i] = past.counted[j] => i = j
        BY <3>1, <3>2
      <4>3. \A b \in ToSet(past.counted) : \E i \in 1..Len(past.counted) : past.counted[i] = b
        BY <3>2 DEF ToSet
      <4> QED
        BY <4>1, <4>2, <4>3 DEF Bijection, Injection, Surjection, IsInjective
    <3>4. IsFiniteSet(1..Len(past.counted)) /\ Cardinality(1..Len(past.counted)) = Len(past.counted)
      BY <3>2, FS_Interval
    <3> QED
      <4>1. ExistsBijection(1..Len(past.counted), ToSet(past.counted))
        BY <3>3 DEF ExistsBijection
      <4>2. Cardinality(1..Len(past.counted)) = Cardinality(ToSet(past.counted))
        BY <3>4, <4>1, FS_Bijection
      <4> QED
        BY <3>4, <4>2
  <2> QED
    BY <1>0, <2>1, <2>2, <2>3, <2>4 DEF Covered, Heeded
<1>4. NoReversal
  BY <1>0 DEF ArmedOnce, Settled, NoReversal
<1> QED
  BY <1>1, <1>3, <1>4 DEF BarsRight

\* runtime/bot.py, execution/engine.py: every bar after the fill is counted for
\* a position that holds, but for those that came while its fill was not known to
\* it or its stop was missing; none before the fill is counted and, undisturbed,
\* none is passed over and none counted twice; a signal is armed once and never
\* by a bar whose rules closed a position (BarsRight), for every number of bars,
\* kills and failures.
THEOREM BarsHandled == Spec => []BarsRight
<1>1. Init => BarInv
  BY BarFirst
<1>2. BarInv /\ [Next]_vars => BarInv'
  <2> SUFFICES ASSUME BarInv, [Next]_vars PROVE BarInv'
    OBVIOUS
  <2>1. [BarNext]_barVars
    BY DEF Next, vars
  <2> QED
    BY <2>1, BarStep
<1> QED
  BY <1>1, <1>2, BarsSettled, PTL DEF Spec

\* Without a notice to come the loop is behind by the lost ones at most.
Caught ==
  /\ loop = "bars" /\ last = None => cur <= upto
  /\ failed = 0 /\ kills = 0 /\ ~barEvt =>
       /\ loop \in {"top", "sleep"} /\ last # None => formed <= last + missed
       /\ loop = "stamp" => formed <= snap + missed
       /\ loop = "bars" \/ Handling => formed <= upto + missed

LEMMA CaughtStep == BarInv /\ Caught /\ [BarNext]_barVars => Caught'
<1> SUFFICES ASSUME BarInv, Caught, [BarNext]_barVars PROVE Caught'
  OBVIOUS
<1>0. /\ formed \in Nat /\ last \in Nat /\ snap \in Nat /\ upto \in Nat /\ cur \in Nat
      /\ missed \in Nat /\ failed \in Nat /\ kills \in Nat /\ snap <= formed
      /\ (loop = "bars" \/ Handling => 1 <= cur /\ last < cur /\ cur <= upto + 1 /\ (last # None => cur = last + 1))
      /\ (loop = "stamp" => last <= snap)
  BY BarNumbers DEF BarInv, BarTypes, ClockType, TurnType, WoeType, Bounds
<1>1. CASE Tick \/ Reconnected
  BY <1>1 DEF Tick, Reconnected, Caught, Handling, clockVars, loopVars, engVars, badVars
<1>2. CASE Close
  <2>1. /\ UNCHANGED <<loop, snap, cur, upto, last, failed, kills>> /\ formed' = formed + 1
        /\ barEvt' = TRUE \/ (missed' = missed + 1 /\ barEvt' = barEvt)
    BY <1>2 DEF Close, engVars
  <2> QED
    BY <2>1, <1>0 DEF Caught, Handling
<1>3. CASE Top \/ Noticed \/ TimedOut
  <2>1. CASE Top
    <3>1. loop = "top" /\ loop' = "sleep" /\ UNCHANGED <<formed, barEvt, last, missed, failed, kills>>
      BY <2>1 DEF Top, clockVars, engVars, badVars
    <3> QED
      BY <3>1 DEF Caught, Handling
  <2>2. CASE Noticed
    <3>1. loop' = "fetch"
      BY <2>2 DEF Noticed, Start
    <3> QED
      BY <3>1 DEF Caught, Handling
  <2>3. CASE TimedOut
    <3>1. /\ UNCHANGED <<formed, snap, cur, upto, last, missed, failed, kills>> /\ loop = "sleep"
          /\ loop' = "fetch" \/ (loop' = "top" /\ barEvt' = barEvt)
      BY <2>3 DEF TimedOut, Start, clockVars, engVars, badVars
    <3> QED
      BY <3>1 DEF Caught, Handling
  <2> QED
    BY <1>3, <2>1, <2>2, <2>3
<1>4. CASE Fetch
  <2>1. loop' = "stamp" /\ snap' = formed /\ formed' = formed /\ missed' = missed
    BY <1>4 DEF Fetch, clockVars, badVars
  <2> QED
    BY <2>1, <1>0 DEF Caught, Handling
<1>5. CASE Stamp
  <2>1. /\ loop = "stamp" /\ loop' = "bars" /\ cur' = First(Answered) /\ upto' = Answered
        /\ UNCHANGED <<formed, barEvt, last, missed, failed, kills>>
    BY <1>5 DEF Stamp, clockVars, engVars, badVars
  <2>2. Answered \in Nat /\ snap <= Answered /\ (last = None => First(Answered) = Answered)
    BY <1>0 DEF Answered, Lesser, First
  <2> QED
    BY <2>1, <2>2, <1>0 DEF Caught, Handling
<1>6. CASE TurnEnds
  <2>1. /\ loop = "bars" /\ cur > upto /\ loop' = "top" /\ barEvt' = barEvt
        /\ UNCHANGED <<formed, last, missed, failed, kills>>
    BY <1>6 DEF TurnEnds, Clear, clockVars, engVars, badVars
  <2>2. last # None => last = upto
    BY <2>1, <1>0 DEF None
  <2> QED
    BY <2>1, <2>2, <1>0 DEF Caught, Handling
<1>7. CASE TurnFails \/ Kill
  <2>1. loop' = "top" /\ (failed' = failed + 1 \/ kills' = kills + 1)
    BY <1>7 DEF TurnFails, Kill, GiveUp
  <2> QED
    BY <2>1, <1>0 DEF Caught, Handling
<1>8. CASE OnBar \/ CloseSent \/ MoveSent \/ Arm \/ Marked
  <2>1. /\ UNCHANGED <<formed, barEvt, upto, missed, kills>> /\ failed' \in {failed, failed + 1}
        /\ (loop = "bars" \/ Handling) /\ (loop' = "bars" => loop = "mark" /\ last' = cur)
        /\ loop' \in {"act", "arm", "mark", "bars"}
    <3>1. CASE OnBar
      <4>1. /\ UNCHANGED clockVars /\ UNCHANGED <<barEvt, upto>> /\ UNCHANGED badVars
            /\ loop = "bars" /\ loop' = (IF work'.todo = "arm" THEN "arm" ELSE "act")
        BY <3>1 DEF OnBar
      <4> QED
        BY <4>1 DEF clockVars, badVars
    <3>2. CASE CloseSent
      BY <3>2 DEF CloseSent, Handling, clockVars, badVars
    <3>3. CASE MoveSent
      BY <3>3 DEF MoveSent, Handling, clockVars, badVars
    <3>4. CASE Arm
      <4>1. /\ UNCHANGED clockVars /\ UNCHANGED <<barEvt, upto>> /\ UNCHANGED badVars
            /\ loop = "arm" /\ loop' = "mark"
        BY <3>4, Zenon DEF Arm
      <4> QED
        BY <4>1 DEF Handling, clockVars, badVars
    <3>5. CASE Marked
      BY <3>5 DEF Marked, Handling, clockVars, badVars
    <3> QED
      BY <1>8, <3>1, <3>2, <3>3, <3>4, <3>5
  <2>3. loop' = "bars" => last' # None
    BY <2>1, <1>0 DEF None, Handling
  <2>4. failed' = 0 => failed = 0
    <3>1. failed' = failed \/ failed' = failed + 1
      BY <2>1
    <3> QED
      BY <3>1, <1>0
  <2>5. failed' = 0 /\ kills' = 0 /\ ~barEvt' => formed' <= upto' + missed'
    BY <2>1, <2>4 DEF Caught
  <2>6. loop' \notin {"top", "sleep", "stamp"} /\ (loop' = "bars" => last' # None)
    BY <2>1, <2>3
  <2> QED
    BY <2>5, <2>6 DEF Caught
<1>9. CASE Between
  <2>1. /\ UNCHANGED <<formed, loop, snap, cur, upto, last, barEvt, missed, kills>>
        /\ failed' = failed \/ failed' = failed + 1
    BY <1>9 DEF Between, Breakout, StopLost, Recovered, Adopt, Cancelled, Flat, Away, clockVars, loopVars
  <2>2. failed' = 0 => failed = 0
    BY <2>1, <1>0
  <2> QED
    BY <2>1, <2>2 DEF Caught, Handling
<1>10. CASE UNCHANGED barVars
  BY <1>10 DEF Caught, Handling, barVars, clockVars, loopVars, engVars, badVars
<1> QED
  BY <1>1, <1>2, <1>3, <1>4, <1>5, <1>6, <1>7, <1>8, <1>9, <1>10 DEF BarNext, LoopSteps, Between

\* runtime/bot.py: when a bar closes while the loop sleeps and nothing has
\* failed, the bars before it have been handled, but for those whose notice was
\* lost (Timely, the safety half of InTime), for every number of bars and woes.
THEOREM BarsInTime == Spec => Timely
<1>1. Init => BarInv /\ Caught
  <2>1. Init => Caught
    <3> SUFFICES ASSUME Init PROVE Caught
      OBVIOUS
    <3>1. PICK part \in Parts : BarInit(part = "loop")
      BY DEF Init
    <3>2. barEvt /\ loop \in {"top", "off"}
      BY <3>1 DEF BarInit
    <3> QED
      BY <3>2 DEF Caught
  <2> QED
    BY <2>1, BarFirst
<1>2. BarInv /\ Caught /\ [Next]_vars => (BarInv /\ Caught)'
  <2> SUFFICES ASSUME BarInv, Caught, [Next]_vars PROVE BarInv' /\ Caught'
    OBVIOUS
  <2>1. [BarNext]_barVars
    BY DEF Next, vars
  <2> QED
    BY <2>1, BarStep, CaughtStep
<1>3. BarInv /\ Caught /\ [Next]_vars =>
        [formed' > formed /\ loop = "sleep" /\ failed = 0 /\ kills = 0 /\ last # None => formed - last <= missed]_barVars
  <2> SUFFICES ASSUME BarInv, Caught, [Next]_vars,
                      formed' > formed, loop = "sleep", failed = 0, kills = 0, last # None
               PROVE  formed - last <= missed \/ UNCHANGED barVars
    OBVIOUS
  <2>1. [BarNext]_barVars
    BY DEF Next, vars
  <2>2. formed \in Nat /\ last \in Nat /\ missed \in Nat
    BY BarNumbers DEF BarInv, BarTypes, ClockType, TurnType, WoeType
  <2>3. CASE Close
    <3>1. ~barEvt
      BY <2>3 DEF Close, MayPass
    <3> QED
      BY <2>2, <3>1 DEF Caught
  <2>4. CASE ~Close /\ BarNext
    <3>1. formed' = formed
      BY <2>4 DEF BarNext, LoopSteps, Tick, Reconnected, Top, Noticed, TimedOut, Fetch, Stamp, TurnEnds, OnBar, CloseSent,
                  MoveSent, Arm, Marked, TurnFails, Breakout, StopLost, Recovered, Adopt, Cancelled, Flat, Away, Kill, clockVars
    <3> QED
      BY <2>2, <3>1
  <2> QED
    BY <2>1, <2>3, <2>4
<1> QED
  BY <1>1, <1>2, <1>3, PTL DEF Spec, Timely

----------------------------------------------------------------------------
(* The paper trades: a trade in a book has seen every bar so far, or a scan   *)
(* passed one over for it, and is what these bars make of it; the results     *)
(* that count ended before the trades of the book with their variant and      *)
(* pattern began.                                                             *)

Statuses == {"pending", "open", "closed", "cancelled"}
Modes == ExitModes \cup {"three_bar"}
Reasons ==
  {"", "expired", "stop_before_entry", "data_gap", "stop", "target", "back_in_box", "reversal_signal", "time", "stop_close"}
FillLists == Seq([bar : Int, px : Int])
PaperTrades ==
  [v : ExitModes, p : DOMAIN Signals, mode : Modes, born : Int, st : Statuses, stop : Int,
   fill : Int, held : Int, left : Int, step : Int, fills : FillLists, exit : Int, why : Reasons, seen : Int]

Priced(fills, bars, i) ==
  \A n \in DOMAIN fills : fills[n].bar \in 1..i /\ fills[n].px \in bars[fills[n].bar].l..bars[fills[n].bar].h

\* A trade of a book that has handled the bars up to i.
Fit(t, bars, i) ==
  /\ t \in PaperTrades /\ t.st \in {"pending", "open"} /\ t.left \in {1, 2} /\ t.step \in Nat
  /\ t.born \in 1..i /\ t.held \in 0..(i - t.born) /\ t.seen <= i
  /\ Priced(t.fills, bars, i)

\* Whether a scan passed over a bar of the trade.
Passed(gone, t, i) == (t.born + 1..i) \cap gone # {}
Same(a, b) == a.v = b.v /\ a.p = b.p

\* What a trade comes to by a bar, and that this is a trade to rely on.
Turned(u, bars, i) == IF u.st \in Over THEN u ELSE Lived(u, bars, i)
LifeUpTo(bars, v, p, born, to, f) ==
  f = [i \in born..to |-> IF i = born THEN NewTrade(v, p, born) ELSE Turned(f[i - 1], bars, i)]
ReplayOn(bars, v, p, born, to) == (CHOOSE f : LifeUpTo(bars, v, p, born, to, f))[to]
Relied(bars, gone, t, i) == ReplayOn(bars, t.v, t.p, t.born, i) = t \/ Passed(gone, t, i)

\* A book that has handled the bars up to i.
BookOn(bars, gone, book, i) ==
  /\ \A t \in book : Fit(t, bars, i) /\ Relied(bars, gone, t, i)
  /\ \A a, b \in book : Same(a, b) => a = b

\* A result.
EndedOn(bars, gone, r) ==
  /\ r \in PaperTrades /\ r.st \in Over /\ (r.st = "closed" <=> r.left = 0)
  /\ r.born \in 1..r.exit /\ r.exit \in 1..Len(bars) /\ Priced(r.fills, bars, r.exit)
  /\ (r.st = "closed" => Relied(bars, gone, r, r.exit))

Before(r, book) == \A t \in book : Same(r, t) => r.exit <= t.born
FollowOn(back, file) ==
  \A j, k \in DOMAIN file \ back : \A a \in file[j], b \in file[k] :
    j <= k /\ <<j, a>> # <<k, b>> /\ Same(a, b) => a.exit <= b.born
Files == Seq(SUBSET PaperTrades)

\* The file, next to a book that has handled the bars up to i.
FileOn(bars, gone, back, save, file, book, i) ==
  /\ file \in Files /\ back \subseteq DOMAIN file
  /\ \A k \in DOMAIN file : \A r \in file[k] : EndedOn(bars, gone, r)
  /\ \A k \in DOMAIN file \ back : \A r \in file[k] : r.exit <= i /\ Before(r, book)
  /\ \A k \in DOMAIN file \ back : \A r \in file[k] : r.exit <= save.last => Before(r, save.book)
  /\ FollowOn(back, file)

Known(bars) == bars \in Seq(Shapes)
BookStates == [last : Nat, book : SUBSET PaperTrades]

PaperInv ==
  /\ Known(market)
  /\ memory \in BookStates /\ stateFile \in BookStates
  /\ stateFile.last <= memory.last /\ memory.last <= Len(market)
  /\ (memory.last = 0 => memory.book = {}) /\ (stateFile.last = 0 => stateFile.book = {})
  /\ BookOn(market, blind, memory.book, memory.last) /\ BookOn(market, blind, stateFile.book, stateFile.last)
  /\ FileOn(market, blind, undone, stateFile, results, memory.book, memory.last)

\* A finite set of numbers that is not empty has a greatest one.
LEMMA OneGreatest ==
  ASSUME NEW S \in SUBSET Int, IsFiniteSet(S), S # {}
  PROVE  \E x \in S : \A y \in S : y <= x
<1> DEFINE Has(T) == \E x \in T : \A y \in T : y <= x
           Bad == {n \in Nat : \E T \in SUBSET Int : IsFiniteSet(T) /\ T # {} /\ Cardinality(T) = n /\ ~Has(T)}
<1> SUFFICES ASSUME ~Has(S) PROVE FALSE
  OBVIOUS
<1>1. Cardinality(S) \in Bad
  BY FS_CardinalityType
<1>2. PICK m \in Bad : \A n \in Bad : ~(<<n, m>> \in OpToRel(<, Nat))
  BY <1>1, NatLessThanWellFounded, WFMin, Zenon
<1>3. \A n \in Bad : ~(n < m)
  BY <1>2 DEF OpToRel
<1>4. PICK T \in SUBSET Int : IsFiniteSet(T) /\ T # {} /\ Cardinality(T) = m /\ ~Has(T)
  BY <1>2
<1>5. PICK x \in T : TRUE
  BY <1>4
<1> DEFINE U == T \ {x}
<1>6. IsFiniteSet(U) /\ Cardinality(U) = m - 1 /\ U \in SUBSET Int
  BY <1>4, <1>5, FS_RemoveElement
<1>7. m \in Nat /\ m - 1 < m /\ Cardinality(U) \in Nat
  <2>1. m \in Nat
    BY <1>2
  <2>2. Cardinality(U) \in Nat
    BY <1>6, FS_CardinalityType, Zenon
  <2> QED
    BY <2>1, <2>2
<1>8. T = U \cup {x} /\ x \in Int
  BY <1>5
<1>9. U # {}
  BY <1>4, <1>8
<1>10. m - 1 \notin Bad
  BY <1>3, <1>7
<1>11. Has(U)
  BY <1>6, <1>7, <1>9, <1>10
<1>12. PICK y \in U : \A z \in U : z <= y
  BY <1>11
<1> HIDE DEF U
<1>13. \A z \in T : z <= IF x <= y THEN y ELSE x
  BY <1>6, <1>8, <1>12
<1>14. (IF x <= y THEN y ELSE x) \in T
  BY <1>8, <1>12
<1> QED
  BY <1>4, <1>13, <1>14

LEMMA ThreeLeast ==
  ASSUME NEW a \in Int, NEW b \in Int, NEW c \in Int
  PROVE  \E x \in {a, b, c} : x <= a /\ x <= b /\ x <= c
<1>1. CASE a <= b /\ a <= c
  BY <1>1
<1>2. CASE b <= a /\ b <= c
  BY <1>2
<1>3. CASE c <= a /\ c <= b
  BY <1>3
<1> QED
  BY <1>1, <1>2, <1>3

----------------------------------------------------------------------------
(* What a bar does to one trade.                                            *)

LEMMA BarIs ==
  ASSUME NEW b \in Shapes
  PROVE  /\ b.o \in Int /\ b.h \in Int /\ b.l \in Int /\ b.c \in Int /\ b.sigs \subseteq DOMAIN Signals
         /\ b.o \in b.l..b.h /\ b.c \in b.l..b.h
BY PaperAssumption

LEMMA SignalIs ==
  ASSUME NEW p \in DOMAIN Signals
  PROVE  /\ Signals[p].entry \in Int /\ Signals[p].stop \in Int /\ Signals[p].targets \in Seq(Int)
BY PaperAssumption

LEMMA TradeIs ==
  ASSUME NEW t \in PaperTrades
  PROVE  /\ t.v \in ExitModes /\ t.p \in DOMAIN Signals /\ t.mode \in Modes /\ t.born \in Int /\ t.st \in Statuses
         /\ t.stop \in Int /\ t.fill \in Int /\ t.held \in Int /\ t.left \in Int /\ t.step \in Int
         /\ t.fills \in FillLists /\ t.exit \in Int /\ t.why \in Reasons /\ t.seen \in Int
BY DEF PaperTrades

LEMMA FillTyped ==
  ASSUME NEW fills \in FillLists, NEW i \in Int, NEW px \in Int
  PROVE  Append(fills, [bar |-> i, px |-> px]) \in FillLists
BY DEF FillLists

LEMMA FillPriced ==
  ASSUME NEW fills \in FillLists, NEW i \in Nat \ {0}, NEW px \in Int, NEW bars, Priced(fills, bars, i),
         px \in bars[i].l..bars[i].h
  PROVE  Priced(Append(fills, [bar |-> i, px |-> px]), bars, i)
<1> DEFINE f == [bar |-> i, px |-> px]
           a == Append(fills, f)
<1>1. f \in [bar : Int, px : Int] /\ f.bar = i /\ f.px = px
  OBVIOUS
<1> HIDE DEF f
<1>3. /\ DOMAIN a = 1..(Len(fills) + 1) /\ DOMAIN fills = 1..Len(fills) /\ Len(fills) \in Nat
      /\ \A n \in 1..Len(fills) : a[n] = fills[n]
      /\ a[Len(fills) + 1] = f
  BY <1>1, AppendProperties, LenProperties DEF FillLists
<1> HIDE DEF a
<1>4. ASSUME NEW k \in DOMAIN a PROVE a[k].bar \in 1..i /\ a[k].px \in bars[a[k].bar].l..bars[a[k].bar].h
  <2>1. CASE k \in DOMAIN fills
    <3>1. a[k] = fills[k]
      BY <1>3, <2>1
    <3> QED
      BY <2>1, <3>1, Zenon DEF Priced
  <2>2. CASE k \notin DOMAIN fills
    <3>1. k = Len(fills) + 1 /\ i \in 1..i
      BY <1>3, <1>4, <2>2
    <3>2. a[k] = f
      BY <1>3, <3>1
    <3> QED
      BY <1>1, <3>1, <3>2, Zenon
  <2> QED
    BY <2>1, <2>2
<1> QED
  BY <1>4, Zenon DEF Priced, a, f

\* The price of an exit is one of its bar: what is left is less by the part sold.
SoldAs(u, t, part, px, i) ==
  /\ u \in PaperTrades /\ Same(u, t) /\ u.born = t.born /\ u.held = t.held /\ u.seen = t.seen /\ u.step = t.step
  /\ u.left = t.left - part /\ u.fills = Append(t.fills, [bar |-> i, px |-> px])
  /\ (u.left = 0 => u.st = "closed" /\ u.exit = i)
  /\ (u.left # 0 => u.st = t.st /\ u.exit = t.exit)

LEMMA ExitMarked ==
  ASSUME NEW t \in PaperTrades, NEW part \in Int, NEW px \in Int, NEW i \in Int, NEW why \in Reasons
  PROVE  SoldAs(MarkExit(t, part, px, i, why), t, part, px, i)
<1> DEFINE left == t.left - part
           fs   == Append(t.fills, [bar |-> i, px |-> px])
           stop == IF t.mode = "split" /\ left > 0 /\ why = "target" THEN Higher(t.stop, t.fill) ELSE t.stop
           st   == IF left = 0 THEN "closed" ELSE t.st
           exit == IF left = 0 THEN i ELSE t.exit
           y    == IF left = 0 THEN why ELSE t.why
           u    == MarkExit(t, part, px, i, why)
<1>1. left \in Int /\ fs \in FillLists /\ stop \in Int /\ st \in Statuses /\ exit \in Int /\ y \in Reasons
  BY TradeIs, FillTyped DEF Higher, Statuses
<1>2. u = [t EXCEPT !.fills = fs, !.left = left, !.stop = stop, !.st = st, !.exit = exit, !.why = y]
  BY DEF MarkExit
<1>3. (left = 0 => st = "closed" /\ exit = i) /\ (left # 0 => st = t.st /\ exit = t.exit)
  OBVIOUS
<1> HIDE DEF left, fs, stop, st, exit, y, u
<1>4. /\ u \in PaperTrades /\ u.v = t.v /\ u.p = t.p /\ u.born = t.born /\ u.held = t.held /\ u.seen = t.seen /\ u.step = t.step
      /\ u.left = left /\ u.fills = fs /\ u.st = st /\ u.exit = exit
  BY <1>1, <1>2 DEF PaperTrades
<1> QED
  BY <1>3, <1>4 DEF SoldAs, Same, left, fs, u

LEMMA CancelMarked ==
  ASSUME NEW t \in PaperTrades, NEW i \in Int, NEW why \in Reasons, NEW u, u = Cancel(t, i, why)
  PROVE  /\ u \in PaperTrades /\ Same(u, t) /\ u.born = t.born /\ u.held = t.held /\ u.seen = t.seen /\ u.step = t.step
         /\ u.left = t.left /\ u.fills = t.fills /\ u.st = "cancelled" /\ u.exit = i
<1> DEFINE st == "cancelled"
<1>1. st \in Statuses
  BY DEF Statuses
<1>2. u = [t EXCEPT !.st = st, !.exit = i, !.why = why]
  BY DEF Cancel
<1> HIDE DEF st
<1>3. /\ u \in PaperTrades /\ u.v = t.v /\ u.p = t.p /\ u.born = t.born /\ u.held = t.held /\ u.seen = t.seen
      /\ u.step = t.step /\ u.left = t.left /\ u.fills = t.fills /\ u.st = st /\ u.exit = i
  BY <1>1, <1>2 DEF PaperTrades
<1> QED
  BY <1>3 DEF Same, st

\* While a bar i is handled: the trade t has become u.
MidBar(u, t, bars, i) ==
  /\ u \in PaperTrades /\ Same(u, t) /\ u.born = t.born /\ u.held = t.held /\ u.seen = t.seen /\ u.step = t.step
  /\ u.left \in 0..2 /\ (u.st = "closed" <=> u.left = 0) /\ (u.st \in Over => u.exit = i)
  /\ Priced(u.fills, bars, i)

\* The parts sold are those that are left.
LEMMA ExitWithin ==
  ASSUME NEW bars, NEW i \in Nat \ {0}, NEW t, NEW u, MidBar(u, t, bars, i), u.st = "open",
         NEW part \in Int, part \in 1..u.left, NEW px \in Int, px \in bars[i].l..bars[i].h, NEW why \in Reasons
  PROVE  MidBar(MarkExit(u, part, px, i, why), t, bars, i) /\ MarkExit(u, part, px, i, why).st \in {"open", "closed"}
<1> DEFINE w == MarkExit(u, part, px, i, why)
<1>1. u \in PaperTrades /\ i \in Int
  BY DEF MidBar
<1>2. SoldAs(w, u, part, px, i)
  BY <1>1, ExitMarked
<1> HIDE DEF w
<1>3. Priced(w.fills, bars, i)
  <2>1. u.fills \in FillLists /\ Priced(u.fills, bars, i)
    BY <1>1, TradeIs DEF MidBar
  <2>2. Priced(Append(u.fills, [bar |-> i, px |-> px]), bars, i)
    BY <2>1, FillPriced
  <2> QED
    BY <1>2, <2>2, Zenon DEF SoldAs
<1>4. Same(w, t) /\ w.born = t.born /\ w.held = t.held /\ w.seen = t.seen /\ w.step = t.step
  BY <1>2, Zenon DEF SoldAs, MidBar, Same
<1>5. w.left \in 0..2 /\ (w.st = "closed" <=> w.left = 0) /\ (w.st \in Over => w.exit = i) /\ w.st \in {"open", "closed"}
  <2>1. u.left \in 0..2
    BY DEF MidBar
  <2> QED
    BY <1>2, <2>1 DEF SoldAs, Over
<1>6. w \in PaperTrades
  BY <1>2, Zenon DEF SoldAs
<1> QED
  BY <1>3, <1>4, <1>5, <1>6, Zenon DEF w, MidBar

LEMMA TargetWithin ==
  ASSUME NEW bars, NEW i \in Nat \ {0}, bars[i] \in Shapes, NEW t, NEW u, MidBar(u, t, bars, i), u.st \in {"open", "closed"}
  PROVE  MidBar(OneTarget(u, bars[i], i), t, bars, i) /\ OneTarget(u, bars[i], i).st \in {"open", "closed"}
<1> DEFINE k  == CurrentTarget(u)
           tg == TargetsOf(u)
           b  == bars[i]
           px == Higher(tg[k], b.o)
           part == TargetFraction(u)
<1>1. CASE u.st = "closed" \/ k = 0
  <2>1. OneTarget(u, b, i) = u
    BY <1>1 DEF OneTarget
  <2> QED
    BY <2>1
<1>2. CASE ~(u.st = "closed" \/ k = 0) /\ b.h < tg[k]
  <2>1. OneTarget(u, b, i) = u
    BY <1>2 DEF OneTarget
  <2> QED
    BY <2>1
<1>3. CASE ~(u.st = "closed" \/ k = 0) /\ ~(b.h < tg[k])
  <2>1. OneTarget(u, b, i) = MarkExit(u, part, px, i, "target")
    BY <1>3 DEF OneTarget
  <2>2. u \in PaperTrades /\ u.left \in 0..2 /\ u.left # 0 /\ u.st = "open"
    BY <1>3 DEF MidBar
  <2>3. tg \in Seq(Int) /\ k \in 1..Len(tg)
    <3>1. tg \in Seq(Int)
      BY <2>2, TradeIs, SignalIs DEF TargetsOf
    <3>2. k \in {0, 1, 2} /\ (k # 0 => k <= Len(tg))
      BY DEF CurrentTarget
    <3> QED
      BY <1>3, <3>1, <3>2, LenProperties
  <2>4. tg[k] \in Int /\ b.o \in Int /\ b.h \in Int /\ b.l \in Int /\ b.o \in b.l..b.h
    BY <2>3, BarIs, ElementOfSeq
  <2>5. px \in Int /\ px \in b.l..b.h
    BY <1>3, <2>4 DEF Higher
  <2>6. part \in Int /\ part \in 1..u.left
    BY <2>2 DEF TargetFraction
  <2> HIDE DEF px, part, k, tg
  <2>7. "target" \in Reasons
    BY DEF Reasons
  <2>8. MidBar(MarkExit(u, part, px, i, "target"), t, bars, i) /\ MarkExit(u, part, px, i, "target").st \in {"open", "closed"}
    BY <2>2, <2>5, <2>6, <2>7, ExitWithin
  <2> QED
    BY <2>1, <2>8
<1> QED
  BY <1>1, <1>2, <1>3

\* The trade at the prices of a bar.
LEMMA CandleWithin ==
  ASSUME NEW bars, NEW i \in Nat \ {0}, bars[i] \in Shapes, NEW t, Fit(t, bars, i - 1)
  PROVE  MidBar(OnCandle(t, bars[i], i), t, bars, i)
<1> DEFINE b == bars[i]
           w == OnCandle(t, b, i)
           en == Signals[t.p].entry
<1>1. /\ t \in PaperTrades /\ t.st \in {"pending", "open"} /\ t.left \in {1, 2} /\ t.seen <= i - 1 /\ t.stop \in Int /\ t.seen \in Int
      /\ t.born \in 1..i - 1 /\ en \in Int /\ t.p \in DOMAIN Signals
  BY TradeIs, SignalIs DEF Fit
<1>2. /\ b.o \in Int /\ b.h \in Int /\ b.l \in Int /\ b.c \in Int /\ b.o \in b.l..b.h /\ b.c \in b.l..b.h
  BY BarIs
<1>3. Priced(t.fills, bars, i) /\ Priced(t.fills, bars, i - 1)
  BY DEF Fit, Priced
<1>4. MidBar(t, t, bars, i)
  BY <1>1, <1>3 DEF MidBar, Same, Over
<1>5. ~(i <= t.seen)
  BY <1>1
<1>6. ASSUME NEW why \in Reasons PROVE MidBar(Cancel(t, i, why), t, bars, i)
  <2> DEFINE c == Cancel(t, i, why)
  <2>1. /\ c \in PaperTrades /\ Same(c, t) /\ c.born = t.born /\ c.held = t.held /\ c.seen = t.seen
        /\ c.step = t.step /\ c.left = t.left /\ c.fills = t.fills /\ c.st = "cancelled" /\ c.exit = i
    BY <1>1, CancelMarked
  <2> HIDE DEF c
  <2>2. c.left \in 0..2 /\ (c.st = "closed" <=> c.left = 0)
    BY <1>1, <2>1
  <2> QED
    BY <1>3, <2>1, <2>2 DEF MidBar, c
<1>7. CASE t.st = "pending"
  <2>1. CASE i >= t.born + 1 + Alive
    <3>1. w = Cancel(t, i, "expired")
      BY <1>5, <1>7, <2>1 DEF OnCandle
    <3> QED
      BY <1>6, <3>1 DEF Reasons
  <2>2. CASE ~(i >= t.born + 1 + Alive) /\ b.h >= en
    <3> DEFINE px == Higher(en, b.o)
               u  == [t EXCEPT !.st = "open", !.fill = px]
    <3>1. w = FillIn(t, b, i)
      BY <1>5, <1>7, <2>2 DEF OnCandle
    <3>2. px \in Int /\ px \in b.l..b.h
      BY <1>1, <1>2, <2>2 DEF Higher
    <3> HIDE DEF px
    <3>3. /\ u \in PaperTrades /\ u.v = t.v /\ u.p = t.p /\ u.born = t.born /\ u.held = t.held /\ u.seen = t.seen
          /\ u.step = t.step /\ u.left = t.left /\ u.fills = t.fills /\ u.st = "open"
      BY <1>1, <3>2 DEF PaperTrades, Statuses
    <3>4. w = IF b.l <= t.stop THEN MarkExit(u, u.left, Lower(t.stop, px), i, "stop") ELSE u
      BY <3>1, Zenon DEF FillIn, px
    <3> HIDE DEF u
    <3>5. MidBar(u, t, bars, i)
      BY <1>1, <1>3, <3>3 DEF MidBar, Same, Over
    <3>6. CASE b.l <= t.stop
      <4>1. Lower(t.stop, px) \in Int /\ Lower(t.stop, px) \in b.l..b.h
        BY <1>1, <1>2, <3>2, <3>6 DEF Lower
      <4>2. u.left \in Int /\ u.left \in 1..u.left
        BY <1>1, <3>3
      <4>3. "stop" \in Reasons
        BY DEF Reasons
      <4>4. MidBar(MarkExit(u, u.left, Lower(t.stop, px), i, "stop"), t, bars, i)
        BY <3>3, <3>5, <4>1, <4>2, <4>3, ExitWithin
      <4> QED
        BY <3>4, <3>6, <4>4
    <3> QED
      BY <3>4, <3>5, <3>6
  <2>3. CASE ~(i >= t.born + 1 + Alive) /\ ~(b.h >= en)
    <3>1. w = Cancel(t, i, "stop_before_entry") \/ w = t
      BY <1>5, <1>7, <2>3 DEF OnCandle
    <3> HIDE DEF w
    <3>2. MidBar(w, t, bars, i)
      BY <1>4, <1>6, <3>1 DEF Reasons
    <3> QED
      BY <3>2 DEF w
  <2> QED
    BY <2>1, <2>2, <2>3
<1>8. CASE t.st = "open"
  <2>1. CASE b.l <= t.stop
    <3>1. w = MarkExit(t, t.left, GapPrice(t, b), i, "stop")
      BY <1>5, <1>8, <2>1 DEF OnCandle
    <3>2. GapPrice(t, b) \in Int /\ GapPrice(t, b) \in b.l..b.h
      BY <1>1, <1>2, <2>1 DEF GapPrice, Lower
    <3>3. t.left \in Int /\ t.left \in 1..t.left
      BY <1>1
    <3>4. "stop" \in Reasons
      BY DEF Reasons
    <3>5. MidBar(MarkExit(t, t.left, GapPrice(t, b), i, "stop"), t, bars, i)
      BY <1>4, <1>8, <3>2, <3>3, <3>4, ExitWithin
    <3> QED
      BY <3>1, <3>5
  <2>2. CASE ~(b.l <= t.stop)
    <3> DEFINE x == OneTarget(t, b, i)
               y == OneTarget(x, b, i)
    <3>1. w = OneTarget(y, b, i)
      BY <1>5, <1>8, <2>2 DEF OnCandle, Targets
    <3>2. MidBar(x, t, bars, i) /\ x.st \in {"open", "closed"}
      BY <1>4, <1>8, TargetWithin
    <3> HIDE DEF x
    <3>3. MidBar(y, t, bars, i) /\ y.st \in {"open", "closed"}
      BY <3>2, TargetWithin
    <3> HIDE DEF y
    <3> QED
      BY <3>1, <3>3, TargetWithin
  <2> QED
    BY <2>1, <2>2
<1> QED
  BY <1>1, <1>7, <1>8

\* The rungs that the bar reaches, and what the stop may become.
Rungs(t, b) == IF t.mode = "ladder" THEN {k \in t.step + 1..Len(TargetsOf(t)) : b.h >= TargetsOf(t)[k]} ELSE {}
Trails(t, n) == t.held + 1 >= 3 /\ (Trailing(t) \/ (t.mode = "ladder" /\ t.step + n = Len(TargetsOf(t))))
Lowest(bars, i) == CHOOSE x \in {bars[j].l : j \in i - 2..i} : \A j \in i - 2..i : x <= bars[j].l
StopsFor(t, bars, i) ==
  {t.stop} \cup {IF k = 1 THEN t.fill ELSE TargetsOf(t)[k - 1] : k \in Rungs(t, bars[i])}
           \cup (IF Trails(t, Cardinality(Rungs(t, bars[i]))) THEN {Lowest(bars, i) - Pad} ELSE {})

LEMMA RatchetIs ==
  ASSUME NEW t, NEW bars, NEW i
  PROVE  Ratchet(t, bars, i) =
           [t EXCEPT !.held = @ + 1, !.seen = i, !.step = @ + Cardinality(Rungs(t, bars[i])),
                     !.stop = CHOOSE x \in StopsFor(t, bars, i) : \A y \in StopsFor(t, bars, i) : y <= x]
BY Zenon DEF Ratchet, Rungs, Trails, Lowest, StopsFor

LEMMA LowestIs ==
  ASSUME NEW bars, NEW i \in Nat, i - 2 >= 1, \A j \in 1..i : bars[j] \in Shapes
  PROVE  Lowest(bars, i) \in Int
<1> DEFINE a == bars[i - 2].l
           b == bars[i - 1].l
           c == bars[i].l
<1>1. a \in Int /\ b \in Int /\ c \in Int
  <2>1. bars[i - 2] \in Shapes /\ bars[i - 1] \in Shapes /\ bars[i] \in Shapes
    <3>1. i - 2 \in 1..i /\ i - 1 \in 1..i /\ i \in 1..i
      OBVIOUS
    <3> QED
      BY <3>1
  <2> QED
    BY <2>1, BarIs
<1>2. \A j \in i - 2..i : j = i - 2 \/ j = i - 1 \/ j = i
  OBVIOUS
<1>3. {bars[j].l : j \in i - 2..i} = {a, b, c}
  <2>1. i - 2 \in i - 2..i /\ i - 1 \in i - 2..i /\ i \in i - 2..i
    OBVIOUS
  <2> QED
    BY <1>2, <2>1
<1> HIDE DEF a, b, c
<1>4. \E x \in {a, b, c} : x <= a /\ x <= b /\ x <= c
  BY <1>1, ThreeLeast
<1>5. \E x \in {bars[j].l : j \in i - 2..i} : \A j \in i - 2..i : x <= bars[j].l
  BY <1>2, <1>3, <1>4 DEF a, b, c
<1>6. Lowest(bars, i) \in {bars[j].l : j \in i - 2..i}
  BY <1>5 DEF Lowest
<1> QED
  BY <1>1, <1>3, <1>6

LEMMA StopChosen ==
  ASSUME NEW t \in PaperTrades, t.step \in Nat, NEW bars, NEW i \in Nat \ {0}, t.held < i - 1,
         \A j \in 1..i : bars[j] \in Shapes
  PROVE  /\ Cardinality(Rungs(t, bars[i])) \in Nat
         /\ (CHOOSE x \in StopsFor(t, bars, i) : \A y \in StopsFor(t, bars, i) : y <= x) \in Int
<1> DEFINE b == bars[i]
           tg == TargetsOf(t)
           R == Rungs(t, b)
           raised == {IF k = 1 THEN t.fill ELSE tg[k - 1] : k \in R}
           trail == IF Trails(t, Cardinality(R)) THEN {Lowest(bars, i) - Pad} ELSE {}
           S == StopsFor(t, bars, i)
<1>1. /\ tg \in Seq(Int) /\ Len(tg) \in Nat /\ t.stop \in Int /\ t.fill \in Int /\ t.held \in Int /\ t.step \in Nat
  BY TradeIs, SignalIs, LenProperties DEF TargetsOf
<1>2. R \in SUBSET (t.step + 1..Len(tg)) /\ IsFiniteSet(t.step + 1..Len(tg))
  <2>1. t.step + 1 \in Int /\ Len(tg) \in Int
    BY <1>1
  <2>2. IsFiniteSet(t.step + 1..Len(tg))
    BY <2>1, FS_Interval
  <2> QED
    BY <2>2 DEF Rungs
<1>3. IsFiniteSet(R) /\ Cardinality(R) \in Nat
  BY <1>2, FS_Subset, FS_CardinalityType, Zenon
<1>4. raised \in SUBSET Int
  <2>1. ASSUME NEW k \in R PROVE (IF k = 1 THEN t.fill ELSE tg[k - 1]) \in Int
    <3>1. k \in t.step + 1..Len(tg)
      BY <1>2, Zenon
    <3>2. k # 1 => k - 1 \in 1..Len(tg)
      BY <1>1, <3>1
    <3>3. k # 1 => tg[k - 1] \in Int
      BY <1>1, <3>2, ElementOfSeq
    <3> QED
      BY <1>1, <3>3
  <2> HIDE DEF R, tg
  <2> QED
    BY <2>1
<1>5. IsFiniteSet(raised)
  <2> DEFINE f == [k \in R |-> IF k = 1 THEN t.fill ELSE tg[k - 1]]
  <2> HIDE DEF R, tg
  <2>1. f \in Surjection(R, raised)
    BY DEF Surjection
  <2> HIDE DEF raised, f
  <2> QED
    BY <1>3, <2>1, FS_Surjection, Zenon
<1>6. trail \in SUBSET Int /\ IsFiniteSet(trail)
  <2>1. CASE Trails(t, Cardinality(R))
    <3>1. t.held + 1 >= 3
      BY <2>1 DEF Trails
    <3>2. i - 2 >= 1 /\ i \in Nat
      BY <1>1, <3>1
    <3>3. Lowest(bars, i) \in Int /\ Pad \in Int
      BY <3>2, LowestIs, PaperAssumption
    <3>4. Lowest(bars, i) - Pad \in Int /\ trail = {Lowest(bars, i) - Pad}
      BY <2>1, <3>3
    <3> QED
      BY <3>4, FS_Singleton
  <2>2. CASE ~Trails(t, Cardinality(R))
    BY <2>2, FS_EmptySet
  <2> QED
    BY <2>1, <2>2
<1>7. S = {t.stop} \cup raised \cup trail
  BY Zenon DEF StopsFor
<1> HIDE DEF raised, trail, R, tg
<1>8. IsFiniteSet({t.stop} \cup raised) /\ IsFiniteSet({t.stop})
  BY <1>5, FS_Singleton, FS_Union, Zenon
<1>9. IsFiniteSet(S) /\ S \in SUBSET Int /\ S # {}
  <2>1. IsFiniteSet(S)
    BY <1>6, <1>7, <1>8, FS_Union, Zenon
  <2> QED
    BY <1>1, <1>4, <1>6, <1>7, <2>1
<1> HIDE DEF S
<1>10. (CHOOSE x \in S : \A y \in S : y <= x) \in Int
  <2>1. \E x \in S : \A y \in S : y <= x
    BY <1>9, OneGreatest
  <2>2. (CHOOSE x \in S : \A y \in S : y <= x) \in S
    BY <2>1
  <2> QED
    BY <1>9, <2>2
<1> QED
  BY <1>3, <1>10 DEF R, S

Ratcheted(u, t, i) ==
  /\ u \in PaperTrades /\ Same(u, t) /\ u.born = t.born /\ u.left = t.left /\ u.fills = t.fills /\ u.st = t.st
  /\ u.exit = t.exit /\ u.held = t.held + 1 /\ u.seen = i /\ u.step \in Nat

LEMMA RatchetKeeps ==
  ASSUME NEW t \in PaperTrades, t.step \in Nat, NEW bars, NEW i \in Nat \ {0}, t.held < i - 1,
         \A j \in 1..i : bars[j] \in Shapes
  PROVE  Ratcheted(Ratchet(t, bars, i), t, i)
<1> DEFINE card == Cardinality(Rungs(t, bars[i]))
           n == t.step + card
           h == t.held + 1
           s == CHOOSE x \in StopsFor(t, bars, i) : \A y \in StopsFor(t, bars, i) : y <= x
           u == Ratchet(t, bars, i)
<1>1. t.held \in Int /\ card \in Nat /\ s \in Int
  <2>1. t.held \in Int
    BY TradeIs
  <2> QED
    BY <2>1, StopChosen, Zenon
<1>2. u = [t EXCEPT !.held = h, !.seen = i, !.step = n, !.stop = s]
  BY RatchetIs
<1> HIDE DEF card, s, u
<1>3. n \in Nat /\ n \in Int /\ h \in Int /\ i \in Int
  BY <1>1
<1> HIDE DEF n, h
<1>4. /\ u \in PaperTrades /\ u.v = t.v /\ u.p = t.p /\ u.born = t.born /\ u.left = t.left /\ u.fills = t.fills /\ u.st = t.st
      /\ u.exit = t.exit /\ u.held = h /\ u.seen = i /\ u.step = n
  BY <1>1, <1>2, <1>3 DEF PaperTrades
<1> QED
  BY <1>3, <1>4 DEF Ratcheted, Same, h, u

\* A trade that lived a bar.
After(u, t, bars, i) ==
  /\ u \in PaperTrades /\ Same(u, t) /\ u.born = t.born /\ Priced(u.fills, bars, i)
  /\ (u.st \in Over => u.exit = i /\ (u.st = "closed" <=> u.left = 0))
  /\ (u.st \notin Over => Fit(u, bars, i))

LEMMA CloseReached ==
  ASSUME NEW bars, NEW i \in Nat \ {0}, \A j \in 1..i : bars[j] \in Shapes, NEW t, Fit(t, bars, i - 1),
         NEW u, MidBar(u, t, bars, i)
  PROVE  After(OnClose(u, bars, i), t, bars, i)
<1>1. /\ u \in PaperTrades /\ Same(u, t) /\ u.born = t.born /\ u.held = t.held /\ u.seen = t.seen /\ u.step = t.step
      /\ u.left \in 0..2 /\ (u.st = "closed" <=> u.left = 0) /\ (u.st \in Over => u.exit = i)
      /\ Priced(u.fills, bars, i) /\ u.st \in Statuses
  BY TradeIs, Zenon DEF MidBar
<1>2. t.held \in 0..(i - 1 - t.born) /\ t.step \in Nat /\ t.born \in 1..i - 1 /\ t.seen <= i - 1 /\ t.seen \in Int
  BY TradeIs DEF Fit
<1>3. CASE u.st \in Over
  <2>1. OnClose(u, bars, i) = [u EXCEPT !.seen = u.seen]
    BY <1>3 DEF OnClose, Over
  <2>2. [u EXCEPT !.seen = u.seen] = u
    BY <1>1 DEF PaperTrades
  <2> QED
    BY <1>1, <1>3, <2>1, <2>2, Zenon DEF After
<1>4. CASE u.st = "pending"
  <2> DEFINE w == [u EXCEPT !.seen = i]
  <2>1. OnClose(u, bars, i) = w
    BY <1>4 DEF OnClose
  <2>2. /\ w \in PaperTrades /\ w.v = u.v /\ w.p = u.p /\ w.born = u.born /\ w.held = u.held /\ w.seen = i /\ w.step = u.step
        /\ w.left = u.left /\ w.st = u.st /\ w.exit = u.exit /\ w.fills = u.fills
    BY <1>1 DEF PaperTrades
  <2> HIDE DEF w
  <2>3. Fit(w, bars, i)
    <3>1. w.left \in {1, 2} /\ w.born \in 1..i /\ w.held \in 0..(i - w.born) /\ w.seen <= i
      BY <1>1, <1>2, <1>4, <2>2
    <3> QED
      BY <1>1, <1>2, <1>4, <2>2, <3>1 DEF Fit
  <2>4. w.st \notin Over
    BY <1>4, <2>2 DEF Over
  <2> QED
    BY <1>1, <2>1, <2>2, <2>3, <2>4, Zenon DEF After, Same
<1>5. CASE u.st = "open"
  <2> DEFINE r == Ratchet(u, bars, i)
             b == bars[i]
             why == IF b.c < Signals[u.p].soft THEN "back_in_box"
                    ELSE IF b.reversal         THEN "reversal_signal"
                    ELSE IF r.held >= Longest  THEN "time"
                    ELSE IF b.c <= r.stop      THEN "stop_close"
                    ELSE ""
  <2>1. OnClose(u, bars, i) = IF why = "" THEN r ELSE MarkExit(r, r.left, b.c, i, why)
    BY <1>5, Zenon DEF OnClose
  <2>2. why \in Reasons
    BY DEF Reasons
  <2> HIDE DEF why
  <2>3. /\ r \in PaperTrades /\ Same(r, u) /\ r.born = u.born /\ r.left = u.left /\ r.fills = u.fills /\ r.st = u.st
        /\ r.exit = u.exit /\ r.held = u.held + 1 /\ r.seen = i /\ r.step \in Nat
    <3>1. u.held < i - 1
      BY <1>1, <1>2
    <3>2. Ratcheted(r, u, i)
      BY <1>1, <1>2, <3>1, RatchetKeeps
    <3> QED
      BY <3>2, Zenon DEF Ratcheted
  <2> HIDE DEF r
  <2>4. r.left \in {1, 2} /\ r.held \in 0..(i - r.born) /\ r.born \in 1..i /\ r.st = "open"
    BY <1>1, <1>2, <1>5, <2>3
  <2>5. Fit(r, bars, i)
    BY <1>1, <2>3, <2>4 DEF Fit
  <2>6. Same(r, t)
    BY <1>1, <2>3, Zenon DEF Same
  <2>7. CASE why = ""
    <3>1. r.st \notin Over
      BY <2>4 DEF Over
    <3> QED
      BY <1>1, <2>1, <2>3, <2>5, <2>6, <2>7, <3>1, Zenon DEF After
  <2>8. CASE why # ""
    <3> DEFINE w == MarkExit(r, r.left, b.c, i, why)
    <3>1. r.left \in Int /\ b.c \in Int /\ b.c \in b.l..b.h /\ i \in Int
      <4>1. i \in 1..i
        OBVIOUS
      <4>2. b \in Shapes
        BY <4>1
      <4> QED
        BY <2>4, <4>2, BarIs
    <3>2. SoldAs(w, r, r.left, b.c, i)
      BY <2>2, <2>3, <3>1, ExitMarked
    <3> HIDE DEF w
    <3>3. w.left = 0
      BY <3>1, <3>2 DEF SoldAs
    <3>4. Priced(w.fills, bars, i)
      <4>1. r.fills \in FillLists /\ Priced(r.fills, bars, i)
        BY <1>1, <2>3, TradeIs
      <4>2. Priced(Append(r.fills, [bar |-> i, px |-> b.c]), bars, i)
        BY <3>1, <4>1, FillPriced
      <4> QED
        BY <3>2, <4>2, Zenon DEF SoldAs
    <3>5. w \in PaperTrades /\ Same(w, t) /\ w.born = t.born /\ w.st = "closed" /\ w.exit = i
      BY <1>1, <2>3, <2>6, <3>2, <3>3, Zenon DEF SoldAs, Same
    <3>6. After(w, t, bars, i)
      BY <3>3, <3>4, <3>5 DEF After, Over
    <3> QED
      BY <2>1, <2>8, <3>6 DEF w
  <2> QED
    BY <2>7, <2>8
<1> QED
  BY <1>1, <1>3, <1>4, <1>5 DEF Statuses, Over

LEMMA LivedParts ==
  ASSUME NEW bars, NEW i \in Nat \ {0}, \A j \in 1..i : bars[j] \in Shapes, NEW t, Fit(t, bars, i - 1)
  PROVE  After(Lived(t, bars, i), t, bars, i)
<1> DEFINE u == OnCandle(t, bars[i], i)
<1>1. bars[i] \in Shapes
  <2>1. i \in 1..i
    OBVIOUS
  <2> QED
    BY <2>1
<1>2. MidBar(u, t, bars, i)
  BY <1>1, CandleWithin
<1> HIDE DEF u
<1>3. After(OnClose(u, bars, i), t, bars, i)
  BY <1>2, CloseReached
<1> QED
  BY <1>3 DEF Lived, u

\* It does not look at bars to come.
LEMMA LivedSame ==
  ASSUME NEW bars, NEW bars2, NEW i \in Nat \ {0}, \A j \in 1..i : bars[j] \in Shapes /\ bars2[j] = bars[j],
         NEW t, Fit(t, bars, i - 1)
  PROVE  Lived(t, bars2, i) = Lived(t, bars, i)
<1> DEFINE u == OnCandle(t, bars[i], i)
<1>1. bars[i] \in Shapes /\ bars2[i] = bars[i]
  <2>1. i \in 1..i
    OBVIOUS
  <2> QED
    BY <2>1
<1>2. MidBar(u, t, bars, i)
  BY <1>1, CandleWithin
<1> HIDE DEF u
<1>3. u.held = t.held /\ t.held \in Int /\ t.held < i - 1
  <2>1. t.held \in 0..(i - 1 - t.born) /\ t.born \in 1..i - 1
    BY DEF Fit
  <2> QED
    BY <1>2, <2>1 DEF MidBar
<1>4. Trails(u, Cardinality(Rungs(u, bars[i]))) => Lowest(bars2, i) = Lowest(bars, i)
  <2> SUFFICES ASSUME u.held + 1 >= 3 PROVE Lowest(bars2, i) = Lowest(bars, i)
    BY DEF Trails
  <2>1. \A j \in i - 2..i : bars2[j] = bars[j]
    BY <1>3
  <2>2. {bars2[j].l : j \in i - 2..i} = {bars[j].l : j \in i - 2..i}
    BY <2>1
  <2>3. \A x : (\A j \in i - 2..i : x <= bars2[j].l) <=> (\A j \in i - 2..i : x <= bars[j].l)
    BY <2>1
  <2> QED
    BY <2>2, <2>3 DEF Lowest
<1>5. StopsFor(u, bars2, i) = StopsFor(u, bars, i)
  BY <1>1, <1>4, Zenon DEF StopsFor
<1>6. Ratchet(u, bars2, i) = Ratchet(u, bars, i)
  BY <1>1, <1>5, RatchetIs, Zenon
<1>7. OnClose(u, bars2, i) = OnClose(u, bars, i)
  BY <1>1, <1>6, Zenon DEF OnClose
<1> QED
  BY <1>1, <1>7 DEF Lived, u

----------------------------------------------------------------------------
(* What a trade comes to, bar by bar.                                       *)

LEMMA ReplayIs ==
  ASSUME NEW v, NEW p, NEW born, NEW to
  PROVE  Replay(v, p, born, to) = ReplayOn(market, v, p, born, to)
BY Zenon DEF Replay, ReplayOn, LifeUpTo, Turned

LifeOf(f, bars, v, p, born, to) ==
  f[born] = NewTrade(v, p, born) /\ \A k \in born + 1..to : f[k] = Turned(f[k - 1], bars, k)

\* A trade and a book go from bar to bar in the same way.
Onward(kind, u, bars, i) == IF kind = "trade" THEN Turned(u, bars, i) ELSE BookBar(u, bars, i)
RunOver(kind, bars, root, born, to, f) ==
  f = [i \in born..to |-> IF i = born THEN root ELSE Onward(kind, f[i - 1], bars, i)]

LEMMA RunExists ==
  ASSUME NEW kind, NEW bars, NEW root, NEW born \in Int
  PROVE  \A m \in Nat : \E f : RunOver(kind, bars, root, born, born + m, f)
<1> DEFINE Bad == {m \in Nat : ~\E f : RunOver(kind, bars, root, born, born + m, f)}
<1> SUFFICES ASSUME Bad # {} PROVE FALSE
  OBVIOUS
<1>1. PICK m \in Bad : \A x \in Bad : ~(<<x, m>> \in OpToRel(<, Nat))
  BY NatLessThanWellFounded, WFMin, Zenon
<1>2. \A x \in Bad : ~(x < m)
  BY <1>1 DEF OpToRel
<1>3. CASE m = 0
  <2> DEFINE f == [k \in born..born |-> root]
  <2>1. \A k \in born..born : k = born
    OBVIOUS
  <2>2. f = [k \in born..born |-> IF k = born THEN root ELSE Onward(kind, f[k - 1], bars, k)]
    BY <2>1, Zenon
  <2>3. born + m = born
    BY <1>3
  <2> QED
    BY <1>1, <2>2, <2>3, Zenon DEF RunOver
<1>4. CASE m # 0
  <2> DEFINE top == born + m
  <2>1. m - 1 \in Nat /\ m - 1 < m /\ m \in Nat /\ born + (m - 1) = top - 1 /\ top \in Int /\ born < top
    BY <1>4
  <2>2. PICK e : RunOver(kind, bars, root, born, top - 1, e)
    BY <1>2, <2>1
  <2> HIDE DEF top
  <2> DEFINE f == [k \in born..top |-> IF k = top THEN Onward(kind, e[top - 1], bars, top) ELSE e[k]]
             F == [k \in born..top |-> IF k = born THEN root ELSE Onward(kind, f[k - 1], bars, k)]
  <2>3. ASSUME NEW k \in born..top PROVE f[k] = F[k]
    <3>1. CASE k = top
      <4>1. top - 1 \in born..top /\ top - 1 # top
        BY <2>1
      <4>2. f[top - 1] = e[top - 1] /\ f[k] = Onward(kind, e[top - 1], bars, top)
        BY <3>1, <4>1, Zenon
      <4>3. k # born
        BY <2>1, <3>1
      <4> QED
        BY <3>1, <4>2, <4>3, Zenon
    <3>2. CASE k # top /\ k = born
      <4>1. k \in born..(top - 1)
        BY <2>1, <3>2
      <4>2. e[k] = root
        BY <2>2, <3>2, <4>1, Zenon DEF RunOver
      <4> QED
        BY <3>2, <4>2, Zenon
    <3>3. CASE k # top /\ k # born
      <4>1. k \in born..(top - 1) /\ k - 1 \in born..top /\ k - 1 # top
        BY <2>1, <3>3
      <4>2. e[k] = Onward(kind, e[k - 1], bars, k)
        BY <2>2, <3>3, <4>1, Zenon DEF RunOver
      <4> QED
        BY <3>3, <4>1, <4>2, Zenon
    <3> QED
      BY <3>1, <3>2, <3>3
  <2>4. f = F
    BY <2>3, Zenon
  <2> QED
    BY <1>1, <2>1, <2>4, Zenon DEF RunOver, top
<1> QED
  BY <1>3, <1>4

LEMMA LifeChosen ==
  ASSUME NEW bars, NEW v, NEW p, NEW born \in Int, NEW to \in Int, born <= to
  PROVE  \E f : LifeOf(f, bars, v, p, born, to) /\ ReplayOn(bars, v, p, born, to) = f[to]
<1> DEFINE f == CHOOSE f : LifeUpTo(bars, v, p, born, to, f)
<1>1. \E e : LifeUpTo(bars, v, p, born, to, e)
  <2>1. to - born \in Nat /\ born + (to - born) = to
    OBVIOUS
  <2>2. PICK e : RunOver("trade", bars, NewTrade(v, p, born), born, to, e)
    BY <2>1, RunExists
  <2>3. \A u, i : Onward("trade", u, bars, i) = Turned(u, bars, i)
    BY DEF Onward
  <2>4. LifeUpTo(bars, v, p, born, to, e)
    BY <2>2, <2>3 DEF RunOver, LifeUpTo
  <2> QED
    BY <2>4
<1>2. LifeUpTo(bars, v, p, born, to, f)
  BY <1>1, Zenon
<1>3. ReplayOn(bars, v, p, born, to) = f[to]
  BY Zenon DEF ReplayOn
<1> HIDE DEF f
<1>4. \A k \in born..to : f[k] = IF k = born THEN NewTrade(v, p, born) ELSE Turned(f[k - 1], bars, k)
  BY <1>2, Zenon DEF LifeUpTo
<1>5. born \in born..to /\ \A k \in born + 1..to : k \in born..to /\ k # born
  OBVIOUS
<1> QED
  BY <1>3, <1>4, <1>5, Zenon DEF LifeOf

LEMMA NewFits ==
  ASSUME NEW v \in ExitModes, NEW p \in DOMAIN Signals, NEW i \in Nat \ {0}, NEW bars
  PROVE  Fit(NewTrade(v, p, i), bars, i)
<1> DEFINE mode == Mode(v, p)
           stop == Signals[p].stop
           fs == <<>>
           st == "pending"
           why == ""
           t == NewTrade(v, p, i)
<1>1. mode \in Modes /\ stop \in Int /\ fs \in FillLists /\ st \in Statuses /\ why \in Reasons
  BY SignalIs DEF Mode, Modes, FillLists, Statuses, Reasons
<1>2. Priced(fs, bars, i)
  BY DEF Priced
<1>3. t = [v |-> v, p |-> p, mode |-> mode, born |-> i, st |-> st, stop |-> stop,
           fill |-> 0, held |-> 0, left |-> 2, step |-> 0, fills |-> fs, exit |-> 0, why |-> why, seen |-> i]
  BY Zenon DEF NewTrade
<1>4. st = "pending"
  OBVIOUS
<1> HIDE DEF mode, stop, fs, st, why, t
<1>5. t \in PaperTrades /\ t.st = st /\ t.left = 2 /\ t.step = 0 /\ t.born = i /\ t.held = 0 /\ t.seen = i /\ t.fills = fs
  BY <1>1, <1>3 DEF PaperTrades
<1> QED
  BY <1>2, <1>4, <1>5 DEF Fit, t

\* The trades of a life, and that they do not depend on bars to come.
LEMMA LifeRight ==
  ASSUME NEW v \in ExitModes, NEW p \in DOMAIN Signals, NEW born \in Nat \ {0}, NEW to \in Nat, NEW bars, NEW bars2,
         \A j \in 1..to : bars[j] \in Shapes /\ bars2[j] = bars[j],
         NEW f, LifeOf(f, bars, v, p, born, to), NEW g, LifeOf(g, bars2, v, p, born, to)
  PROVE  \A k \in born..to : g[k] = f[k]
<1> DEFINE Good(k) == g[k] = f[k] /\ (f[k].st \notin Over => Fit(f[k], bars, k))
           Bad == {k \in Nat : k \in born..to /\ ~Good(k)}
<1> SUFFICES ASSUME Bad # {} PROVE FALSE
  OBVIOUS
<1>1. PICK m \in Bad : \A x \in Bad : ~(<<x, m>> \in OpToRel(<, Nat))
  BY NatLessThanWellFounded, WFMin, Zenon
<1>2. \A x \in Bad : ~(x < m)
  BY <1>1 DEF OpToRel
<1>3. m \in Nat /\ m \in born..to /\ ~Good(m)
  BY <1>1
<1>4. m # born
  BY <1>3, NewFits DEF LifeOf
<1>5. m - 1 \in born..to /\ m - 1 \in Nat /\ m - 1 < m /\ m \in born + 1..to /\ m \in Nat \ {0}
  BY <1>3, <1>4
<1>6. Good(m - 1)
  BY <1>2, <1>5
<1> DEFINE u == f[m - 1]
<1>7. f[m] = Turned(u, bars, m) /\ g[m] = Turned(u, bars2, m)
  BY <1>5, <1>6, Zenon DEF LifeOf
<1> HIDE DEF u
<1>8. CASE u.st \in Over
  BY <1>3, <1>7, <1>8, Zenon DEF Turned
<1>9. CASE u.st \notin Over
  <2>1. Fit(u, bars, m - 1)
    BY <1>6, <1>9 DEF u
  <2>2. \A j \in 1..m : bars[j] \in Shapes /\ bars2[j] = bars[j]
    BY <1>3
  <2>3. Lived(u, bars2, m) = Lived(u, bars, m) /\ After(Lived(u, bars, m), u, bars, m)
    BY <1>5, <2>1, <2>2, LivedSame, LivedParts
  <2>4. f[m] = Lived(u, bars, m) /\ g[m] = Lived(u, bars2, m)
    BY <1>7, <1>9, Zenon DEF Turned
  <2> QED
    BY <1>3, <2>3, <2>4, Zenon DEF After
<1> QED
  BY <1>8, <1>9

LEMMA ReplayNew ==
  ASSUME NEW bars, NEW v, NEW p, NEW i \in Int
  PROVE  ReplayOn(bars, v, p, i, i) = NewTrade(v, p, i)
<1>1. PICK f : LifeOf(f, bars, v, p, i, i) /\ ReplayOn(bars, v, p, i, i) = f[i]
  BY LifeChosen
<1> QED
  BY <1>1, Zenon DEF LifeOf

LEMMA ReplayNext ==
  ASSUME NEW bars, NEW v \in ExitModes, NEW p \in DOMAIN Signals, NEW born \in Nat \ {0}, NEW i \in Nat, born < i,
         \A j \in 1..i : bars[j] \in Shapes
  PROVE  ReplayOn(bars, v, p, born, i) = Turned(ReplayOn(bars, v, p, born, i - 1), bars, i)
<1>1. PICK f : LifeOf(f, bars, v, p, born, i) /\ ReplayOn(bars, v, p, born, i) = f[i]
  BY LifeChosen
<1>2. PICK g : LifeOf(g, bars, v, p, born, i - 1) /\ ReplayOn(bars, v, p, born, i - 1) = g[i - 1]
  BY LifeChosen
<1>3. LifeOf(f, bars, v, p, born, i - 1)
  <2>1. \A k \in born + 1..i - 1 : k \in born + 1..i
    OBVIOUS
  <2> QED
    BY <1>1, <2>1, Zenon DEF LifeOf
<1>4. i - 1 \in Nat /\ \A j \in 1..i - 1 : bars[j] \in Shapes /\ bars[j] = bars[j]
  OBVIOUS
<1>5. \A k \in born..i - 1 : g[k] = f[k]
  BY <1>2, <1>3, <1>4, LifeRight
<1>6. i - 1 \in born..i - 1 /\ i \in born + 1..i
  OBVIOUS
<1>7. f[i] = Turned(f[i - 1], bars, i)
  BY <1>1, <1>6, Zenon DEF LifeOf
<1>8. f[i - 1] = g[i - 1]
  BY <1>5, <1>6
<1> QED
  BY <1>1, <1>2, <1>7, <1>8

LEMMA ReplayStays ==
  ASSUME NEW bars, NEW bars2, NEW v \in ExitModes, NEW p \in DOMAIN Signals, NEW born \in Nat \ {0}, NEW i \in Nat, born <= i,
         \A j \in 1..i : bars[j] \in Shapes /\ bars2[j] = bars[j]
  PROVE  ReplayOn(bars2, v, p, born, i) = ReplayOn(bars, v, p, born, i)
<1>1. PICK f : LifeOf(f, bars, v, p, born, i) /\ ReplayOn(bars, v, p, born, i) = f[i]
  BY LifeChosen
<1>2. PICK g : LifeOf(g, bars2, v, p, born, i) /\ ReplayOn(bars2, v, p, born, i) = g[i]
  BY LifeChosen
<1>3. \A k \in born..i : g[k] = f[k]
  BY <1>1, <1>2, LifeRight
<1>4. i \in born..i
  OBVIOUS
<1> QED
  BY <1>1, <1>2, <1>3, <1>4

----------------------------------------------------------------------------
(* A bar of the book.                                                       *)

LEMMA MarketIs ==
  ASSUME NEW bars, bars \in Seq(Shapes)
  PROVE  Len(bars) \in Nat /\ DOMAIN bars = 1..Len(bars) /\ \A j \in 1..Len(bars) : bars[j] \in Shapes
BY LenProperties, ElementOfSeq

\* One trade of the book, after the bar i.
LEMMA TradeTurned ==
  ASSUME NEW bars, Known(bars), NEW gone, NEW i \in Nat \ {0}, i <= Len(bars), NEW t, Fit(t, bars, i - 1),
         Relied(bars, gone, t, i - 1),
         NEW u, u = Lived(t, bars, i)
  PROVE  /\ After(u, t, bars, i)
         /\ Relied(bars, gone, u, i)
<1>1. \A j \in 1..i : bars[j] \in Shapes
  BY MarketIs DEF Known
<1>2. After(u, t, bars, i)
  BY <1>1, LivedParts
<1>3. u.v = t.v /\ u.p = t.p /\ u.born = t.born
  BY <1>2, Zenon DEF After, Same
<1>4. t \in PaperTrades /\ t.st \notin Over /\ t.born \in 1..i - 1 /\ t.v \in ExitModes /\ t.p \in DOMAIN Signals
  BY TradeIs DEF Fit, Over
<1>5. CASE ReplayOn(bars, t.v, t.p, t.born, i - 1) = t
  <2>1. ReplayOn(bars, t.v, t.p, t.born, i) = Turned(t, bars, i)
    BY <1>1, <1>4, <1>5, ReplayNext
  <2> QED
    BY <1>2, <1>3, <1>4, <2>1, Zenon DEF Turned, Relied
<1>6. CASE Passed(gone, t, i - 1)
  <2>1. t.born + 1..i - 1 \subseteq u.born + 1..i
    BY <1>3, <1>4
  <2>2. Passed(gone, u, i)
    BY <1>6, <2>1, Zenon DEF Passed
  <2> QED
    BY <1>2, <2>2, Zenon DEF Relied
<1> QED
  BY <1>5, <1>6, Zenon DEF Relied

\* The file after the trades in ended.
LEMMA FiledParts ==
  ASSUME NEW file \in Files, NEW ended \in SUBSET PaperTrades
  PROVE  /\ Filed(file, ended) \in Files
         /\ DOMAIN file \subseteq DOMAIN Filed(file, ended)
         /\ \A k \in DOMAIN file : Filed(file, ended)[k] = file[k]
         /\ \A k \in DOMAIN Filed(file, ended) \ DOMAIN file :
              Filed(file, ended)[k] = ended /\ \A j \in DOMAIN file : j < k
         /\ \A j, k \in DOMAIN Filed(file, ended) \ DOMAIN file : j = k
         /\ \A k \in DOMAIN Filed(file, ended) : k \in Nat
<1> DEFINE f == Filed(file, ended)
<1>1. file \in Seq(SUBSET PaperTrades)
  BY DEF Files
<1>2. DOMAIN file = 1..Len(file) /\ Len(file) \in Nat
  BY <1>1, LenProperties
<1>3. CASE ended = {}
  BY <1>1, <1>2, <1>3 DEF Filed
<1>4. CASE ended # {}
  <2>1. f = Append(file, ended)
    BY <1>4 DEF Filed
  <2>2. /\ f \in Seq(SUBSET PaperTrades) /\ DOMAIN f = 1..(Len(file) + 1)
        /\ \A k \in 1..Len(file) : f[k] = file[k]
        /\ f[Len(file) + 1] = ended
    BY <1>1, <2>1, AppendProperties, LenProperties
  <2> HIDE DEF f
  <2>3. \A k \in DOMAIN f : k \in DOMAIN file \/ k = Len(file) + 1
    BY <1>2, <2>2
  <2>4. Len(file) + 1 \notin DOMAIN file /\ \A j \in DOMAIN file : j < Len(file) + 1 /\ j \in DOMAIN f
    BY <1>2, <2>2
  <2>5. \A k \in DOMAIN f : k \in Nat
    BY <1>2, <2>2
  <2>6. /\ f \in Files /\ DOMAIN file \subseteq DOMAIN f /\ \A k \in DOMAIN file : f[k] = file[k]
    BY <1>2, <2>2, <2>4 DEF Files
  <2>7. \A k \in DOMAIN f \ DOMAIN file : f[k] = ended /\ \A j \in DOMAIN file : j < k
    BY <2>2, <2>3, <2>4, Zenon
  <2>8. \A j, k \in DOMAIN f \ DOMAIN file : j = k
    BY <2>3, Zenon
  <2> QED
    BY <2>5, <2>6, <2>7, <2>8 DEF f
<1> QED
  BY <1>3, <1>4

\* The file takes the trades that ended at bar i, all of them of the book before.
LEMMA FileGrows ==
  ASSUME NEW bars, Known(bars), NEW gone, NEW back, NEW save, save.last \in Nat,
         NEW file, NEW book, NEW next, NEW i \in Nat, i > save.last, FileOn(bars, gone, back, save, file, book, i),
         NEW ended \in SUBSET PaperTrades,
         \A r \in ended : EndedOn(bars, gone, r) /\ r.exit = i /\ \E t \in book : Same(r, t) /\ r.born = t.born,
         \A a, b \in ended : Same(a, b) => a = b,
         \A t \in next : /\ t.born = i \/ \E s \in book : Same(s, t) /\ s.born = t.born
                         /\ \A r \in ended : Same(r, t) => i <= t.born
  PROVE  FileOn(bars, gone, back, save, Filed(file, ended), next, i)
<1> DEFINE f == Filed(file, ended)
           D == DOMAIN file
           E == DOMAIN f
<1>1. /\ file \in Files /\ back \subseteq D /\ \A k \in D : \A r \in file[k] : EndedOn(bars, gone, r)
      /\ \A k \in D \ back : \A r \in file[k] : r.exit <= i /\ Before(r, book)
      /\ \A k \in D \ back : \A r \in file[k] : r.exit <= save.last => Before(r, save.book)
      /\ FollowOn(back, file)
  BY Zenon DEF FileOn
<1>2. /\ f \in Files /\ D \subseteq E /\ \A k \in D : f[k] = file[k]
      /\ \A k \in E \ D : f[k] = ended /\ \A j \in D : j < k
      /\ \A j, k \in E \ D : j = k
      /\ \A k \in E : k \in Nat
  BY <1>1, FiledParts
<1> HIDE DEF f, D, E
<1>3. ASSUME NEW k \in E, NEW r \in f[k] PROVE EndedOn(bars, gone, r)
  BY <1>1, <1>2, <1>3
<1>4. ASSUME NEW k \in E \ back, NEW r \in f[k] PROVE r.exit <= i /\ Before(r, next)
  <2>1. CASE k \in D
    <3>1. r \in file[k] /\ r.exit <= i /\ Before(r, book) /\ EndedOn(bars, gone, r)
      BY <1>1, <1>2, <1>4, <2>1
    <3>2. ASSUME NEW t \in next, Same(r, t) PROVE r.exit <= t.born
      <4>1. CASE t.born = i
        BY <3>1, <4>1
      <4>2. CASE \E s \in book : Same(s, t) /\ s.born = t.born
        <5>1. PICK s \in book : Same(s, t) /\ s.born = t.born
          BY <4>2
        <5>2. Same(r, s)
          BY <3>2, <5>1, Zenon DEF Same
        <5> QED
          BY <3>1, <5>1, <5>2, Zenon DEF Before
      <4> QED
        BY <3>2, <4>1, <4>2
    <3> QED
      BY <3>1, <3>2, Zenon DEF Before
  <2>2. CASE k \notin D
    <3>1. r \in ended /\ r.exit = i
      BY <1>2, <1>4, <2>2
    <3>2. r.exit <= i /\ \A t \in next : Same(r, t) => r.exit <= t.born
      BY <3>1
    <3> QED
      BY <3>2, Zenon DEF Before
  <2> QED
    BY <2>1, <2>2
<1>5. ASSUME NEW k \in E \ back, NEW r \in f[k], r.exit <= save.last PROVE Before(r, save.book)
  <2>1. CASE k \in D
    BY <1>1, <1>2, <1>5, <2>1, Zenon
  <2>2. CASE k \notin D
    <3>1. r.exit = i
      BY <1>2, <1>5, <2>2
    <3> QED
      BY <1>5, <3>1
  <2> QED
    BY <2>1, <2>2
<1>6. ASSUME NEW j \in E \ back, NEW k \in E \ back, NEW a \in f[j], NEW b \in f[k],
             j <= k, <<j, a>> # <<k, b>>, Same(a, b)
      PROVE  a.exit <= b.born
  <2>1. CASE j \in D /\ k \in D
    <3>1. j \in D \ back /\ k \in D \ back /\ a \in file[j] /\ b \in file[k]
      BY <1>2, <1>6, <2>1
    <3>2. FollowOn(back, file)
      BY <1>1
    <3> QED
      BY <1>6, <3>1, <3>2, Zenon DEF FollowOn, D
  <2>2. CASE j \in D /\ k \notin D
    <3>1. b \in ended /\ a \in file[j] /\ Before(a, book)
      BY <1>1, <1>2, <1>6, <2>2
    <3>2. PICK t \in book : Same(b, t) /\ b.born = t.born
      BY <3>1
    <3>3. Same(a, t)
      BY <1>6, <3>2, Zenon DEF Same
    <3> QED
      BY <3>1, <3>2, <3>3, Zenon DEF Before
  <2>3. CASE j \notin D /\ k \in D
    <3>1. k < j /\ j \in Nat /\ k \in Nat
      BY <1>2, <1>6, <2>3
    <3> QED
      BY <1>6, <3>1
  <2>4. CASE j \notin D /\ k \notin D
    <3>1. j = k /\ a \in ended /\ b \in ended
      <4>1. j \in E \ D /\ k \in E \ D
        BY <1>6, <2>4
      <4> QED
        BY <1>2, <1>6, <4>1
    <3>2. a = b
      BY <1>6, <3>1
    <3> QED
      BY <1>6, <3>1, <3>2
  <2> QED
    BY <2>1, <2>2, <2>3, <2>4
<1>7. FollowOn(back, f)
  BY <1>6, Zenon DEF FollowOn, E
<1>8. back \subseteq E
  BY <1>1, <1>2
<1> QED
  BY <1>2, <1>3, <1>4, <1>5, <1>7, <1>8, Zenon DEF FileOn, E, f

\* The bar i, once the bars before it are handled.
LEMMA BookBarKeeps ==
  ASSUME NEW bars, Known(bars), NEW gone, NEW back, NEW save, save.last \in Nat,
         NEW i \in Nat \ {0}, i <= Len(bars), i > save.last,
         NEW acc, BookOn(bars, gone, acc.book, i - 1), FileOn(bars, gone, back, save, acc.out, acc.book, i)
  PROVE  /\ BookOn(bars, gone, BookBar(acc, bars, i).book, i)
         /\ FileOn(bars, gone, back, save, BookBar(acc, bars, i).out, BookBar(acc, bars, i).book, i)
<1> DEFINE book == acc.book
           lived == {Lived(t, bars, i) : t \in book}
           kept  == {t \in lived : t.st \notin Over}
           ended == lived \ kept
           new   == {NewTrade(vp[1], vp[2], i) : vp \in Unused(kept, bars[i].sigs)}
           next  == kept \cup new
           b     == BookBar(acc, bars, i)
<1>1. b.book = next /\ b.out = Filed(acc.out, ended)
  BY DEF BookBar
<1>2. /\ \A t \in book : Fit(t, bars, i - 1) /\ Relied(bars, gone, t, i - 1)
      /\ \A s, t \in book : Same(s, t) => s = t
  BY Zenon DEF BookOn
<1>3. \A j \in 1..i : bars[j] \in Shapes
  BY MarketIs DEF Known
<1> HIDE DEF b, book
<1>4. ASSUME NEW u \in lived
      PROVE  \E t \in book : /\ u = Lived(t, bars, i) /\ After(u, t, bars, i)
                             /\ Same(u, t) /\ u.born = t.born /\ t.born \in 1..i - 1
                             /\ Relied(bars, gone, u, i)
  <2>1. PICK t \in book : u = Lived(t, bars, i)
    OBVIOUS
  <2>2. Fit(t, bars, i - 1) /\ Relied(bars, gone, t, i - 1)
    BY <1>2
  <2>3. After(u, t, bars, i) /\ Relied(bars, gone, u, i)
    BY <2>1, <2>2, TradeTurned
  <2>4. Same(u, t) /\ u.born = t.born /\ t.born \in 1..i - 1
    BY <2>2, <2>3, Zenon DEF After, Fit
  <2> QED
    BY <2>1, <2>3, <2>4
<1>5. ASSUME NEW u \in lived, NEW w \in lived, Same(u, w) PROVE u = w
  <2>1. PICK t \in book : u = Lived(t, bars, i) /\ Same(u, t)
    BY <1>4
  <2>2. PICK s \in book : w = Lived(s, bars, i) /\ Same(w, s)
    BY <1>4
  <2>3. Same(t, s)
    BY <1>5, <2>1, <2>2, Zenon DEF Same
  <2> QED
    BY <1>2, <2>1, <2>2, <2>3
<1> HIDE DEF lived
<1>6. bars[i].sigs \subseteq DOMAIN Signals
  <2>1. i \in 1..i
    OBVIOUS
  <2> QED
    BY <1>3, <2>1, BarIs
<1>7. ASSUME NEW n \in new
      PROVE  /\ Fit(n, bars, i) /\ n.born = i /\ ReplayOn(bars, n.v, n.p, n.born, i) = n
             /\ \A t \in kept : ~Same(t, n)
             /\ \A m \in new : Same(n, m) => n = m
  <2>1. PICK vp \in Unused(kept, bars[i].sigs) : n = NewTrade(vp[1], vp[2], i)
    OBVIOUS
  <2>2. vp \in ExitModes \X bars[i].sigs /\ \A t \in kept : <<t.v, t.p>> # vp
    BY <2>1, Zenon DEF Unused
  <2>3. vp[1] \in ExitModes /\ vp[2] \in DOMAIN Signals /\ vp = <<vp[1], vp[2]>>
    BY <1>6, <2>2
  <2>4. n.v = vp[1] /\ n.p = vp[2] /\ n.born = i
    BY <2>1 DEF NewTrade
  <2>5. Fit(n, bars, i)
    BY <2>1, <2>3, NewFits
  <2>6. ReplayOn(bars, n.v, n.p, n.born, i) = n
    BY <2>1, <2>4, ReplayNew
  <2>7. \A t \in kept : ~Same(t, n)
    BY <2>2, <2>3, <2>4, Zenon DEF Same
  <2>8. ASSUME NEW m \in new, Same(n, m) PROVE n = m
    <3>1. PICK xy \in Unused(kept, bars[i].sigs) : m = NewTrade(xy[1], xy[2], i)
      BY <2>8
    <3>2. m.v = xy[1] /\ m.p = xy[2]
      BY <3>1 DEF NewTrade
    <3> QED
      BY <2>1, <2>4, <2>8, <3>1, <3>2, Zenon DEF Same
  <2> QED
    BY <2>4, <2>5, <2>6, <2>7, <2>8
<1> HIDE DEF new
<1>8. BookOn(bars, gone, next, i)
  <2>1. ASSUME NEW t \in next PROVE Fit(t, bars, i) /\ Relied(bars, gone, t, i)
    <3>1. CASE t \in kept
      <4>1. t \in lived /\ t.st \notin Over
        BY <3>1
      <4> QED
        BY <1>4, <4>1, Zenon DEF After
    <3>2. CASE t \in new
      BY <1>7, <3>2, Zenon DEF Relied
    <3> QED
      BY <3>1, <3>2
  <2>2. ASSUME NEW s \in next, NEW t \in next, Same(s, t) PROVE s = t
    <3>1. CASE s \in kept /\ t \in kept
      BY <1>5, <2>2, <3>1
    <3>2. CASE s \in new /\ t \in new
      BY <1>7, <2>2, <3>2
    <3>3. CASE s \in kept /\ t \in new
      BY <1>7, <2>2, <3>3
    <3>4. CASE s \in new /\ t \in kept
      <4>1. Same(t, s)
        BY <2>2, Zenon DEF Same
      <4> QED
        BY <1>7, <3>4, <4>1
    <3> QED
      BY <3>1, <3>2, <3>3, <3>4
  <2> QED
    BY <2>1, <2>2, Zenon DEF BookOn
<1>9. ASSUME NEW r \in ended
      PROVE  /\ r \in PaperTrades /\ EndedOn(bars, gone, r) /\ r.exit = i /\ \E t \in book : Same(r, t) /\ r.born = t.born
  <2>1. r \in lived /\ r.st \in Over
    OBVIOUS
  <2>2. PICK t \in book : /\ After(r, t, bars, i) /\ Same(r, t) /\ r.born = t.born /\ t.born \in 1..i - 1
                          /\ Relied(bars, gone, r, i)
    BY <1>4, <2>1
  <2>3. r \in PaperTrades /\ Priced(r.fills, bars, i) /\ r.exit = i /\ (r.st = "closed" <=> r.left = 0)
    BY <2>1, <2>2, Zenon DEF After
  <2>4. r.born \in 1..r.exit /\ r.exit \in 1..Len(bars)
    BY <2>2, <2>3, MarketIs DEF Known
  <2>5. EndedOn(bars, gone, r)
    BY <2>1, <2>2, <2>3, <2>4, Zenon DEF EndedOn
  <2> QED
    BY <2>2, <2>3, <2>5
<1>10. \A r, s \in ended : Same(r, s) => r = s
  BY <1>5
<1>11. ASSUME NEW t \in next
       PROVE  /\ t.born = i \/ \E s \in book : Same(s, t) /\ s.born = t.born
              /\ \A r \in ended : Same(r, t) => i <= t.born
  <2>1. CASE t \in kept
    <3>1. PICK s \in book : Same(t, s) /\ t.born = s.born
      BY <1>4, <2>1
    <3>2. Same(s, t)
      BY <3>1, Zenon DEF Same
    <3>3. \A r \in ended : ~Same(r, t)
      BY <1>5, <2>1
    <3> QED
      BY <3>1, <3>2, <3>3
  <2>2. CASE t \in new
    BY <1>7, <2>2
  <2> QED
    BY <2>1, <2>2
<1>12. ended \in SUBSET PaperTrades
  BY <1>9
<1> HIDE DEF ended, next
<1>13. FileOn(bars, gone, back, save, acc.out, book, i)
  BY DEF book
<1>14. FileOn(bars, gone, back, save, Filed(acc.out, ended), next, i)
  BY <1>9, <1>10, <1>11, <1>12, <1>13, FileGrows
<1> QED
  BY <1>1, <1>8, <1>14 DEF b

----------------------------------------------------------------------------
(* The scans, and the rest of the steps.                                    *)

\* More bars, more of them passed over: what is known of books and results stays.
LEMMA BookStays ==
  ASSUME NEW bars, NEW bars2, Known(bars), NEW gone, NEW gone2, gone \subseteq gone2, NEW i \in Nat, i <= Len(bars),
         \A j \in 1..Len(bars) : bars2[j] = bars[j], NEW book, BookOn(bars, gone, book, i)
  PROVE  BookOn(bars2, gone2, book, i)
<1>1. \A j \in 1..Len(bars) : bars[j] \in Shapes
  BY MarketIs DEF Known
<1>2. ASSUME NEW t \in book PROVE Fit(t, bars2, i) /\ Relied(bars2, gone2, t, i)
  <2>1. Fit(t, bars, i) /\ Relied(bars, gone, t, i)
    BY <1>2, Zenon DEF BookOn
  <2>2. t.v \in ExitModes /\ t.p \in DOMAIN Signals /\ t.born \in Nat \ {0} /\ t.born <= i
    BY <2>1, TradeIs DEF Fit
  <2>3. \A j \in 1..i : bars[j] \in Shapes /\ bars2[j] = bars[j]
    <3>1. Len(bars) \in Nat
      BY MarketIs DEF Known
    <3> QED
      BY <1>1, <3>1
  <2>4. Priced(t.fills, bars2, i)
    <3>1. Priced(t.fills, bars, i)
      BY <2>1 DEF Fit
    <3> QED
      BY <2>3, <3>1, Zenon DEF Priced
  <2>5. Fit(t, bars2, i)
    BY <2>1, <2>4, Zenon DEF Fit
  <2>6. ReplayOn(bars2, t.v, t.p, t.born, i) = ReplayOn(bars, t.v, t.p, t.born, i)
    <3>1. \A v \in ExitModes, p \in DOMAIN Signals, born \in Nat \ {0} :
            born <= i => ReplayOn(bars2, v, p, born, i) = ReplayOn(bars, v, p, born, i)
      BY <2>3, ReplayStays
    <3> QED
      BY <2>2, <3>1, Zenon
  <2>7. Passed(gone, t, i) => Passed(gone2, t, i)
    BY DEF Passed
  <2> QED
    BY <2>1, <2>5, <2>6, <2>7, Zenon DEF Relied
<1>3. \A a, b \in book : Same(a, b) => a = b
  BY Zenon DEF BookOn
<1> QED
  BY <1>2, <1>3, Zenon DEF BookOn

LEMMA EndedStays ==
  ASSUME NEW bars, NEW bars2, Known(bars), NEW gone, NEW gone2, gone \subseteq gone2,
         \A j \in 1..Len(bars) : bars2[j] = bars[j], Len(bars2) \in Nat, Len(bars) <= Len(bars2), NEW r, EndedOn(bars, gone, r)
  PROVE  EndedOn(bars2, gone2, r)
<1>1. /\ r \in PaperTrades /\ r.st \in Over /\ (r.st = "closed" <=> r.left = 0)
      /\ r.born \in 1..r.exit /\ r.exit \in 1..Len(bars) /\ Priced(r.fills, bars, r.exit)
      /\ (r.st = "closed" => Relied(bars, gone, r, r.exit))
  BY Zenon DEF EndedOn
<1>2. Len(bars) \in Nat /\ \A j \in 1..Len(bars) : bars[j] \in Shapes
  BY MarketIs DEF Known
<1>3. \A j \in 1..r.exit : bars[j] \in Shapes /\ bars2[j] = bars[j]
  BY <1>1, <1>2
<1>4. r.v \in ExitModes /\ r.p \in DOMAIN Signals /\ r.born \in Nat \ {0} /\ r.born <= r.exit /\ r.exit \in Nat
  BY <1>1, TradeIs
<1>5. ReplayOn(bars2, r.v, r.p, r.born, r.exit) = ReplayOn(bars, r.v, r.p, r.born, r.exit)
  BY <1>3, <1>4, ReplayStays
<1>6. Passed(gone, r, r.exit) => Passed(gone2, r, r.exit)
  BY DEF Passed
<1>7. Priced(r.fills, bars2, r.exit)
  BY <1>1, <1>3, Zenon DEF Priced
<1>8. r.exit \in 1..Len(bars2)
  BY <1>1, <1>2
<1> QED
  BY <1>1, <1>5, <1>6, <1>7, <1>8, Zenon DEF EndedOn, Relied

LEMMA FileStays ==
  ASSUME NEW bars, NEW bars2, Known(bars), NEW gone, NEW gone2, gone \subseteq gone2,
         \A j \in 1..Len(bars) : bars2[j] = bars[j], Len(bars2) \in Nat, Len(bars) <= Len(bars2),
         NEW back, NEW save, NEW file, NEW book, NEW i \in Nat, NEW n \in Nat, i <= n,
         FileOn(bars, gone, back, save, file, book, i)
  PROVE  FileOn(bars2, gone2, back, save, file, book, n)
<1>1. /\ file \in Files /\ back \subseteq DOMAIN file
      /\ \A k \in DOMAIN file : \A r \in file[k] : EndedOn(bars, gone, r)
      /\ \A k \in DOMAIN file \ back : \A r \in file[k] : r.exit <= i /\ Before(r, book)
      /\ \A k \in DOMAIN file \ back : \A r \in file[k] : r.exit <= save.last => Before(r, save.book)
      /\ FollowOn(back, file)
  BY Zenon DEF FileOn
<1>2. \A k \in DOMAIN file : \A r \in file[k] : EndedOn(bars2, gone2, r)
  BY <1>1, EndedStays
<1>3. ASSUME NEW k \in DOMAIN file \ back, NEW r \in file[k] PROVE r.exit <= n /\ Before(r, book)
  <2>1. r.exit <= i /\ Before(r, book) /\ EndedOn(bars, gone, r)
    BY <1>1, <1>3
  <2>2. r.exit \in Int
    BY <2>1, TradeIs DEF EndedOn
  <2> QED
    BY <2>1, <2>2
<1> QED
  BY <1>1, <1>2, <1>3, Zenon DEF FileOn

LEMMA PaperFirst == Init => PaperInv
<1> SUFFICES ASSUME Init PROVE PaperInv
  OBVIOUS
<1>1. PICK on \in BOOLEAN : PaperInit(on)
  BY DEF Init
<1>2. /\ memory = [last |-> 0, book |-> {}] /\ stateFile = [last |-> 0, book |-> {}] /\ results = <<>> /\ undone = {} /\ blind = {}
  BY <1>1 DEF PaperInit, Empty
<1>3. market \in Seq(Shapes) /\ Len(market) \in Nat
  <2>1. market = <<>> \/ \E s \in Shapes : market = <<s>>
    BY <1>1 DEF PaperInit
  <2>2. ASSUME NEW s \in Shapes PROVE <<s>> \in Seq(Shapes)
    OBVIOUS
  <2>3. <<>> \in Seq(Shapes)
    OBVIOUS
  <2>4. market \in Seq(Shapes)
    BY <2>1, <2>2, <2>3, Zenon
  <2> QED
    BY <2>4, LenProperties
<1>4. memory \in BookStates /\ memory.last = 0 /\ memory.book = {} /\ stateFile = memory
  BY <1>2 DEF BookStates
<1>5. BookOn(market, blind, memory.book, memory.last)
  BY <1>4 DEF BookOn
<1>6. FileOn(market, blind, undone, stateFile, results, memory.book, memory.last)
  BY <1>2 DEF FileOn, FollowOn, Files
<1> QED
  <2>1. memory.last <= Len(market) /\ stateFile.last <= memory.last
    BY <1>3, <1>4
  <2> QED
    BY <1>3, <1>4, <1>5, <1>6, <2>1, Zenon DEF PaperInv, Known

LEMMA PaperMeans ==
  ASSUME PaperInv
  PROVE  /\ Known(market) /\ Len(market) \in Nat
         /\ memory \in BookStates /\ stateFile \in BookStates /\ memory.last \in Nat /\ stateFile.last \in Nat
         /\ stateFile.last <= memory.last /\ memory.last <= Len(market) /\ stateFile.last <= Len(market)
         /\ (memory.last = 0 => memory.book = {}) /\ (stateFile.last = 0 => stateFile.book = {})
         /\ BookOn(market, blind, memory.book, memory.last) /\ BookOn(market, blind, stateFile.book, stateFile.last)
         /\ FileOn(market, blind, undone, stateFile, results, memory.book, memory.last)
<1>1. /\ Known(market) /\ memory \in BookStates /\ stateFile \in BookStates
      /\ stateFile.last <= memory.last /\ memory.last <= Len(market)
      /\ (memory.last = 0 => memory.book = {}) /\ (stateFile.last = 0 => stateFile.book = {})
      /\ BookOn(market, blind, memory.book, memory.last) /\ BookOn(market, blind, stateFile.book, stateFile.last)
      /\ FileOn(market, blind, undone, stateFile, results, memory.book, memory.last)
  BY Zenon DEF PaperInv
<1>2. Len(market) \in Nat
  BY <1>1, MarketIs DEF Known
<1>3. memory.last \in Nat /\ stateFile.last \in Nat
  BY <1>1 DEF BookStates
<1>4. stateFile.last <= Len(market)
  BY <1>1, <1>2, <1>3
<1> QED
  BY <1>1, <1>2, <1>3, <1>4

LEMMA MarketBarKeeps == PaperInv /\ MarketBar => PaperInv'
<1> SUFFICES ASSUME PaperInv, MarketBar PROVE PaperInv'
  OBVIOUS
<1>1. PICK s \in Shapes : market' = Append(market, s)
  BY DEF MarketBar
<1>2. memory' = memory /\ stateFile' = stateFile /\ results' = results /\ undone' = undone /\ blind' = blind
  BY DEF MarketBar
<1>3. /\ Known(market') /\ Len(market') = Len(market) + 1 /\ \A j \in 1..Len(market) : market'[j] = market[j]
  BY <1>1, PaperMeans, AppendProperties DEF Known
<1>4. Len(market') \in Nat /\ Len(market) <= Len(market') /\ memory.last <= Len(market')
  BY <1>3, PaperMeans
<1>5. BookOn(market', blind, memory.book, memory.last) /\ BookOn(market', blind, stateFile.book, stateFile.last)
  BY <1>3, PaperMeans, BookStays
<1>6. FileOn(market', blind, undone, stateFile, results, memory.book, memory.last)
  <2>1. memory.last <= memory.last
    BY PaperMeans
  <2> QED
    BY <1>3, <1>4, <2>1, PaperMeans, FileStays
<1> QED
  BY <1>2, <1>3, <1>4, <1>5, <1>6, PaperMeans, Zenon DEF PaperInv

LEMMA ScanBlindKeeps == PaperInv /\ ScanBlind => PaperInv'
<1> SUFFICES ASSUME PaperInv, ScanBlind PROVE PaperInv'
  OBVIOUS
<1> DEFINE n == Len(market)
<1>1. n > memory.last /\ memory' = [memory EXCEPT !.last = n] /\ blind' = blind \cup (memory.last + 1..n)
  BY DEF ScanBlind
<1>2. market' = market /\ stateFile' = stateFile /\ results' = results /\ undone' = undone
  BY DEF ScanBlind
<1>3. n \in Nat /\ memory.last \in Nat /\ n <= n /\ memory.last <= n
  BY PaperMeans
<1>4. memory' \in BookStates /\ memory'.last = n /\ memory'.book = memory.book
  BY <1>1, <1>3, PaperMeans DEF BookStates
<1> DEFINE gone == blind \cup (memory.last + 1..n)
<1>5. BookOn(market, gone, stateFile.book, stateFile.last)
  BY PaperMeans, BookStays
<1>6. BookOn(market, gone, memory.book, n)
  <2>1. BookOn(market, blind, memory.book, memory.last)
    BY PaperMeans
  <2>2. ASSUME NEW t \in memory.book PROVE Fit(t, market, n) /\ Relied(market, gone, t, n)
    <3>1. Fit(t, market, memory.last)
      BY <2>1, <2>2, Zenon DEF BookOn
    <3>2. Priced(t.fills, market, n)
      <4>1. 1..memory.last \subseteq 1..n
        BY <1>3
      <4> QED
        BY <3>1, <4>1, Zenon DEF Fit, Priced
    <3>3. t.born \in 1..n /\ t.held \in 0..(n - t.born) /\ t.seen <= n
      BY <1>3, <3>1, TradeIs DEF Fit
    <3>4. Fit(t, market, n)
      BY <3>1, <3>2, <3>3, Zenon DEF Fit
    <3>5. n \in t.born + 1..n /\ n \in gone
      BY <1>1, <1>3, <3>1 DEF Fit
    <3> QED
      BY <3>4, <3>5, Zenon DEF Relied, Passed
  <2> QED
    BY <2>1, <2>2, Zenon DEF BookOn
<1>7. FileOn(market, gone, undone, stateFile, results, memory.book, n)
  BY <1>3, PaperMeans, FileStays
<1>8. stateFile.last <= n /\ (n = 0 => memory.book = {})
  BY <1>1, <1>3, PaperMeans
<1>9. memory'.last <= Len(market')
  BY <1>2, <1>3, <1>4
<1>10. BookOn(market', blind', memory'.book, memory'.last) /\ BookOn(market', blind', stateFile'.book, stateFile'.last)
  BY <1>1, <1>2, <1>4, <1>5, <1>6, Zenon
<1>11. FileOn(market', blind', undone', stateFile', results', memory'.book, memory'.last)
  BY <1>1, <1>2, <1>4, <1>7, Zenon
<1> HIDE DEF n, gone
<1> QED
  BY <1>2, <1>4, <1>8, <1>9, <1>10, <1>11, PaperMeans, Zenon DEF PaperInv

LEMMA NewestBars ==
  ASSUME PaperInv, Len(market) > memory.last
  PROVE  /\ FirstNew \in 1..Len(market) /\ FirstNew > memory.last /\ FirstNew > stateFile.last
         /\ Oldest \in 1..Len(market)
         /\ (memory.last > 0 /\ Behind => FirstNew = Oldest)
         /\ (memory.last > 0 /\ ~Behind => FirstNew = memory.last + 1)
<1>1. Window \in Nat \ {0}
  BY PaperAssumption
<1>2. Len(market) \in Nat /\ memory.last \in Nat /\ stateFile.last \in Nat /\ stateFile.last <= memory.last
  BY PaperMeans
<1> QED
  BY <1>1, <1>2 DEF FirstNew, Oldest, Behind, Higher

LEMMA ScanPaperKeeps == PaperInv /\ ScanPaper => PaperInv'
<1> SUFFICES ASSUME PaperInv, ScanPaper PROVE PaperInv'
  OBVIOUS
<1> DEFINE n    == Len(market)
           low  == FirstNew - 1
           gone == IF memory.last > 0 /\ Behind THEN memory.book ELSE {}
           gap  == {Cancel(t, Oldest, "data_gap") : t \in gone}
           root == [book |-> memory.book \ gone, out |-> Filed(results, gap)]
           run  == CHOOSE f : f = [i \in low..n |-> IF i = low THEN root ELSE BookBar(f[i - 1], market, i)]
<1>1. /\ memory' = [last |-> n, book |-> run[n].book] /\ results' = run[n].out
      /\ market' = market /\ stateFile' = stateFile /\ undone' = undone /\ blind' = blind /\ n > memory.last
  BY Zenon DEF ScanPaper
<1>2. /\ n \in Nat /\ memory.last \in Nat /\ stateFile.last \in Nat /\ FirstNew \in 1..n /\ FirstNew > memory.last
      /\ FirstNew > stateFile.last /\ Oldest \in 1..n /\ stateFile.last <= memory.last
      /\ (memory.last > 0 /\ Behind => FirstNew = Oldest)
      /\ (memory.last > 0 /\ ~Behind => FirstNew = memory.last + 1) /\ (memory.last = 0 => memory.book = {})
  BY <1>1, PaperMeans, NewestBars
<1> HIDE DEF n
<1>3. run = [i \in low..n |-> IF i = low THEN root ELSE BookBar(run[i - 1], market, i)]
  <2> HIDE DEF root
  <2>1. n - low \in Nat /\ low + (n - low) = n /\ low \in Int
    BY <1>2
  <2> HIDE DEF low
  <2>2. PICK e : RunOver("book", market, root, low, n, e)
    BY <2>1, RunExists
  <2>3. \A u, i : Onward("book", u, market, i) = BookBar(u, market, i)
    BY DEF Onward
  <2>4. e = [i \in low..n |-> IF i = low THEN root ELSE BookBar(e[i - 1], market, i)]
    BY <2>2, <2>3 DEF RunOver
  <2> QED
    BY <2>4, Zenon
<1> HIDE DEF run
<1>4. run[low] = root /\ \A i \in FirstNew..n : run[i] = BookBar(run[i - 1], market, i)
  <2> HIDE DEF root
  <2>1. low \in low..n /\ \A i \in FirstNew..n : i \in low..n /\ i # low
    BY <1>2
  <2> HIDE DEF low
  <2> QED
    BY <1>3, <2>1, Zenon
<1>5. BookOn(market, blind, root.book, low)
  <2>1. CASE gone = memory.book
    <3>1. root.book = {}
      BY <2>1
    <3> HIDE DEF root
    <3> QED
      BY <3>1 DEF BookOn
  <2>2. CASE gone # memory.book
    <3>1. memory.last > 0 /\ ~Behind /\ root.book = memory.book
      <4>1. gone = {} /\ memory.book # {}
        BY <2>2
      <4>2. memory.last # 0
        BY <1>2, <4>1
      <4>3. ~(memory.last > 0 /\ Behind)
        BY <2>2
      <4> QED
        BY <1>2, <4>1, <4>2, <4>3
    <3>2. low = memory.last
      BY <1>2, <3>1
    <3> HIDE DEF root
    <3> QED
      BY <3>1, <3>2, PaperMeans
  <2> QED
    BY <2>1, <2>2
<1>6. FileOn(market, blind, undone, stateFile, results, memory.book, FirstNew)
  <2>1. FirstNew \in Nat /\ memory.last <= FirstNew /\ Len(market) \in Nat /\ Len(market) <= Len(market)
    BY <1>2, PaperMeans
  <2> QED
    BY <1>2, <2>1, PaperMeans, FileStays
<1>7. FileOn(market, blind, undone, stateFile, root.out, root.book, FirstNew)
  <2>1. CASE ~(memory.last > 0 /\ Behind)
    <3>1. gap = {} /\ root.book = memory.book /\ root.out = results
      BY <2>1 DEF Filed
    <3> HIDE DEF root
    <3> QED
      BY <1>6, <3>1
  <2>2. CASE memory.last > 0 /\ Behind
    <3>1. root.book = {} /\ root.out = Filed(results, gap) /\ gone = memory.book /\ FirstNew = Oldest
      BY <1>2, <2>2
    <3> DEFINE book == memory.book
    <3>2. ASSUME NEW r \in gap
          PROVE  /\ r \in PaperTrades /\ EndedOn(market, blind, r) /\ r.exit = FirstNew
                 /\ \E t \in book : Same(r, t) /\ r.born = t.born /\ r = Cancel(t, Oldest, "data_gap")
      <4>1. PICK t \in book : r = Cancel(t, Oldest, "data_gap")
        BY <3>1
      <4>2. Fit(t, market, memory.last)
        BY <4>1, PaperMeans, Zenon DEF BookOn
      <4>3. t \in PaperTrades /\ t.left \in {1, 2} /\ t.born \in 1..memory.last /\ Priced(t.fills, market, memory.last)
        BY <4>2, Zenon DEF Fit
      <4>4. /\ r \in PaperTrades /\ Same(r, t) /\ r.born = t.born /\ r.left = t.left /\ r.fills = t.fills /\ r.st = "cancelled"
            /\ r.exit = Oldest
        <5>1. "data_gap" \in Reasons /\ Oldest \in Int
          BY <1>2 DEF Reasons
        <5> QED
          BY <4>1, <4>3, <5>1, CancelMarked
      <4>5. Priced(r.fills, market, r.exit)
        <5>1. 1..memory.last \subseteq 1..r.exit
          BY <1>2, <3>1, <4>4
        <5> QED
          BY <4>3, <4>4, <5>1, Zenon DEF Priced
      <4>6. /\ r.born \in 1..r.exit /\ r.exit \in 1..Len(market) /\ (r.st = "closed" <=> r.left = 0) /\ r.st # "closed"
            /\ r.st \in Over /\ r.exit = FirstNew
        BY <1>2, <3>1, <4>3, <4>4 DEF Over, n
      <4>7. EndedOn(market, blind, r)
        BY <4>4, <4>5, <4>6, Zenon DEF EndedOn
      <4> QED
        BY <4>1, <4>4, <4>6, <4>7
    <3>3. ASSUME NEW a \in gap, NEW b \in gap, Same(a, b) PROVE a = b
      <4>1. PICK s \in book : Same(a, s) /\ a = Cancel(s, Oldest, "data_gap")
        BY <3>2
      <4>2. PICK t \in book : Same(b, t) /\ b = Cancel(t, Oldest, "data_gap")
        BY <3>2
      <4>3. Same(s, t)
        BY <3>3, <4>1, <4>2, Zenon DEF Same
      <4>4. s = t
        BY <4>3, PaperMeans, Zenon DEF BookOn
      <4> QED
        BY <4>1, <4>2, <4>4
    <3> HIDE DEF root, gap
    <3>4. gap \in SUBSET PaperTrades /\ FirstNew \in Nat /\ \A r \in gap : /\ EndedOn(market, blind, r) /\ r.exit = FirstNew
                                                    /\ \E t \in book : Same(r, t) /\ r.born = t.born
      BY <1>2, <3>2
    <3>5. FileOn(market, blind, undone, stateFile, Filed(results, gap), {}, FirstNew)
      BY <1>2, <1>6, <3>3, <3>4, PaperMeans, FileGrows
    <3> QED
      BY <3>1, <3>5
  <2> QED
    BY <2>1, <2>2
<1> HIDE DEF root, gone, gap
<1> DEFINE Good(k) == /\ BookOn(market, blind, run[k].book, k)
                      /\ FileOn(market, blind, undone, stateFile, run[k].out, run[k].book, k)
           Bad == {k \in Nat : k \in FirstNew..n /\ ~Good(k)}
<1>8. Bad = {}
  <2> SUFFICES ASSUME Bad # {} PROVE FALSE
    OBVIOUS
  <2>1. PICK m \in Bad : \A x \in Bad : ~(<<x, m>> \in OpToRel(<, Nat))
    BY NatLessThanWellFounded, WFMin, Zenon
  <2>2. \A x \in Bad : ~(x < m)
    BY <2>1 DEF OpToRel
  <2>3. m \in Nat /\ m \in FirstNew..n /\ ~Good(m)
    BY <2>1
  <2> DEFINE acc == run[m - 1]
  <2>4. BookOn(market, blind, acc.book, m - 1) /\ FileOn(market, blind, undone, stateFile, acc.out, acc.book, m)
    <3>1. CASE m = FirstNew
      <4>1. acc = root /\ m - 1 = low
        BY <1>4, <3>1
      <4> QED
        BY <1>5, <1>7, <3>1, <4>1, Zenon
    <3>2. CASE m # FirstNew
      <4>1. m - 1 \in Nat /\ m - 1 \in FirstNew..n /\ m - 1 < m /\ m - 1 <= m
        BY <1>2, <2>3, <3>2
      <4>2. Good(m - 1)
        BY <2>2, <4>1
      <4>3. Len(market) \in Nat /\ Len(market) <= Len(market)
        BY PaperMeans
      <4> QED
        BY <2>3, <4>1, <4>2, <4>3, PaperMeans, FileStays
    <3> QED
      BY <3>1, <3>2
  <2>5. run[m] = BookBar(acc, market, m)
    BY <1>4, <2>3
  <2> HIDE DEF acc
  <2>6. m \in Nat \ {0} /\ m <= Len(market) /\ m > stateFile.last
    BY <1>2, <2>3 DEF n
  <2>7. Good(m)
    BY <1>2, <2>4, <2>5, <2>6, PaperMeans, BookBarKeeps
  <2> QED
    BY <2>3, <2>7
<1>9. Good(n)
  <2>1. n \in FirstNew..n /\ n \in Nat
    BY <1>2
  <2> QED
    BY <1>8, <2>1
<1> DEFINE book2 == run[n].book
           out2 == run[n].out
<1>10. BookOn(market, blind, book2, n) /\ FileOn(market, blind, undone, stateFile, out2, book2, n)
  BY <1>9
<1>11. memory' = [last |-> n, book |-> book2] /\ results' = out2
  BY <1>1
<1> HIDE DEF book2, out2, Good, Bad, low
<1>12. book2 \in SUBSET PaperTrades
  BY <1>10, Zenon DEF BookOn, Fit
<1>13. memory' \in BookStates /\ memory'.last = n /\ memory'.book = book2
  BY <1>2, <1>11, <1>12 DEF BookStates
<1>14. /\ stateFile.last <= n /\ (n = 0 => book2 = {}) /\ memory'.last <= Len(market')
  BY <1>1, <1>2, <1>13 DEF n
<1>15. BookOn(market', blind', memory'.book, memory'.last) /\ BookOn(market', blind', stateFile'.book, stateFile'.last)
  BY <1>1, <1>10, <1>13, PaperMeans, Zenon
<1>16. FileOn(market', blind', undone', stateFile', results', memory'.book, memory'.last)
  BY <1>1, <1>10, <1>11, <1>13, Zenon
<1> QED
  BY <1>1, <1>13, <1>14, <1>15, <1>16, PaperMeans, Zenon DEF PaperInv

LEMMA SaveBookKeeps == PaperInv /\ SaveBook => PaperInv'
<1> SUFFICES ASSUME PaperInv, SaveBook PROVE PaperInv'
  OBVIOUS
<1>1. /\ stateFile' = memory /\ memory' = memory /\ market' = market /\ results' = results /\ undone' = undone /\ blind' = blind
  BY DEF SaveBook
<1>2. /\ results \in Files /\ undone \subseteq DOMAIN results
      /\ \A k \in DOMAIN results : \A r \in results[k] : EndedOn(market, blind, r)
      /\ \A k \in DOMAIN results \ undone : \A r \in results[k] : r.exit <= memory.last /\ Before(r, memory.book)
      /\ FollowOn(undone, results)
  BY PaperMeans, Zenon DEF FileOn
<1>3. FileOn(market, blind, undone, memory, results, memory.book, memory.last)
  BY <1>2, Zenon DEF FileOn
<1>4. memory.last <= memory.last
  BY PaperMeans
<1> QED
  BY <1>1, <1>3, <1>4, PaperMeans, Zenon DEF PaperInv

LEMMA DieBookKeeps == PaperInv /\ DieBook => PaperInv'
<1> SUFFICES ASSUME PaperInv, DieBook PROVE PaperInv'
  OBVIOUS
<1> DEFINE back == undone \cup {k \in DOMAIN results : \E r \in results[k] : r.exit > stateFile.last}
<1>1. /\ memory' = stateFile /\ stateFile' = stateFile /\ market' = market /\ results' = results /\ blind' = blind /\ undone' = back
  BY DEF DieBook
<1>2. /\ results \in Files /\ undone \subseteq DOMAIN results
      /\ \A k \in DOMAIN results : \A r \in results[k] : EndedOn(market, blind, r)
      /\ \A k \in DOMAIN results \ undone : \A r \in results[k] : r.exit <= stateFile.last => Before(r, stateFile.book)
      /\ FollowOn(undone, results)
  BY PaperMeans, Zenon DEF FileOn
<1>3. ASSUME NEW k \in DOMAIN results \ back, NEW r \in results[k]
      PROVE  k \notin undone /\ r.exit <= stateFile.last /\ Before(r, stateFile.book)
  <2>1. k \notin undone /\ ~(r.exit > stateFile.last)
    BY <1>3
  <2>2. r.exit \in Int /\ stateFile.last \in Nat
    BY <1>2, <1>3, TradeIs, PaperMeans DEF EndedOn
  <2> QED
    BY <1>2, <1>3, <2>1, <2>2
<1>4. FollowOn(back, results)
  <2>1. \A k \in DOMAIN results \ back : k \in DOMAIN results \ undone
    OBVIOUS
  <2> HIDE DEF back
  <2> QED
    BY <1>2, <2>1, Zenon DEF FollowOn
<1>5. back \subseteq DOMAIN results
  BY <1>2
<1> HIDE DEF back
<1>6. FileOn(market, blind, back, stateFile, results, stateFile.book, stateFile.last)
  BY <1>2, <1>3, <1>4, <1>5, Zenon DEF FileOn
<1>7. stateFile.last <= stateFile.last
  BY PaperMeans
<1> QED
  BY <1>1, <1>6, <1>7, PaperMeans, Zenon DEF PaperInv

LEMMA PaperStep == PaperInv /\ [PaperNext]_bookVars => PaperInv'
<1> SUFFICES ASSUME PaperInv, [PaperNext]_bookVars PROVE PaperInv'
  OBVIOUS
<1>1. CASE UNCHANGED bookVars
  <2>1. /\ memory' = memory /\ stateFile' = stateFile /\ market' = market /\ results' = results /\ blind' = blind
        /\ undone' = undone
    BY <1>1 DEF bookVars
  <2> QED
    BY <2>1, Zenon DEF PaperInv
<1>2. CASE PaperNext
  BY <1>2, MarketBarKeeps, ScanPaperKeeps, ScanBlindKeeps, SaveBookKeeps, DieBookKeeps DEF PaperNext
<1> QED
  BY <1>1, <1>2

LEMMA PaperSettled == PaperInv => ResultsRight
<1> SUFFICES ASSUME PaperInv PROVE ResultsRight
  OBVIOUS
<1>1. /\ results \in Files /\ undone \subseteq DOMAIN results
      /\ \A k \in DOMAIN results : \A r \in results[k] : EndedOn(market, blind, r)
      /\ FollowOn(undone, results)
  BY PaperMeans, Zenon DEF FileOn
<1>2. Len(market) \in Nat
  BY PaperMeans
<1>3. ASSUME NEW m \in {memory, stateFile}
      PROVE  /\ m.last \in 0..Len(market)
             /\ \A t \in m.book : t.st \in {"pending", "open"} /\ t.left \in {1, 2} /\ t.born <= m.last
  <2>1. m.last \in Nat /\ m.last <= Len(market) /\ BookOn(market, blind, m.book, m.last)
    BY <1>3, PaperMeans
  <2>2. ASSUME NEW t \in m.book PROVE t.st \in {"pending", "open"} /\ t.left \in {1, 2} /\ t.born <= m.last
    <3>1. Fit(t, market, m.last)
      BY <2>1, <2>2, Zenon DEF BookOn
    <3> QED
      BY <2>1, <3>1 DEF Fit
  <2> QED
    BY <1>2, <2>1, <2>2
<1>4. ASSUME NEW k \in DOMAIN results, NEW r \in results[k]
      PROVE  /\ r.st \in Over /\ (r.st = "closed" <=> r.left = 0)
             /\ (r.st = "closed" => Replay(r.v, r.p, r.born, r.exit) = r \/ (r.born + 1..r.exit) \cap blind # {})
             /\ \A n \in DOMAIN r.fills : LET f == r.fills[n] IN f.px \in market[f.bar].l..market[f.bar].h
  <2>1. EndedOn(market, blind, r)
    BY <1>1, <1>4
  <2>2. Replay(r.v, r.p, r.born, r.exit) = ReplayOn(market, r.v, r.p, r.born, r.exit)
    BY ReplayIs
  <2> QED
    BY <2>1, <2>2, Zenon DEF EndedOn, Relied, Passed, Priced
<1>5. PaperTypeOK
  BY <1>1, <1>3, <1>4, Zenon DEF PaperTypeOK
<1>6. OneAtATime
  BY <1>1, Zenon DEF FollowOn, OneAtATime, Same
<1> QED
  BY <1>4, <1>5, <1>6, Zenon DEF ResultsRight, Trusted, Attainable

\* What the validation judges is what the rules give on the bars there were:
\* each result that counts is what its trade comes to on every bar of its life,
\* at prices that were traded, and one trade of a variant and pattern follows
\* the other (naked_strategy.py:147-340, 429-484).
THEOREM ResultsStand == Spec => []ResultsRight
<1>1. Init => PaperInv
  BY PaperFirst
<1>2. PaperInv /\ [Next]_vars => PaperInv'
  <2>1. [Next]_vars => [PaperNext]_bookVars
    BY DEF Next, vars
  <2> QED
    BY <2>1, PaperStep
<1>3. PaperInv => ResultsRight
  BY PaperSettled
<1> QED
  BY <1>1, <1>2, <1>3, PTL DEF Spec

----------------------------------------------------------------------------
(* The backtest: what is known of a trade while it waits and while it is     *)
(* open; the stop against the best of what the rules have set so far.        *)

Directions == {1, -1}
Rules == {"ladder", "ladder_ratchet", "zone", "split", "three_bar"}
Levels == 1..3
Plans == UNION {[S -> Nat \ {0}] : S \in SUBSET Levels}
Deals ==
  [st : {"none", "pending", "open"}, variant : Rules \cup {""}, dir : Directions, trig : Int, init : Int,
   targets : Seq(Int), wait : 0..ValidBars, fill : Int, qty0 : Nat, qty : Nat, plan : Plans, stop : Int,
   held : Nat, step : Nat, trail : BOOLEAN, done : SUBSET Levels, win : Seq(Int), best : Int]
Notes == [tps : SUBSET Levels, gain : BOOLEAN, touched : BOOLEAN, ruled : BOOLEAN, armed : BOOLEAN]
NoFlaw(n) == ~n.gain /\ (n.touched => n.tps = {})

\* A number is as good as another for a trade of direction d.
AsGood(d, a, b) == d * a >= d * b
Beyond(d, a, b) == d * (a - b) > 0

\* The prices of a signal are in order.
InOrderOf(t) ==
  /\ Len(t.targets) \in 0..3 /\ Beyond(t.dir, t.trig, t.init)
  /\ \A k \in DOMAIN t.targets :
       Beyond(t.dir, t.targets[k], t.trig) /\ (k > 1 => Beyond(t.dir, t.targets[k], t.targets[k - 1]))

Waits(t) ==
  /\ InOrderOf(t) /\ t.stop = t.init /\ t.held = 0 /\ t.step = 0 /\ ~t.trail /\ t.done = {} /\ t.win = <<>>
  /\ t.qty0 = 0 /\ t.qty = 0

\* The rungs that are climbed are those that the best price reached.
Climbed(t) == UsesLadder(t) => \A k \in DOMAIN t.targets : k <= t.step <=> AsGood(t.dir, t.best, t.targets[k])

Floor(t) == {t.init} \cup RungsOf(t) \cup Even(t)
StopStands(t) == (\A x \in Floor(t) : AsGood(t.dir, t.stop, x)) /\ (~t.trail => t.stop \in Floor(t))

PlanStands(t) ==
  /\ DOMAIN t.plan \subseteq DOMAIN t.targets /\ t.done \subseteq DOMAIN t.plan
  /\ Total(t.plan, DOMAIN t.plan) <= t.qty0 /\ (t.variant = "ladder" => Total(t.plan, DOMAIN t.plan) < t.qty0)
  /\ t.qty = t.qty0 - Total(t.plan, t.done) /\ t.qty > 0
  /\ \A i, j \in DOMAIN t.plan : i < j /\ j \in t.done => i \in t.done

\* A trade that is open.
Runs(t) ==
  /\ InOrderOf(t) /\ StopStands(t) /\ PlanStands(t)
  /\ t.step <= Len(t.targets) /\ (~UsesLadder(t) => t.step = 0) /\ Len(t.win) < TrailBars

\* Between bars.
Holds(t, close) == Runs(t) /\ Climbed(t) /\ t.held \in 1..HoldBars - 1 /\ ~AsGood(t.dir, t.stop, close)

DealOn(v, t, close) ==
  /\ t \in Deals
  /\ (t.st = "none" => t = NoDeal) /\ (t.st # "none" => t.variant = v)
  /\ (t.st = "pending" => Waits(t)) /\ (t.st = "open" => Holds(t, close))

TestInv ==
  /\ variant \in Variants \cup {"off"}
  /\ DealOn(variant, deal, seen.close)
  /\ seen \in [close : Prices \cup {0}, flaws : {{}}]

LEMMA TestNumbers ==
  /\ Unit \in Nat /\ Unit > 0 /\ Ticks \in Nat /\ ValidBars \in Nat /\ ValidBars > 0 /\ HoldBars \in Nat /\ HoldBars > 0
  /\ MinReward \in Nat /\ MinReward > 0 /\ Height \in Nat /\ Buf \in Nat /\ MinRisk \in Nat /\ MaxRisk \in Nat
  /\ MinRisk >= 2 * Unit
BY BacktestAssumption

LEMMA BestOf ==
  ASSUME NEW d \in Directions, NEW S \in SUBSET Int, IsFiniteSet(S), S # {}
  PROVE  Best(d, S) \in S /\ \A q \in S : AsGood(d, Best(d, S), q)
<1>1. \E p \in S : \A q \in S : d * p >= d * q
  <2>1. CASE d = 1
    <3>1. PICK p \in S : \A q \in S : q <= p
      BY OneGreatest
    <3> QED
      BY <2>1, <3>1
  <2>2. CASE d = -1
    <3> DEFINE N == {-x : x \in S}
               f == [x \in S |-> -x]
    <3>1. f \in Surjection(S, N)
      BY DEF Surjection
    <3> HIDE DEF f
    <3>2. IsFiniteSet(N)
      BY <3>1, FS_Surjection, Zenon
    <3>3. PICK m \in N : \A y \in N : y <= m
      BY <3>2, OneGreatest
    <3>4. PICK p \in S : m = -p
      BY <3>3
    <3>5. \A q \in S : -q <= -p
      BY <3>3, <3>4
    <3> QED
      BY <2>2, <3>5
  <2> QED
    BY <2>1, <2>2 DEF Directions
<1> QED
  BY <1>1 DEF Best, AsGood

LEMMA BestIs ==
  ASSUME NEW d \in Directions, NEW S \in SUBSET Int, NEW x \in S, \A q \in S : AsGood(d, x, q)
  PROVE  Best(d, S) = x
<1>1. Best(d, S) \in S /\ \A q \in S : d * Best(d, S) >= d * q
  BY DEF Best, AsGood
<1> DEFINE y == Best(d, S)
<1> HIDE DEF y
<1>2. y \in Int /\ x \in Int /\ d * y >= d * x /\ d * x >= d * y
  BY <1>1 DEF AsGood, y
<1>3. y = x
  BY <1>2 DEF Directions
<1> QED
  BY <1>3 DEF y

LEMMA BetterIs ==
  ASSUME NEW d \in Directions, NEW a \in Int, NEW b \in Int
  PROVE  /\ Better(d, a, b) \in Int /\ Better(d, a, b) \in {a, b}
         /\ AsGood(d, Better(d, a, b), a) /\ AsGood(d, Better(d, a, b), b)
BY DEF Directions, Better, AsGood

LEMMA BeyondIsGood ==
  ASSUME NEW d \in Directions, NEW a \in Int, NEW b \in Int, Beyond(d, a, b)
  PROVE  AsGood(d, a, b)
BY DEF Directions, AsGood, Beyond

LEMMA GoodTwice ==
  ASSUME NEW d \in Directions, NEW a \in Int, NEW b \in Int, NEW c \in Int, AsGood(d, a, b), AsGood(d, b, c)
  PROVE  AsGood(d, a, c)
BY DEF Directions, AsGood

----------------------------------------------------------------------------
(* A signal.                                                                *)

LEMMA RoundedDown ==
  ASSUME NEW p \in Int
  PROVE  RoundPrice(p, FALSE) \in Int /\ RoundPrice(p, FALSE) <= p /\ p < RoundPrice(p, FALSE) + Unit
BY TestNumbers DEF RoundPrice

LEMMA RoundedUp ==
  ASSUME NEW p \in Int
  PROVE  RoundPrice(p, TRUE) \in Int /\ RoundPrice(p, TRUE) >= p /\ RoundPrice(p, TRUE) < p + Unit
BY TestNumbers DEF RoundPrice

LEMMA SidesRounded ==
  ASSUME NEW p \in Int
  PROVE  /\ RoundTarget(p, 1) = RoundPrice(p, FALSE) /\ RoundTarget(p, -1) = RoundPrice(p, TRUE)
         /\ RoundAway(p, 1, FALSE) = RoundPrice(p, TRUE) /\ RoundAway(p, -1, FALSE) = RoundPrice(p, FALSE)
         /\ RoundAway(p, 1, TRUE) = RoundPrice(p, FALSE) /\ RoundAway(p, -1, TRUE) = RoundPrice(p, TRUE)
<1>1. /\ (1 < 0) = FALSE /\ (-1 < 0) = TRUE
      /\ (1 > 0) = TRUE /\ (-1 > 0) = FALSE
  OBVIOUS
<1>2. /\ ((1 > 0) # FALSE) = TRUE /\ ((-1 > 0) # FALSE) = FALSE
      /\ ((1 > 0) # TRUE) = FALSE /\ ((-1 > 0) # TRUE) = TRUE
  BY <1>1
<1> QED
  BY <1>1, <1>2, Zenon DEF RoundTarget, RoundAway

\* A target that is two ticks beyond the entry is beyond the trigger.
LEMMA TargetAhead ==
  ASSUME NEW d \in Directions, NEW entry \in Int, NEW z \in Int, d * (z - entry) >= 2 * Unit
  PROVE  RoundTarget(z, d) \in Int /\ Beyond(d, RoundTarget(z, d), RoundAway(entry, d, FALSE))
<1> DEFINE r == RoundTarget(z, d)
           e == RoundAway(entry, d, FALSE)
<1>1. CASE d = 1
  <2>1. r \in Int /\ e \in Int /\ z < r + Unit /\ e < entry + Unit
    BY <1>1, SidesRounded, RoundedDown, RoundedUp
  <2> HIDE DEF r, e
  <2>2. Beyond(d, r, e)
    BY <1>1, <2>1, TestNumbers DEF Beyond
  <2> QED
    BY <2>1, <2>2 DEF r, e
<1>2. CASE d = -1
  <2>1. r \in Int /\ e \in Int /\ r < z + Unit /\ entry < e + Unit
    BY <1>2, SidesRounded, RoundedDown, RoundedUp
  <2> HIDE DEF r, e
  <2>2. Beyond(d, r, e)
    BY <1>2, <2>1, TestNumbers DEF Beyond
  <2> QED
    BY <2>1, <2>2 DEF r, e
<1> QED
  BY <1>1, <1>2 DEF Directions

\* Zones are a tick apart, so rounding keeps their order.
LEMMA TargetsApart ==
  ASSUME NEW d \in Directions, NEW y \in Zones, NEW z \in Zones, Beyond(d, z, y)
  PROVE  Beyond(d, RoundTarget(z, d), RoundTarget(y, d))
<1>1. y \in Int /\ z \in Int /\ (y < z => y + Unit <= z) /\ (z < y => z + Unit <= y)
  BY BacktestAssumption
<1> DEFINE r == RoundTarget(z, d)
           e == RoundTarget(y, d)
<1>2. CASE d = 1
  <2>1. r \in Int /\ e \in Int /\ z < r + Unit /\ e <= y
    BY <1>1, <1>2, SidesRounded, RoundedDown
  <2> HIDE DEF r, e
  <2>2. Beyond(d, r, e)
    BY <1>1, <1>2, <2>1, TestNumbers DEF Beyond
  <2> QED
    BY <2>2 DEF r, e
<1>3. CASE d = -1
  <2>1. r \in Int /\ e \in Int /\ r < z + Unit /\ e >= y
    BY <1>1, <1>3, SidesRounded, RoundedUp
  <2> HIDE DEF r, e
  <2>2. Beyond(d, r, e)
    BY <1>1, <1>3, <2>1, TestNumbers DEF Beyond
  <2> QED
    BY <2>2 DEF r, e
<1> QED
  BY <1>2, <1>3 DEF Directions

LEMMA StopBehind ==
  ASSUME NEW d \in Directions, NEW entry \in Int, NEW stop \in Int, d * (entry - stop) > 0
  PROVE  /\ RoundAway(entry, d, FALSE) \in Int /\ RoundAway(stop, d, TRUE) \in Int
         /\ Beyond(d, RoundAway(entry, d, FALSE), RoundAway(stop, d, TRUE))
<1> DEFINE r == RoundAway(entry, d, FALSE)
           e == RoundAway(stop, d, TRUE)
<1>1. CASE d = 1
  <2>1. r \in Int /\ e \in Int /\ entry <= r /\ e <= stop
    BY <1>1, SidesRounded, RoundedDown, RoundedUp
  <2> HIDE DEF r, e
  <2>2. Beyond(d, r, e)
    BY <1>1, <2>1 DEF Beyond
  <2> QED
    BY <2>1, <2>2 DEF r, e
<1>2. CASE d = -1
  <2>1. r \in Int /\ e \in Int /\ r <= entry /\ stop <= e
    BY <1>2, SidesRounded, RoundedDown, RoundedUp
  <2> HIDE DEF r, e
  <2>2. Beyond(d, r, e)
    BY <1>2, <2>1 DEF Beyond
  <2> QED
    BY <2>1, <2>2 DEF r, e
<1> QED
  BY <1>1, <1>2 DEF Directions

\* Without the nearest zone the others are farther.
LEMMA NextFarther ==
  ASSUME NEW d \in Directions, NEW S \in SUBSET Int, IsFiniteSet(S), S # {}
  PROVE  /\ Best(-d, S) \in S /\ Farther(d, S) \in SUBSET Int /\ Farther(d, S) \subseteq S
         /\ IsFiniteSet(Farther(d, S)) /\ Cardinality(Farther(d, S)) = Cardinality(S) - 1
         /\ \A y \in Farther(d, S) : Beyond(d, y, Best(-d, S))
<1> DEFINE x == Best(-d, S)
<1>1. -d \in Directions
  BY DEF Directions
<1>2. x \in S /\ \A q \in S : AsGood(-d, x, q)
  BY <1>1, BestOf
<1> HIDE DEF x
<1>3. Farther(d, S) = S \ {x}
  BY DEF Farther, x
<1>4. IsFiniteSet(S \ {x}) /\ Cardinality(S \ {x}) = Cardinality(S) - 1
  BY <1>2, FS_RemoveElement
<1>5. ASSUME NEW y \in S \ {x} PROVE Beyond(d, y, x)
  <2>1. y \in Int /\ x \in Int /\ y # x /\ AsGood(-d, x, y)
    BY <1>2, <1>5
  <2> QED
    BY <2>1 DEF Directions, AsGood, Beyond
<1> QED
  BY <1>2, <1>3, <1>4, <1>5 DEF x

LEMMA NearestFirst ==
  ASSUME NEW d \in Directions, NEW S \in SUBSET Int, IsFiniteSet(S)
  PROVE  /\ \E n \in 0..3 : DOMAIN Nearest(d, S) = 1..n
         /\ \A k \in DOMAIN Nearest(d, S) :
              Nearest(d, S)[k] \in S /\ (k > 1 => Beyond(d, Nearest(d, S)[k], Nearest(d, S)[k - 1]))
<1> DEFINE S2 == Farther(d, S)
           S3 == Farther(d, S2)
           c == Cardinality(S)
           n == IF c < 3 THEN c ELSE 3
           f == Nearest(d, S)
<1>1. c \in Nat
  BY FS_CardinalityType
<1>2. f = [k \in 1..n |-> Best(-d, CASE k = 1 -> S [] k = 2 -> S2 [] k = 3 -> S3)]
  BY DEF Nearest
<1>3. c >= 1 => S # {} 
  BY FS_EmptySet
<1>4. c >= 1 => /\ Best(-d, S) \in S /\ S2 \in SUBSET Int /\ S2 \subseteq S /\ IsFiniteSet(S2) /\ Cardinality(S2) = c - 1
                /\ \A y \in S2 : Beyond(d, y, Best(-d, S))
  BY <1>3, NextFarther, Zenon
<1> HIDE DEF S2
<1>5. c >= 2 => S2 # {}
  BY <1>1, <1>4, FS_EmptySet
<1>6. c >= 2 => /\ Best(-d, S2) \in S2 /\ S3 \in SUBSET Int /\ S3 \subseteq S2 /\ IsFiniteSet(S3) /\ Cardinality(S3) = c - 2
                /\ \A y \in S3 : Beyond(d, y, Best(-d, S2))
  <2>1. SUFFICES ASSUME c >= 2 PROVE /\ Best(-d, S2) \in S2 /\ S3 \in SUBSET Int /\ S3 \subseteq S2 /\ IsFiniteSet(S3)
                                     /\ Cardinality(S3) = Cardinality(S2) - 1 /\ Cardinality(S2) = c - 1
                                     /\ \A y \in S3 : Beyond(d, y, Best(-d, S2))
    BY <1>1
  <2>2. S2 \in SUBSET Int /\ IsFiniteSet(S2) /\ S2 # {} /\ Cardinality(S2) = c - 1
    BY <1>1, <1>4, <1>5, <2>1
  <2> QED
    BY <2>2, NextFarther, Zenon
<1> HIDE DEF S3
<1>7. c >= 3 => S3 # {}
  BY <1>1, <1>6, FS_EmptySet
<1>8. c >= 3 => Best(-d, S3) \in S3
  <2>1. c >= 3 => S3 \in SUBSET Int /\ IsFiniteSet(S3) /\ S3 # {}
    BY <1>1, <1>6, <1>7
  <2> QED
    BY <2>1, NextFarther, Zenon
<1> HIDE DEF c, f
<1>9. n \in 0..3 /\ (n >= 1 => c >= 1) /\ (n >= 2 => c >= 2) /\ (n >= 3 => c >= 3)
  BY <1>1
<1> HIDE DEF n
<1>10. /\ 1 \in 1..n => f[1] = Best(-d, S)
       /\ 2 \in 1..n => f[2] = Best(-d, S2)
       /\ 3 \in 1..n => f[3] = Best(-d, S3)
  BY <1>2
<1>11. DOMAIN f = 1..n
  BY <1>2
<1>12. ASSUME NEW k \in 1..n PROVE f[k] \in S /\ (k > 1 => Beyond(d, f[k], f[k - 1]))
  <2>1. CASE k = 1
    BY <1>4, <1>9, <1>10, <2>1
  <2>2. CASE k = 2
    <3>1. f[2] = Best(-d, S2) /\ f[1] = Best(-d, S) /\ c >= 1 /\ c >= 2
      BY <1>9, <1>10, <2>2
    <3>2. f[2] \in S2
      BY <1>6, <3>1
    <3>3. f[2] \in S /\ Beyond(d, f[2], f[1])
      BY <1>4, <3>1, <3>2
    <3> QED
      BY <2>2, <3>3
  <2>3. CASE k = 3
    <3>1. f[2] = Best(-d, S2) /\ f[3] = Best(-d, S3) /\ c >= 1 /\ c >= 2 /\ c >= 3
      BY <1>9, <1>10, <2>3
    <3>2. f[3] \in S3
      BY <1>8, <3>1
    <3>3. f[3] \in S /\ Beyond(d, f[3], f[2])
      BY <1>4, <1>6, <3>1, <3>2
    <3> QED
      BY <2>3, <3>3
  <2> QED
    BY <1>9, <2>1, <2>2, <2>3
<1> QED
  BY <1>9, <1>11, <1>12 DEF f

LEMMA CandleIs ==
  ASSUME NEW b \in Candles
  PROVE  /\ b.o \in Int /\ b.h \in Int /\ b.l \in Int /\ b.c \in Int /\ b.c \in Prices
         /\ b.l <= b.o /\ b.l <= b.c /\ b.o <= b.h /\ b.c <= b.h
BY TestNumbers DEF Candles, Prices

LEMMA NoDealIs ==
  /\ NoDeal \in Deals /\ NoDeal.st = "none" /\ NoDeal.held = 0 /\ NoDeal.step = 0 /\ NoDeal.trail = FALSE /\ NoDeal.done = {}
  /\ NoDeal.win = <<>> /\ NoDeal.qty0 = 0 /\ NoDeal.qty = 0
<1>1. <<>> \in [{} -> Nat \ {0}]
  OBVIOUS
<1>2. <<>> \in Plans
  BY <1>1 DEF Plans
<1>3. 0 \in 0..ValidBars
  BY TestNumbers
<1>4. <<>> \in Seq(Int)
  OBVIOUS
<1> QED
  BY <1>2, <1>3, <1>4 DEF NoDeal, Deals, Directions

\* The targets of a signal, rounded.
LEMMA SignalTargets ==
  ASSUME NEW d \in Directions, NEW entry \in Int, NEW risk \in Int, risk >= MinRisk,
         NEW tg, tg = Nearest(d, Ahead(d, entry, risk)), NEW g, g = [k \in DOMAIN tg |-> RoundTarget(tg[k], d)]
  PROVE  /\ g \in Seq(Int) /\ Len(g) \in 0..3
         /\ \A k \in DOMAIN g : Beyond(d, g[k], RoundAway(entry, d, FALSE)) /\ (k > 1 => Beyond(d, g[k], g[k - 1]))
<1> DEFINE S == Ahead(d, entry, risk)
<1>1. S \subseteq Zones /\ S \in SUBSET Int /\ IsFiniteSet(S)
  <2>1. S \subseteq Zones
    BY DEF Ahead
  <2>2. Zones \in SUBSET Int /\ IsFiniteSet(Zones)
    BY BacktestAssumption
  <2> HIDE DEF S
  <2>3. IsFiniteSet(S)
    BY <2>1, <2>2, FS_Subset, Zenon
  <2> QED
    BY <2>1, <2>2, <2>3
<1>2. ASSUME NEW z \in S PROVE z \in Zones /\ z \in Int /\ d * (z - entry) >= 2 * Unit
  <2>1. z \in Zones /\ z \in Int /\ d * (z - entry) >= MinReward * risk
    BY <1>1 DEF Ahead
  <2>2. MinReward * risk >= risk
    <3>1. PICK m \in Nat : MinReward = 1 + m
      BY TestNumbers
    <3>2. risk \in Nat
      BY TestNumbers
    <3>3. MinReward * risk = risk + m * risk /\ m * risk \in Nat
      BY <3>1, <3>2
    <3> QED
      BY <3>3
  <2>3. MinReward * risk \in Int /\ d * (z - entry) \in Int
    BY <2>1, TestNumbers DEF Directions
  <2> QED
    BY <2>1, <2>2, <2>3, TestNumbers
<1>3. PICK n \in 0..3 : DOMAIN tg = 1..n
  BY <1>1, NearestFirst
<1>4. ASSUME NEW k \in 1..n PROVE tg[k] \in S /\ (k > 1 => Beyond(d, tg[k], tg[k - 1]))
  BY <1>1, <1>3, NearestFirst
<1> HIDE DEF S
<1>5. DOMAIN g = 1..n /\ \A k \in 1..n : g[k] = RoundTarget(tg[k], d)
  BY <1>3
<1>6. ASSUME NEW k \in 1..n
      PROVE  g[k] \in Int /\ Beyond(d, g[k], RoundAway(entry, d, FALSE)) /\ (k > 1 => Beyond(d, g[k], g[k - 1]))
  <2>1. tg[k] \in Zones /\ tg[k] \in Int /\ d * (tg[k] - entry) >= 2 * Unit
    BY <1>2, <1>4
  <2>2. g[k] \in Int /\ Beyond(d, g[k], RoundAway(entry, d, FALSE))
    BY <1>5, <2>1, TargetAhead
  <2>3. ASSUME k > 1 PROVE Beyond(d, g[k], g[k - 1])
    <3>1. k - 1 \in 1..n
      BY <2>3
    <3>2. tg[k - 1] \in Zones /\ Beyond(d, tg[k], tg[k - 1])
      BY <1>2, <1>4, <2>3, <3>1
    <3>3. Beyond(d, RoundTarget(tg[k], d), RoundTarget(tg[k - 1], d))
      BY <2>1, <3>2, TargetsApart
    <3> QED
      BY <1>5, <3>1, <3>3
  <2> QED
    BY <2>2, <2>3
<1>7. g \in [1..n -> Int]
  BY <1>5, <1>6
<1>8. g \in Seq(Int) /\ Len(g) = n
  BY <1>3, <1>7
<1> QED
  BY <1>3, <1>5, <1>6, <1>8

LEMMA SignalRight ==
  ASSUME variant \in Rules, NEW d \in Directions, NEW b \in Candles, b.h - b.l + 2 * Buf >= MinRisk
  PROVE  Signal(d, b) \in Deals /\ Signal(d, b).st = "pending" /\ Signal(d, b).variant = variant /\ Waits(Signal(d, b))
<1> DEFINE entry == Favour(d, b) + d * Buf
           stop  == Adverse(d, b) - d * Buf
           risk  == d * (entry - stop)
           tg    == Nearest(d, Ahead(d, entry, risk))
           g     == [k \in DOMAIN tg |-> RoundTarget(tg[k], d)]
           r     == RoundAway(entry, d, FALSE)
           s     == RoundAway(stop, d, TRUE)
           u     == Signal(d, b)
<1>1. entry \in Int /\ stop \in Int /\ risk \in Int /\ risk = b.h - b.l + 2 * Buf
  BY CandleIs, TestNumbers DEF Directions, Favour, Adverse
<1>2. u = [NoDeal EXCEPT !.st = "pending", !.variant = variant, !.dir = d, !.wait = ValidBars, !.trig = r, !.init = s,
                         !.stop = s, !.targets = g]
  BY DEF Signal
<1> HIDE DEF entry, stop
<1>3. risk >= MinRisk /\ risk > 0
  BY <1>1, TestNumbers
<1>4. /\ g \in Seq(Int) /\ Len(g) \in 0..3
      /\ \A k \in DOMAIN g : Beyond(d, g[k], r) /\ (k > 1 => Beyond(d, g[k], g[k - 1]))
  BY <1>1, <1>3, SignalTargets
<1>5. r \in Int /\ s \in Int /\ Beyond(d, r, s)
  BY <1>1, <1>3, StopBehind
<1> HIDE DEF risk, tg, g, r, s, u
<1>6. ValidBars \in 0..ValidBars
  BY TestNumbers
<1>7. /\ u \in Deals /\ u.st = "pending" /\ u.variant = variant /\ u.dir = d /\ u.trig = r /\ u.init = s /\ u.stop = s
      /\ u.targets = g /\ u.held = 0 /\ u.step = 0 /\ u.trail = FALSE /\ u.done = {} /\ u.win = <<>> /\ u.qty0 = 0 /\ u.qty = 0
  BY <1>2, <1>4, <1>5, <1>6, NoDealIs DEF Deals
<1>8. Waits(u)
  BY <1>4, <1>5, <1>7 DEF Waits, InOrderOf
<1> QED
  BY <1>7, <1>8 DEF u

----------------------------------------------------------------------------
(* The partial exits.                                                       *)

\* All levels of a schedule have the same share, together a whole at the most.
LEMMA ScheduleIs ==
  ASSUME NEW v \in Rules, NEW n \in 0..3
  PROVE  \E m \in 0..3, s \in {1, 2, 4} :
           /\ m <= n /\ m * s <= 4 /\ (v = "ladder" => s = 1)
           /\ DOMAIN Schedule(v, n) = 1..m /\ \A k \in 1..m : Schedule(v, n)[k] = s
<1>1. CASE v = "ladder"
  <2>1. Schedule(v, n) = [k \in 1..n |-> 1]
    BY <1>1 DEF Schedule
  <2>2. DOMAIN Schedule(v, n) = 1..n /\ \A k \in 1..n : Schedule(v, n)[k] = 1
    BY <2>1
  <2>3. n * 1 <= 4 /\ n <= n /\ 1 \in {1, 2, 4}
    OBVIOUS
  <2> QED
    BY <2>2, <2>3
<1>2. CASE v = "zone" /\ n >= 1
  <2>1. Schedule(v, n) = <<4>>
    BY <1>2 DEF Schedule
  <2> QED
    BY <1>2, <2>1
<1>3. CASE v = "split" /\ n >= 1
  <2> DEFINE m == IF n < 2 THEN 1 ELSE 2
  <2>1. Schedule(v, n) = [k \in 1..m |-> 2] /\ m \in 1..2 /\ m <= n /\ m * 2 <= 4
    BY <1>3 DEF Schedule
  <2> HIDE DEF m
  <2>2. DOMAIN Schedule(v, n) = 1..m /\ \A k \in 1..m : Schedule(v, n)[k] = 2
    BY <2>1
  <2>3. m \in 0..3 /\ v # "ladder" /\ 2 \in {1, 2, 4}
    BY <1>3, <2>1
  <2> QED
    BY <2>1, <2>2, <2>3
<1>4. CASE v # "ladder" /\ ~(v = "zone" /\ n >= 1) /\ ~(v = "split" /\ n >= 1)
  <2>1. Schedule(v, n) = <<>>
    BY <1>4, Zenon DEF Schedule
  <2> QED
    BY <1>4, <2>1
<1> QED
  BY <1>1, <1>2, <1>3, <1>4

\* A whole in quarters, rounded down.
LEMMA QuarterIs ==
  ASSUME NEW a \in Nat
  PROVE  a \div 4 \in Nat /\ 4 * (a \div 4) <= a /\ a < 4 * (a \div 4) + 4
OBVIOUS

LEMMA PlanIs ==
  ASSUME NEW v \in Rules, NEW n \in 0..3, NEW q0 \in Nat, q0 > 0
  PROVE  /\ Plan(v, q0, n) \in Plans /\ DOMAIN Plan(v, q0, n) \subseteq 1..n
         /\ Total(Plan(v, q0, n), DOMAIN Plan(v, q0, n)) <= q0
         /\ (v = "ladder" => Total(Plan(v, q0, n), DOMAIN Plan(v, q0, n)) < q0)
<1> DEFINE sch    == Schedule(v, n)
           U(k)   == Upto(q0, sch, k)
           piece(k) == U(k) - U(k - 1)
           K      == {j \in DOMAIN sch : piece(j) > 0}
           P      == Plan(v, q0, n)
<1>1. PICK m \in 0..3, s \in {1, 2, 4} :
           /\ m <= n /\ m * s <= 4 /\ (v = "ladder" => s = 1)
           /\ DOMAIN sch = 1..m /\ \A k \in 1..m : sch[k] = s
  BY ScheduleIs
<1>2. P = [k \in K |-> piece(k)]
  BY DEF Plan
<1> HIDE DEF sch, P
<1>3. /\ U(0) = 0 /\ (m >= 1 => U(1) = (q0 * s) \div 4) /\ (m >= 2 => U(2) = (q0 * (s + s)) \div 4)
      /\ (m >= 3 => U(3) = (q0 * (s + s + s)) \div 4)
  <2>1. /\ Total(sch, 1..0) = 0
        /\ (m >= 1 => Total(sch, 1..1) = s) /\ (m >= 2 => Total(sch, 1..2) = s + s) /\ (m >= 3 => Total(sch, 1..3) = s + s + s)
    BY <1>1 DEF Total
  <2>2. (q0 * 0) \div 4 = 0
    OBVIOUS
  <2> QED
    BY <2>1, <2>2 DEF Upto
<1>4. /\ U(0) = 0 /\ (m >= 1 => U(1) \in Nat /\ 4 * U(1) <= q0 * s)
      /\ (m >= 2 => U(2) \in Nat /\ U(1) <= U(2) /\ 4 * U(2) <= q0 * (s + s))
      /\ (m >= 3 => U(3) \in Nat /\ U(2) <= U(3) /\ 4 * U(3) <= q0 * (s + s + s))
  <2>1. CASE s = 1
    BY <1>3, <2>1
  <2>2. CASE s = 2
    BY <1>3, <2>2
  <2>3. CASE s = 4
    BY <1>3, <2>3
  <2> QED
    BY <2>1, <2>2, <2>3
<1> HIDE DEF U
<1>5. \A k \in 1..m : piece(k) \in Nat
  <2>1. U(0) = 0 /\ (m >= 1 => U(1) - U(0) \in Nat) /\ (m >= 2 => U(2) - U(1) \in Nat) /\ (m >= 3 => U(3) - U(2) \in Nat)
    BY <1>4
  <2> SUFFICES ASSUME NEW k \in 1..m PROVE U(k) - U(k - 1) \in Nat
    OBVIOUS
  <2>2. CASE k = 1
    BY <2>1, <2>2
  <2>3. CASE k = 2
    BY <2>1, <2>3
  <2>4. CASE k = 3
    BY <2>1, <2>4
  <2>5. k = 1 \/ k = 2 \/ k = 3
    OBVIOUS
  <2> QED
    BY <2>2, <2>3, <2>4, <2>5
<1>6. K \subseteq 1..m /\ K \in SUBSET Levels /\ \A k \in K : piece(k) \in Nat \ {0}
  <2>1. \A k \in K : k \in 1..m /\ piece(k) > 0
    BY <1>1
  <2>2. 1..m \subseteq Levels
    BY DEF Levels
  <2>3. \A k \in K : piece(k) \in Nat \ {0}
    <3> SUFFICES ASSUME NEW k \in K PROVE piece(k) \in Nat \ {0}
      OBVIOUS
    <3>1. k \in 1..m /\ piece(k) > 0 /\ piece(k) \in Nat
      BY <1>5, <2>1
    <3> HIDE DEF piece
    <3> QED
      BY <3>1
  <2> QED
    BY <2>1, <2>2, <2>3
<1>7. P \in [K -> Nat \ {0}]
  BY <1>2, <1>6
<1>8. \A k \in 1..3 : (IF k \in K THEN P[k] ELSE 0) = IF k <= m THEN piece(k) ELSE 0
  BY <1>1, <1>2, <1>5, <1>6
<1>9. Total(P, K) = U(m)
  <2>1. Total(P, K) = (IF 1 <= m THEN piece(1) ELSE 0) + (IF 2 <= m THEN piece(2) ELSE 0) + (IF 3 <= m THEN piece(3) ELSE 0)
    BY <1>8 DEF Total
  <2> HIDE DEF K
  <2>2. m = 0 \/ m = 1 \/ m = 2 \/ m = 3
    OBVIOUS
  <2> QED
    BY <1>4, <2>1, <2>2
<1> HIDE DEF K
<1>10. U(m) <= q0 /\ (s = 1 /\ m < 4 => U(m) < q0)
  <2>1. CASE m = 0
    BY <1>4, <2>1
  <2>2. CASE m = 1
    BY <1>4, <2>2
  <2>3. CASE m = 2
    BY <1>1, <1>4, <2>3
  <2>4. CASE m = 3
    BY <1>1, <1>4, <2>4
  <2> QED
    BY <2>1, <2>2, <2>3, <2>4
<1>11. DOMAIN P = K
  BY <1>7
<1>12. P \in Plans
  BY <1>6, <1>7, Zenon DEF Plans
<1>13. K \subseteq 1..n
  BY <1>1, <1>6
<1> QED
  BY <1>1, <1>9, <1>10, <1>11, <1>12, <1>13 DEF P

\* Parts of a plan.
LEMMA TotalIs ==
  ASSUME NEW plan \in Plans, NEW S, S \subseteq DOMAIN plan
  PROVE  Total(plan, S) \in Nat /\ Total(plan, S) <= Total(plan, DOMAIN plan)
<1>1. DOMAIN plan \subseteq Levels /\ \A k \in DOMAIN plan : plan[k] \in Nat
  BY DEF Plans
<1>2. \A k \in Levels : (IF k \in S THEN plan[k] ELSE 0) \in Nat
  BY <1>1
<1> QED
  BY <1>1, <1>2 DEF Total, Levels

LEMMA TotalAdds ==
  ASSUME NEW plan \in Plans, NEW S, NEW T, S \subseteq DOMAIN plan, T \subseteq DOMAIN plan \ S
  PROVE  Total(plan, S \cup T) = Total(plan, S) + Total(plan, T)
<1>1. DOMAIN plan \subseteq Levels /\ \A k \in DOMAIN plan : plan[k] \in Nat
  BY DEF Plans
<1>2. \A k \in Levels : (IF k \in S \cup T THEN plan[k] ELSE 0) = (IF k \in S THEN plan[k] ELSE 0) + (IF k \in T THEN plan[k] ELSE 0)
  BY <1>1
<1>3. \A k \in Levels : (IF k \in S THEN plan[k] ELSE 0) \in Nat /\ (IF k \in T THEN plan[k] ELSE 0) \in Nat
  BY <1>1
<1> QED
  BY <1>2, <1>3 DEF Total, Levels

----------------------------------------------------------------------------
(* The inside of a bar.                                                     *)

\* A trade in the bar of its entry: the ladder has not looked yet.
JustIn(t, b) == t.step = 0 /\ AsGood(t.dir, Favour(t.dir, b), t.best)

\* A trade v and a note, after the inside of a bar.
MidRight(r, v, b) ==
  /\ r.t \in Deals /\ r.note \in Notes /\ NoFlaw(r.note) /\ ~r.note.ruled /\ ~r.note.armed
  /\ (r.t.st = "none" => r.t = NoDeal) /\ (r.t.st # "none" => r.t.variant = v)
  /\ (r.t.st = "pending" => Waits(r.t))
  /\ (r.t.st = "open" => Runs(r.t) /\ (Climbed(r.t) \/ JustIn(r.t, b)))

LEMMA DealIs ==
  ASSUME NEW t \in Deals
  PROVE  /\ t.dir \in Directions /\ t.trig \in Int /\ t.init \in Int /\ t.fill \in Int /\ t.stop \in Int /\ t.best \in Int
         /\ t.targets \in Seq(Int) /\ Len(t.targets) \in Nat /\ DOMAIN t.targets = 1..Len(t.targets)
         /\ \A k \in DOMAIN t.targets : t.targets[k] \in Int
         /\ t.win \in Seq(Int) /\ t.qty0 \in Nat /\ t.qty \in Nat /\ t.held \in Nat /\ t.step \in Nat /\ t.trail \in BOOLEAN
         /\ t.plan \in Plans /\ t.done \in SUBSET Levels /\ t.wait \in 0..ValidBars /\ t.variant \in Rules \cup {""}
<1>1. t.targets \in Seq(Int)
  BY DEF Deals
<1>2. Len(t.targets) \in Nat /\ DOMAIN t.targets = 1..Len(t.targets) /\ \A k \in DOMAIN t.targets : t.targets[k] \in Int
  BY <1>1, LenProperties, ElementOfSeq
<1> QED
  BY <1>1, <1>2 DEF Deals

LEMMA NothingIs == Nothing \in Notes /\ NoFlaw(Nothing) /\ ~Nothing.ruled /\ ~Nothing.armed
BY DEF Nothing, Notes, NoFlaw

LEMMA VanishedRight == ASSUME NEW v, NEW b PROVE MidRight(Vanished, v, b)
BY NoDealIs, NothingIs DEF Vanished, Becomes, MidRight

LEMMA StoppedRight ==
  ASSUME NEW t \in Deals, NEW px \in Int, AsGood(t.dir, t.stop, px), NEW v, NEW b
  PROVE  MidRight(StoppedAt(t, px), v, b)
<1> DEFINE g == t.dir * px > t.dir * t.stop
           n == [Nothing EXCEPT !.touched = TRUE, !.gain = g]
<1>1. t.stop \in Int /\ t.dir \in Directions
  BY DealIs
<1>2. g = FALSE
  BY <1>1 DEF AsGood, Directions
<1>3. StoppedAt(t, px) = [t |-> NoDeal, note |-> n]
  BY DEF StoppedAt, Becomes
<1> HIDE DEF g
<1>4. n \in Notes /\ NoFlaw(n) /\ ~n.ruled /\ ~n.armed
  BY <1>2 DEF Nothing, Notes, NoFlaw
<1> HIDE DEF n
<1> QED
  BY <1>3, <1>4, NoDealIs DEF MidRight

LEMMA EnteredRight ==
  ASSUME NEW t \in Deals, t.st = "pending", Waits(t), t.variant \in Rules, NEW b \in Candles, NEW m, NEW q \in Nat, q > 0,
         Reached(t.dir, t.trig, b)
  PROVE  MidRight(Entered(t, b, m, q), t.variant, b)
<1> DEFINE px == Better(t.dir, t.trig, b.o)
           pl == Plan(t.variant, q, Len(t.targets))
           u  == [t EXCEPT !.st = "open", !.fill = px, !.qty0 = q, !.qty = q, !.best = px, !.plan = pl, !.wait = 0]
<1>1. t.dir \in Directions /\ t.trig \in Int /\ t.init \in Int /\ b.o \in Int /\ Len(t.targets) \in 0..3
  BY DealIs, CandleIs DEF Waits, InOrderOf
<1>2. CASE Lost(t.dir, t.init, m)
  <2>1. Entered(t, b, m, q) = StoppedAt(t, t.init)
    BY <1>2 DEF Entered
  <2>2. AsGood(t.dir, t.stop, t.init)
    BY <1>1 DEF Waits, AsGood, Directions
  <2> QED
    BY <1>1, <2>1, <2>2, StoppedRight
<1>3. CASE ~Lost(t.dir, t.init, m)
  <2>1. Entered(t, b, m, q) = [t |-> u, note |-> Nothing]
    BY <1>3 DEF Entered, Becomes
  <2>2. px \in Int /\ AsGood(t.dir, Favour(t.dir, b), px)
    <3>1. px \in {t.trig, b.o} /\ px \in Int
      BY <1>1, BetterIs
    <3>2. AsGood(t.dir, Favour(t.dir, b), t.trig)
      BY DEF Reached, AsGood
    <3>3. AsGood(t.dir, Favour(t.dir, b), b.o)
      BY <1>1, CandleIs DEF Favour, AsGood, Directions
    <3> QED
      BY <3>1, <3>2, <3>3
  <2>3. /\ pl \in Plans /\ DOMAIN pl \subseteq 1..Len(t.targets) /\ Total(pl, DOMAIN pl) <= q
        /\ (t.variant = "ladder" => Total(pl, DOMAIN pl) < q)
    BY <1>1, PlanIs
  <2> HIDE DEF px, pl
  <2>4. 0 \in 0..ValidBars
    BY TestNumbers
  <2>5. /\ u \in Deals /\ u.st = "open" /\ u.variant = t.variant /\ u.dir = t.dir /\ u.trig = t.trig /\ u.init = t.init
        /\ u.targets = t.targets /\ u.stop = t.stop /\ u.step = t.step /\ u.trail = t.trail /\ u.done = t.done /\ u.win = t.win
        /\ u.fill = px /\ u.qty0 = q /\ u.qty = q /\ u.best = px /\ u.plan = pl
    BY <2>2, <2>3, <2>4 DEF Deals
  <2> HIDE DEF u
  <2>6. InOrderOf(u)
    BY <2>5 DEF Waits, InOrderOf
  <2>7. StopStands(u)
    <3>1. Floor(u) = {u.init}
      BY <2>5 DEF Floor, RungsOf, Even, Waits
    <3> QED
      BY <1>1, <2>5, <3>1 DEF StopStands, Waits, AsGood, Directions
  <2>8. PlanStands(u)
    <3>1. Total(u.plan, {}) = 0
      BY DEF Total
    <3>2. DOMAIN t.targets = 1..Len(t.targets)
      BY DealIs
    <3> QED
      BY <2>3, <2>5, <3>1, <3>2 DEF PlanStands, Waits
  <2>9. u.step = 0 /\ u.step <= Len(u.targets) /\ Len(u.win) < TrailBars
    BY <1>1, <2>5 DEF Waits, TrailBars
  <2>10. Runs(u) /\ JustIn(u, b)
    BY <2>2, <2>5, <2>6, <2>7, <2>8, <2>9 DEF Runs, JustIn
  <2> QED
    BY <2>1, <2>5, <2>10, NothingIs DEF MidRight
<1> QED
  BY <1>2, <1>3

\* What targets leave of the plan.
LEMMA PlanAfter ==
  ASSUME NEW t \in Deals, Runs(t), NEW sold, sold \subseteq DOMAIN t.plan \ t.done,
         \A i \in DOMAIN t.plan \ t.done : \A j \in sold : i < j => i \in sold,
         NEW u, u.plan = t.plan, u.done = t.done \cup sold, u.qty = t.qty - Total(t.plan, sold), u.qty0 = t.qty0,
         u.targets = t.targets, u.variant = t.variant
  PROVE  u.qty \in Nat /\ (u.qty # 0 => PlanStands(u))
<1>1. /\ t.plan \in Plans /\ t.qty0 \in Nat /\ t.done \subseteq DOMAIN t.plan /\ DOMAIN t.plan \subseteq Levels
      /\ Total(t.plan, DOMAIN t.plan) <= t.qty0 /\ t.qty = t.qty0 - Total(t.plan, t.done)
  <2>1. t.plan \in Plans /\ t.qty0 \in Nat
    BY DealIs
  <2>2. DOMAIN t.plan \subseteq Levels
    BY <2>1 DEF Plans
  <2>3. PlanStands(t)
    BY DEF Runs
  <2> QED
    BY <2>1, <2>2, <2>3 DEF PlanStands
<1>2. sold \subseteq DOMAIN t.plan \ t.done /\ t.done \cup sold \subseteq DOMAIN t.plan
  BY <1>1
<1>3. /\ Total(t.plan, t.done \cup sold) = Total(t.plan, t.done) + Total(t.plan, sold)
      /\ Total(t.plan, t.done \cup sold) \in Nat /\ Total(t.plan, t.done \cup sold) <= Total(t.plan, DOMAIN t.plan)
      /\ Total(t.plan, t.done) \in Nat /\ Total(t.plan, sold) \in Nat /\ Total(t.plan, DOMAIN t.plan) \in Nat
  BY <1>1, <1>2, TotalAdds, TotalIs
<1>4. u.qty = t.qty0 - Total(t.plan, u.done) /\ u.qty \in Nat
  BY <1>1, <1>3
<1>5. ASSUME NEW i \in DOMAIN t.plan, NEW j \in DOMAIN t.plan, i < j, j \in u.done PROVE i \in u.done
  <2>1. CASE j \in t.done
    BY <1>5, <2>1 DEF Runs, PlanStands
  <2>2. CASE j \notin t.done /\ i \notin t.done
    BY <1>5, <2>2
  <2> QED
    BY <2>1, <2>2
<1>6. u.done \subseteq DOMAIN u.plan
  BY <1>2
<1> QED
  BY <1>4, <1>5, <1>6 DEF Runs, PlanStands

\* The first target of "split" takes the stop to the entry.
LEMMA StopAfter ==
  ASSUME NEW t \in Deals, Runs(t), NEW sold, sold \subseteq DOMAIN t.plan \ t.done, NEW u \in Deals,
         u.stop = (IF t.variant = "split" /\ 1 \in sold THEN Better(t.dir, t.stop, t.fill) ELSE t.stop),
         u.done = t.done \cup sold, u.fill = t.fill, u.init = t.init, u.dir = t.dir, u.targets = t.targets, u.step = t.step,
         u.variant = t.variant, u.trail = t.trail
  PROVE  StopStands(u)
<1>1. /\ t.dir \in Directions /\ t.stop \in Int /\ t.fill \in Int /\ StopStands(t) /\ (~UsesLadder(t) => t.step = 0)
      /\ t.init \in Int
  BY DealIs DEF Runs
<1>2. RungsOf(u) = RungsOf(t)
  BY DEF RungsOf, Rung
<1>3. CASE t.variant = "split" /\ 1 \in sold
  <2>1. Even(u) = {t.fill} /\ Even(t) = {} /\ RungsOf(u) = {} /\ RungsOf(t) = {}
    BY <1>1, <1>3 DEF Even, RungsOf, UsesLadder
  <2>2. Floor(t) = {t.init} /\ Floor(u) = {t.init, t.fill}
    BY <2>1 DEF Floor
  <2>3. /\ u.stop \in Int /\ u.stop \in {t.stop, t.fill}
        /\ AsGood(t.dir, u.stop, t.stop) /\ AsGood(t.dir, u.stop, t.fill)
    BY <1>1, <1>3, BetterIs
  <2>4. AsGood(t.dir, u.stop, t.init)
    BY <1>1, <2>2, <2>3, GoodTwice DEF StopStands
  <2>5. ~t.trail => t.stop = t.init
    BY <1>1, <2>2 DEF StopStands
  <2> QED
    BY <2>2, <2>3, <2>4, <2>5 DEF StopStands
<1>4. CASE ~(t.variant = "split" /\ 1 \in sold)
  <2>1. Even(u) = Even(t) /\ u.stop = t.stop
    BY <1>4 DEF Even
  <2>2. Floor(u) = Floor(t)
    BY <1>2, <2>1, Zenon DEF Floor
  <2> QED
    BY <1>1, <2>1, <2>2 DEF StopStands
<1> QED
  BY <1>3, <1>4

LEMMA TakenRight ==
  ASSUME NEW t \in Deals, t.st = "open", Runs(t), Climbed(t), NEW b
  PROVE  MidRight(Taken(t, b), t.variant, b)
<1> DEFINE left == DOMAIN t.plan \ t.done
           sold == {lv \in left : \A k \in left : k <= lv => Reached(t.dir, t.targets[k], b)}
           s    == IF t.variant = "split" /\ 1 \in sold THEN Better(t.dir, t.stop, t.fill) ELSE t.stop
           dn   == t.done \cup sold
           q    == t.qty - Total(t.plan, sold)
           u    == [t EXCEPT !.done = dn, !.qty = q, !.stop = s]
           n    == [Nothing EXCEPT !.tps = sold]
<1>1. Taken(t, b) = [t |-> IF u.qty = 0 THEN NoDeal ELSE u, note |-> n]
  BY DEF Taken, OnTpFilled, Becomes
<1>2. t.dir \in Directions /\ t.stop \in Int /\ t.fill \in Int /\ t.plan \in Plans /\ t.done \in SUBSET Levels
  BY DealIs
<1>3. sold \subseteq left /\ sold \subseteq DOMAIN t.plan /\ sold \in SUBSET Levels /\ dn \in SUBSET Levels
  BY <1>2 DEF Plans
<1>4. s \in Int
  BY <1>2, BetterIs
<1>5. /\ u.qty = q /\ u.done = dn /\ u.stop = s /\ u.plan = t.plan /\ u.qty0 = t.qty0 /\ u.targets = t.targets
      /\ u.variant = t.variant /\ u.dir = t.dir /\ u.fill = t.fill /\ u.init = t.init /\ u.trig = t.trig /\ u.step = t.step
      /\ u.trail = t.trail /\ u.win = t.win /\ u.best = t.best /\ u.st = t.st
  BY DEF Deals
<1>6. u.qty \in Nat /\ (u.qty # 0 => PlanStands(u))
  <2>1. \A i \in left : \A j \in sold : i < j => i \in sold
    <3>1. left \subseteq Levels
      BY <1>2 DEF Plans
    <3> SUFFICES ASSUME NEW i \in left, NEW j \in sold, i < j, NEW k \in left, k <= i PROVE Reached(t.dir, t.targets[k], b)
      OBVIOUS
    <3>2. k <= j
      BY <3>1 DEF Levels
    <3> QED
      BY <3>2
  <2>2. /\ u.plan = t.plan /\ u.done = t.done \cup sold /\ u.qty = t.qty - Total(t.plan, sold) /\ u.qty0 = t.qty0
        /\ u.targets = t.targets /\ u.variant = t.variant
    BY <1>5
  <2>3. sold \subseteq DOMAIN t.plan \ t.done /\ \A i \in DOMAIN t.plan \ t.done : \A j \in sold : i < j => i \in sold
    BY <1>3, <2>1
  <2> HIDE DEF u, sold, left
  <2> QED
    BY <2>2, <2>3, PlanAfter
<1>7. n \in Notes /\ NoFlaw(n) /\ ~n.ruled /\ ~n.armed
  BY <1>3 DEF Nothing, Notes, NoFlaw
<1>8. u \in Deals
  <2>1. q \in Nat
    BY <1>5, <1>6
  <2> HIDE DEF q, s, dn, sold
  <2> QED
    BY <1>3, <1>4, <2>1 DEF Deals
<1>9. StopStands(u)
  <2>1. /\ u.stop = (IF t.variant = "split" /\ 1 \in sold THEN Better(t.dir, t.stop, t.fill) ELSE t.stop)
        /\ u.done = t.done \cup sold /\ u.fill = t.fill /\ u.init = t.init /\ u.dir = t.dir /\ u.targets = t.targets
        /\ u.step = t.step /\ u.variant = t.variant /\ u.trail = t.trail
    BY <1>5
  <2>2. sold \subseteq DOMAIN t.plan \ t.done
    BY <1>3
  <2> HIDE DEF u, sold
  <2> QED
    BY <1>8, <2>1, <2>2, StopAfter
<1> HIDE DEF u, n, sold, left
<1>10. InOrderOf(u)
  BY <1>5 DEF Runs, InOrderOf
<1>11. Climbed(u) /\ (~UsesLadder(u) => u.step = 0)
  BY <1>5 DEF Climbed, Runs, UsesLadder
<1>12. u.step <= Len(u.targets) /\ Len(u.win) < TrailBars
  BY <1>5 DEF Runs
<1>13. u.qty # 0 => Runs(u)
  BY <1>6, <1>9, <1>10, <1>11, <1>12 DEF Runs
<1> QED
  BY <1>1, <1>5, <1>7, <1>8, <1>11, <1>13, NoDealIs DEF MidRight

LEMMA StruckRight ==
  ASSUME NEW t \in Deals, t.st = "open", Runs(t), Climbed(t), NEW b \in Candles, NEW m
  PROVE  MidRight(Struck(t, b, m), t.variant, b)
<1>1. CASE Lost(t.dir, t.stop, m)
  <2> DEFINE px == StopPrice(t, b, m)
  <2>1. t.dir \in Directions /\ -t.dir \in Directions /\ t.stop \in Int /\ b.o \in Int
    <3>1. t.dir \in Directions /\ t.stop \in Int
      BY DealIs
    <3>2. b.o \in Int
      BY CandleIs
    <3>3. -t.dir \in Directions
      BY <3>1 DEF Directions
    <3> QED
      BY <3>1, <3>2, <3>3
  <2>2. px = Better(-t.dir, b.o, t.stop) \/ px = t.stop
    BY DEF StopPrice
  <2>3. Better(-t.dir, b.o, t.stop) \in Int /\ AsGood(-t.dir, Better(-t.dir, b.o, t.stop), t.stop)
    BY <2>1, BetterIs
  <2> HIDE DEF px
  <2>4. px \in Int /\ AsGood(-t.dir, px, t.stop)
    BY <2>1, <2>2, <2>3 DEF AsGood, Directions
  <2>5. AsGood(t.dir, t.stop, px)
    BY <2>1, <2>4 DEF AsGood, Directions
  <2>6. Struck(t, b, m) = StoppedAt(t, px)
    BY <1>1 DEF Struck, px
  <2> QED
    BY <2>4, <2>5, <2>6, StoppedRight
<1>2. CASE ~Lost(t.dir, t.stop, m)
  <2>1. Struck(t, b, m) = Taken(t, b)
    BY <1>2 DEF Struck
  <2> QED
    BY <2>1, TakenRight
<1> QED
  BY <1>1, <1>2

LEMMA WaitingRight ==
  ASSUME NEW t \in Deals, t.st = "pending", Waits(t), t.variant \in Rules, NEW b \in Candles, NEW m,
         NEW r \in Waiting(t, b, m)
  PROVE  MidRight(r, t.variant, b)
<1>1. CASE r = Vanished
  BY <1>1, VanishedRight
<1>2. CASE Reached(t.dir, t.trig, b) /\ r # Vanished
  <2>1. PICK q \in Quantities : r = (IF q = 0 THEN Vanished ELSE Entered(t, b, m, q))
    BY <1>2 DEF Waiting
  <2>2. q \in Nat /\ q > 0 /\ r = Entered(t, b, m, q)
    BY <1>2, <2>1, BacktestAssumption
  <2> QED
    BY <1>2, <2>2, EnteredRight
<1>3. CASE ~Reached(t.dir, t.trig, b) /\ r # Vanished
  <2> DEFINE w == t.wait - 1
             u == [t EXCEPT !.wait = w]
  <2>1. r = [t |-> u, note |-> Nothing] /\ t.wait # 0
    BY <1>3 DEF Waiting, Becomes, Expired
  <2>2. w \in 0..ValidBars
    <3>1. t.wait \in 0..ValidBars /\ ValidBars \in Nat
      BY DealIs, TestNumbers
    <3> QED
      BY <2>1, <3>1
  <2> HIDE DEF w
  <2>3. /\ u \in Deals /\ u.st = "pending" /\ u.variant = t.variant /\ u.dir = t.dir /\ u.trig = t.trig /\ u.init = t.init
        /\ u.targets = t.targets /\ u.stop = t.stop /\ u.held = t.held /\ u.step = t.step /\ u.trail = t.trail
        /\ u.done = t.done /\ u.win = t.win /\ u.qty0 = t.qty0 /\ u.qty = t.qty
    BY <2>2 DEF Deals
  <2> HIDE DEF u
  <2>4. Waits(u)
    BY <2>3 DEF Waits, InOrderOf
  <2> QED
    BY <2>1, <2>3, <2>4, NothingIs DEF MidRight
<1> QED
  BY <1>1, <1>2, <1>3

LEMMA InsideRight ==
  ASSUME NEW v \in Rules, NEW t, NEW close, DealOn(v, t, close), NEW b \in Candles, NEW m, NEW r \in Inside(t, b, m)
  PROVE  MidRight(r, v, b)
<1>1. t \in Deals /\ t.st \in {"none", "pending", "open"}
  BY DEF DealOn, Deals
<1>2. CASE t.st = "pending"
  <2>1. r \in Waiting(t, b, m)
    BY <1>2 DEF Inside
  <2> QED
    BY <1>1, <1>2, <2>1, WaitingRight DEF DealOn
<1>3. CASE t.st = "open"
  <2>1. r = Struck(t, b, m)
    BY <1>3 DEF Inside
  <2> QED
    BY <1>1, <1>3, <2>1, StruckRight DEF DealOn, Holds
<1>4. CASE t.st = "none"
  <2>1. r = [t |-> t, note |-> Nothing] /\ t = NoDeal
    BY <1>4 DEF Inside, Becomes, DealOn
  <2> QED
    BY <2>1, NothingIs, NoDealIs DEF MidRight
<1> QED
  BY <1>1, <1>2, <1>3, <1>4

----------------------------------------------------------------------------
(* The close of a bar.                                                      *)

Heights(t, b) ==
  IF UsesLadder(t) THEN {k \in t.step + 1..Len(t.targets) : Reached(t.dir, t.targets[k], b)} ELSE {}
BestAfter(t, b) == IF UsesLadder(t) THEN Better(t.dir, t.best, Favour(t.dir, b)) ELSE t.best

\* Targets are in order.
LEMMA TargetsClimb ==
  ASSUME NEW t \in Deals, InOrderOf(t), NEW j \in DOMAIN t.targets, NEW k \in DOMAIN t.targets, j <= k
  PROVE  AsGood(t.dir, t.targets[k], t.targets[j])
<1>1. /\ Len(t.targets) \in 0..3 /\ DOMAIN t.targets = 1..Len(t.targets) /\ t.dir \in Directions
      /\ \A i \in DOMAIN t.targets : t.targets[i] \in Int
      /\ \A i \in DOMAIN t.targets : i > 1 => Beyond(t.dir, t.targets[i], t.targets[i - 1])
  BY DealIs DEF InOrderOf
<1>2. CASE j = k
  BY <1>1, <1>2 DEF AsGood, Directions
<1>3. CASE j + 1 = k
  <2>1. k > 1 /\ k - 1 = j
    BY <1>1, <1>3
  <2>2. Beyond(t.dir, t.targets[k], t.targets[j])
    BY <1>1, <2>1
  <2>3. t.targets[k] \in Int /\ t.targets[j] \in Int
    BY <1>1
  <2> QED
    BY <1>1, <2>2, <2>3, BeyondIsGood
<1>4. CASE j = 1 /\ k = 3
  <2>1. Len(t.targets) = 3
    BY <1>1, <1>4
  <2>2. 1 \in DOMAIN t.targets /\ 2 \in DOMAIN t.targets /\ 3 \in DOMAIN t.targets
    BY <1>1, <2>1
  <2>3. 3 - 1 = 2 /\ 2 - 1 = 1 /\ 2 > 1 /\ 3 > 1
    OBVIOUS
  <2>4. Beyond(t.dir, t.targets[3], t.targets[2]) /\ Beyond(t.dir, t.targets[2], t.targets[1])
    BY <1>1, <2>2, <2>3
  <2>5. t.targets[1] \in Int /\ t.targets[2] \in Int /\ t.targets[3] \in Int
    BY <1>1, <2>2
  <2>6. AsGood(t.dir, t.targets[3], t.targets[1])
    <3>1. AsGood(t.dir, t.targets[3], t.targets[2]) /\ AsGood(t.dir, t.targets[2], t.targets[1])
      BY <1>1, <2>4, <2>5, BeyondIsGood
    <3> QED
      BY <1>1, <2>5, <3>1, GoodTwice
  <2> QED
    BY <1>4, <2>6
<1>5. j \in 1..3 /\ k \in 1..3
  BY <1>1
<1>6. j = k \/ j + 1 = k \/ (j = 1 /\ k = 3)
  BY <1>5
<1> QED
  BY <1>2, <1>3, <1>4, <1>6

\* The rungs climbed in a bar come after those climbed before, and none is left
\* out.
LEMMA HeightsAre ==
  ASSUME NEW t \in Deals, Runs(t), NEW b \in Candles
  PROVE  \E n \in Nat : /\ t.step <= n /\ n <= Len(t.targets) /\ Heights(t, b) = t.step + 1..n
                        /\ (~UsesLadder(t) => n = t.step)
                        /\ (UsesLadder(t) => \A k \in t.step + 1..Len(t.targets) : k <= n <=> Reached(t.dir, t.targets[k], b))
<1>1. /\ t.step \in Nat /\ Len(t.targets) \in 0..3 /\ t.step <= Len(t.targets) /\ DOMAIN t.targets = 1..Len(t.targets)
      /\ t.dir \in Directions /\ \A k \in DOMAIN t.targets : t.targets[k] \in Int
  BY DealIs DEF Runs, InOrderOf
<1>2. CASE ~UsesLadder(t)
  <2>1. Heights(t, b) = {} /\ t.step + 1..t.step = {}
    BY <1>1, <1>2 DEF Heights
  <2> QED
    BY <1>1, <1>2, <2>1
<1>3. CASE UsesLadder(t)
  <2> DEFINE R(k) == Reached(t.dir, t.targets[k], b)
             L == Len(t.targets)
  <2>1. ASSUME NEW j \in 1..L, NEW k \in 1..L, j <= k, R(k) PROVE R(j)
    <3>1. AsGood(t.dir, t.targets[k], t.targets[j]) /\ t.targets[k] \in Int /\ t.targets[j] \in Int
      BY <1>1, <2>1, TargetsClimb DEF Runs
    <3>2. Favour(t.dir, b) \in Int
      BY CandleIs DEF Favour
    <3> QED
      BY <1>1, <2>1, <3>1, <3>2 DEF AsGood, Reached, Directions
  <2>2. Heights(t, b) = {k \in t.step + 1..L : R(k)}
    BY <1>3 DEF Heights
  <2> HIDE DEF R, L
  <2>3. L \in 0..3 /\ t.step <= L
    BY <1>1 DEF L
  <2>4. \E n \in 0..3 : t.step <= n /\ n <= L /\ \A k \in t.step + 1..L : k <= n <=> R(k)
    <3>1. CASE \A k \in t.step + 1..L : R(k)
      BY <1>1, <2>3, <3>1
    <3>2. CASE \E k \in t.step + 1..L : ~R(k)
      <4>1. PICK k \in t.step + 1..L : ~R(k) /\ \A i \in t.step + 1..L : i < k => R(i)
        <5>1. PICK a \in t.step + 1..L : ~R(a)
          BY <3>2
        <5> DEFINE Out(x) == x \in t.step + 1..L /\ ~R(x)
        <5>2. a \in 1..3 /\ Out(a) /\ t.step + 1..L \subseteq 1..3
          BY <1>1, <2>3, <5>1
        <5>3. CASE Out(1)
          BY <5>2, <5>3
        <5>4. CASE ~Out(1) /\ Out(2)
          BY <5>2, <5>4
        <5>5. CASE ~Out(1) /\ ~Out(2)
          BY <5>2, <5>5
        <5> QED
          BY <5>3, <5>4, <5>5
      <4>2. ASSUME NEW i \in t.step + 1..L, i >= k PROVE ~R(i)
        BY <1>1, <2>1, <2>3, <4>1, <4>2
      <4>3. k - 1 \in 0..3 /\ t.step <= k - 1 /\ k - 1 <= L
        BY <1>1, <2>3, <4>1
      <4>4. \A i \in t.step + 1..L : i <= k - 1 <=> R(i)
        BY <1>1, <2>3, <4>1, <4>2
      <4> QED
        BY <4>3, <4>4
    <3> QED
      BY <3>1, <3>2
  <2>5. PICK n \in 0..3 : t.step <= n /\ n <= L /\ \A k \in t.step + 1..L : k <= n <=> R(k)
    BY <2>4
  <2>6. Heights(t, b) = t.step + 1..n
    BY <1>1, <2>2, <2>3, <2>5
  <2> QED
    BY <1>3, <2>5, <2>6 DEF R, L
<1> QED
  BY <1>2, <1>3

\* The best price of the trade and what it reached.
LEMMA ClimbedAfter ==
  ASSUME NEW t \in Deals, Runs(t), NEW b \in Candles, Climbed(t) \/ JustIn(t, b), UsesLadder(t), NEW n \in Nat, t.step <= n,
         \A k \in t.step + 1..Len(t.targets) : k <= n <=> Reached(t.dir, t.targets[k], b),
         NEW k \in DOMAIN t.targets
  PROVE  k <= n <=> AsGood(t.dir, BestAfter(t, b), t.targets[k])
<1> DEFINE d == t.dir
           f == Favour(d, b)
           x == BestAfter(t, b)
           g == t.targets[k]
<1>1. d \in Directions /\ t.best \in Int /\ f \in Int /\ g \in Int /\ t.step \in Nat /\ k \in 1..Len(t.targets)
      /\ Len(t.targets) \in Nat
  BY DealIs, CandleIs DEF Favour
<1>2. x = Better(d, t.best, f)
  BY DEF BestAfter
<1>3. x \in Int /\ x \in {t.best, f} /\ AsGood(d, x, t.best) /\ AsGood(d, x, f)
  BY <1>1, <1>2, BetterIs
<1>4. k > t.step => (k <= n <=> AsGood(d, f, g))
  BY <1>1 DEF AsGood, Reached
<1>5. CASE Climbed(t)
  <2>1. k <= t.step <=> AsGood(d, t.best, g)
    BY <1>5 DEF Climbed
  <2> HIDE DEF d, f, x, g
  <2>2. CASE k <= t.step
    BY <1>1, <1>3, <2>1, <2>2, GoodTwice DEF d, x, g
  <2>3. CASE k > t.step
    <3>1. ~AsGood(d, t.best, g)
      BY <1>1, <2>1, <2>3
    <3>2. AsGood(d, f, g) => AsGood(d, x, g)
      BY <1>1, <1>3, GoodTwice
    <3>3. AsGood(d, x, g) => AsGood(d, f, g)
      BY <1>3, <3>1
    <3> QED
      BY <1>4, <2>3, <3>2, <3>3 DEF d, x, g
  <2> QED
    BY <1>1, <2>2, <2>3
<1>6. CASE JustIn(t, b)
  <2>1. t.step = 0 /\ AsGood(d, f, t.best)
    BY <1>6 DEF JustIn
  <2> HIDE DEF d, f, x, g
  <2>2. AsGood(d, f, x)
    BY <1>1, <1>3, <2>1 DEF AsGood, Directions
  <2>3. AsGood(d, x, g) <=> AsGood(d, f, g)
    BY <1>1, <1>3, <2>2, GoodTwice
  <2> QED
    BY <1>1, <1>4, <2>1, <2>3 DEF d, x, g
<1> QED
  BY <1>5, <1>6

LEMMA RungTyped == ASSUME NEW t \in Deals, NEW k \in 1..Len(t.targets) PROVE Rung(t, k) \in Int
<1>1. t.fill \in Int /\ Len(t.targets) \in Nat /\ \A i \in 1..Len(t.targets) : t.targets[i] \in Int
  BY DealIs
<1>2. k # 1 => k - 1 \in 1..Len(t.targets)
  BY <1>1
<1> QED
  BY <1>1, <1>2 DEF Rung

LEMMA RaisedIs ==
  ASSUME NEW t \in Deals, NEW n \in Nat, n <= Len(t.targets), NEW high, high = t.step + 1..n, NEW rungs, rungs = {Rung(t, k) : k \in high}
  PROVE  /\ rungs \in SUBSET Int /\ Raised(t, rungs) \in rungs \cup {t.stop}
         /\ \A x \in rungs \cup {t.stop} : x \in Int /\ AsGood(t.dir, Raised(t, rungs), x)
<1>1. t.dir \in Directions /\ t.stop \in Int /\ t.step \in Nat /\ Len(t.targets) \in Nat
  BY DealIs
<1>2. high \subseteq 1..Len(t.targets)
  BY <1>1
<1>3. rungs \in SUBSET Int
  BY <1>2, RungTyped
<1>4. IsFiniteSet(high)
  <2>1. t.step + 1 \in Int /\ n \in Int
    BY <1>1
  <2> QED
    BY <2>1, FS_Interval
<1> DEFINE f == [k \in high |-> Rung(t, k)]
<1>5. f \in Surjection(high, rungs)
  BY DEF Surjection
<1> HIDE DEF f
<1>6. IsFiniteSet(rungs)
  BY <1>4, <1>5, FS_Surjection, Zenon
<1>7. IsFiniteSet(rungs \cup {t.stop})
  BY <1>6, FS_Singleton, FS_Union, Zenon
<1>8. rungs \cup {t.stop} \in SUBSET Int /\ rungs \cup {t.stop} # {}
  BY <1>1, <1>3
<1> QED
  BY <1>1, <1>3, <1>7, <1>8, BestOf DEF Raised

LEMMA LevelTyped ==
  ASSUME NEW d \in Directions, NEW win \in Seq(Int), Len(win) > 0
  PROVE  Best(-d, ToSet(win)) - d * Buf \in Int
<1>1. Len(win) \in Nat /\ DOMAIN win = 1..Len(win)
  BY LenProperties
<1>2. ToSet(win) = {win[i] : i \in 1..Len(win)}
  BY <1>1 DEF ToSet
<1>3. ToSet(win) \in SUBSET Int
  BY <1>1, <1>2, ElementOfSeq
<1>4. win[1] \in ToSet(win)
  BY <1>1, <1>2
<1>5. IsFiniteSet(1..Len(win))
  BY <1>1, FS_Interval
<1> DEFINE f == [i \in 1..Len(win) |-> win[i]]
<1>6. f \in Surjection(1..Len(win), ToSet(win))
  BY <1>2 DEF Surjection
<1> HIDE DEF f
<1>7. IsFiniteSet(ToSet(win))
  BY <1>5, <1>6, FS_Surjection, Zenon
<1>8. Best(-d, ToSet(win)) \in Int
  <2>1. -d \in Directions
    BY DEF Directions
  <2>2. Best(-d, ToSet(win)) \in ToSet(win)
    BY <1>3, <1>4, <1>7, <2>1, BestOf
  <2> QED
    BY <1>3, <2>2
<1> QED
  BY <1>8, TestNumbers DEF Directions

LEMMA RuledRight ==
  ASSUME NEW t \in Deals, t.st = "open", Runs(t), NEW b \in Candles, Climbed(t) \/ JustIn(t, b)
  PROVE  LET u == Ruled(t, b) IN
         /\ u \in Deals /\ u.st = "open" /\ u.variant = t.variant /\ u.dir = t.dir /\ u.held = t.held + 1
         /\ Runs(u) /\ Climbed(u)
<1> DEFINE d     == t.dir
           win   == Append(t.win, Adverse(d, b))
           high  == Heights(t, b)
           step  == t.step + Cardinality(high)
           on    == t.held + 1 >= TrailBars /\ (TrailingRule(t) \/ (UsesLadder(t) /\ step = Len(t.targets)))
           rungs == {Rung(t, k) : k \in high}
           up    == Raised(t, rungs)
           level == Best(-d, ToSet(win)) - d * Buf
           best  == BestAfter(t, b)
           s     == IF on THEN Better(d, up, level) ELSE up
           w     == IF Len(win) < TrailBars THEN win ELSE Tail(win)
           h     == t.held + 1
           tr    == t.trail \/ on
           u     == Ruled(t, b)
<1>1. u = [t EXCEPT !.held = h, !.step = step, !.trail = tr, !.best = best, !.stop = s, !.win = w]
  BY DEF Ruled, Heights, BestAfter
<1>2. PICK n \in Nat : /\ t.step <= n /\ n <= Len(t.targets) /\ high = t.step + 1..n /\ (~UsesLadder(t) => n = t.step)
                       /\ (UsesLadder(t) => \A k \in t.step + 1..Len(t.targets) : k <= n <=> Reached(d, t.targets[k], b))
  BY HeightsAre
<1>3. /\ d \in Directions /\ t.stop \in Int /\ t.step \in Nat /\ t.held \in Nat /\ t.best \in Int /\ t.win \in Seq(Int)
      /\ t.init \in Int /\ t.fill \in Int /\ t.trail \in BOOLEAN /\ Len(t.targets) \in Nat /\ Len(t.win) < 3 /\ Len(t.win) \in Nat
  BY DealIs, LenProperties DEF Runs, TrailBars
<1>4. step = n
  <2>1. Cardinality(high) = n - t.step
    <3>1. t.step + 1 \in Int /\ n \in Int
      BY <1>3
    <3>2. Cardinality(t.step + 1..n) = IF t.step + 1 > n THEN 0 ELSE n - (t.step + 1) + 1
      BY <3>1, FS_Interval
    <3> QED
      BY <1>2, <1>3, <3>2
  <2> HIDE DEF high
  <2> QED
    BY <1>3, <2>1
<1>5. Favour(d, b) \in Int /\ Adverse(d, b) \in Int
  BY CandleIs DEF Favour, Adverse
<1>6. win \in Seq(Int) /\ Len(win) = Len(t.win) + 1
  BY <1>3, <1>5, AppendProperties
<1>7. level \in Int
  <2> HIDE DEF win
  <2> QED
    BY <1>3, <1>6, LevelTyped
<1>8. /\ rungs \in SUBSET Int /\ up \in rungs \cup {t.stop}
      /\ \A x \in rungs \cup {t.stop} : x \in Int /\ AsGood(d, up, x)
  <2> HIDE DEF high
  <2> QED
    BY <1>2, RaisedIs
<1>9. best \in Int
  BY <1>3, <1>5, BetterIs DEF BestAfter
<1>10. w \in Seq(Int) /\ Len(w) < TrailBars
  <2> HIDE DEF win
  <2>1. CASE Len(win) < TrailBars
    BY <1>6, <2>1
  <2>2. CASE ~(Len(win) < TrailBars)
    <3>1. Len(win) = 3 /\ win # <<>>
      BY <1>3, <1>6, <2>2 DEF TrailBars
    <3>2. Tail(win) \in Seq(Int) /\ Len(Tail(win)) = Len(win) - 1
      BY <1>6, <3>1, HeadTailProperties
    <3>3. w = Tail(win) /\ Len(Tail(win)) = 2
      BY <2>2, <3>1, <3>2
    <3> HIDE DEF w
    <3> QED
      BY <3>2, <3>3 DEF TrailBars
  <2> QED
    BY <2>1, <2>2
<1>11. tr \in BOOLEAN /\ h \in Nat /\ step \in Nat
  BY <1>3, <1>4
<1> HIDE DEF win, high, step, level, best, w, up
<1>12. s \in Int /\ AsGood(d, s, up) /\ (~on => s = up) /\ up \in Int
  <2>1. up \in Int
    BY <1>3, <1>8
  <2>2. AsGood(d, up, up)
    BY <1>3, <2>1 DEF AsGood, Directions
  <2> QED
    BY <1>3, <1>7, <2>1, <2>2, BetterIs
<1>13. ~tr => ~t.trail /\ ~on
  OBVIOUS
<1> HIDE DEF on, s, h, tr, u, d
<1>14. /\ u \in Deals /\ u.st = "open" /\ u.variant = t.variant /\ u.dir = d /\ u.trig = t.trig /\ u.init = t.init
       /\ u.targets = t.targets /\ u.fill = t.fill /\ u.qty0 = t.qty0 /\ u.qty = t.qty /\ u.plan = t.plan /\ u.done = t.done
       /\ u.held = h /\ u.step = n /\ u.trail = tr /\ u.best = best /\ u.stop = s /\ u.win = w
  BY <1>1, <1>4, <1>9, <1>10, <1>11, <1>12 DEF Deals, d
<1>15. InOrderOf(u) /\ PlanStands(u)
  BY <1>14 DEF InOrderOf, PlanStands, Runs, d
<1>16. Floor(u) = Floor(t) \cup rungs
  <2>1. Even(u) = Even(t) /\ \A k : Rung(u, k) = Rung(t, k)
    BY <1>14 DEF Even, Rung
  <2>2. 1..n = 1..t.step \cup high
    BY <1>2, <1>3
  <2>3. RungsOf(u) = RungsOf(t) \cup rungs
    BY <1>14, <2>1, <2>2 DEF RungsOf
  <2> QED
    BY <1>14, <2>1, <2>3, Zenon DEF Floor
<1>17. StopStands(u)
  <2>1. StopStands(t)
    BY DEF Runs
  <2>2. ASSUME NEW x \in Floor(u) PROVE AsGood(d, s, x)
    <3>1. x \in Int
      <4>1. \A k \in 1..t.step : Rung(t, k) \in Int
        BY <1>2, <1>3, RungTyped
      <4>2. RungsOf(t) \subseteq Int /\ Even(t) \subseteq Int
        BY <1>3, <4>1 DEF RungsOf, Even
      <4> QED
        BY <1>3, <1>8, <1>16, <2>2, <4>2 DEF Floor
    <3>2. AsGood(d, up, x)
      <4>1. CASE x \in rungs
        BY <1>8, <4>1
      <4>2. CASE x \in Floor(t)
        <5>1. AsGood(d, t.stop, x) /\ AsGood(d, up, t.stop)
          BY <1>8, <2>1, <4>2 DEF StopStands, d
        <5> QED
          BY <1>3, <1>12, <3>1, <5>1, GoodTwice
      <4> QED
        BY <1>16, <2>2, <4>1, <4>2
    <3> QED
      BY <1>3, <1>12, <3>1, <3>2, GoodTwice
  <2>3. ~tr => s \in Floor(u)
    BY <1>8, <1>12, <1>13, <1>16, <2>1 DEF StopStands
  <2> QED
    BY <1>14, <2>2, <2>3 DEF StopStands
<1>18. Climbed(u)
  <2>1. UsesLadder(u) <=> UsesLadder(t)
    BY <1>14 DEF UsesLadder
  <2>2. ASSUME UsesLadder(t), NEW k \in DOMAIN t.targets PROVE k <= n <=> AsGood(t.dir, BestAfter(t, b), t.targets[k])
    BY <1>2, <2>2, ClimbedAfter DEF d
  <2> QED
    BY <1>14, <2>1, <2>2 DEF Climbed, d, best
<1>19. u.step <= Len(u.targets) /\ (~UsesLadder(u) => u.step = 0) /\ Len(u.win) < TrailBars
  BY <1>2, <1>10, <1>14 DEF Runs, UsesLadder
<1>20. Runs(u)
  BY <1>15, <1>17, <1>19 DEF Runs
<1> QED
  BY <1>14, <1>18, <1>20 DEF u, d, h

\* What the close of a bar leaves of a trade.
ClosedRight(c, v, b) ==
  /\ DealOn(v, c.t, b.c) /\ c.note \in Notes /\ NoFlaw(c.note) /\ ~c.note.armed
  /\ c.note.ruled => c.t = NoDeal

LEMMA NoDealOn == ASSUME NEW v, NEW close PROVE DealOn(v, NoDeal, close)
BY NoDealIs DEF DealOn

LEMMA AtCloseRight ==
  ASSUME NEW v \in Rules, NEW b \in Candles, NEW r, MidRight(r, v, b), NEW reversal, NEW found
  PROVE  ClosedRight(AtClose(r, b, reversal, found), v, b)
<1> DEFINE t   == r.t
           u   == Ruled(t, b)
           n   == [r.note EXCEPT !.ruled = TRUE]
           out == Becomes(NoDeal, n)
           c   == AtClose(r, b, reversal, found)
<1>1. /\ t \in Deals /\ r.note \in Notes /\ NoFlaw(r.note) /\ ~r.note.armed /\ ~r.note.ruled
      /\ t.st \in {"none", "pending", "open"}
  BY DEF MidRight, Deals
<1>2. ClosedRight(out, v, b)
  <2>1. n \in Notes /\ NoFlaw(n) /\ ~n.armed
    BY <1>1 DEF Notes, NoFlaw
  <2>2. out.t = NoDeal /\ out.note = n
    BY DEF Becomes
  <2> HIDE DEF n, out
  <2> QED
    BY <2>1, <2>2, NoDealOn DEF ClosedRight
<1>3. CASE t.st = "open"
  <2>1. Runs(t) /\ (Climbed(t) \/ JustIn(t, b)) /\ t.variant = v
    BY <1>3 DEF MidRight
  <2>2. /\ u \in Deals /\ u.st = "open" /\ u.variant = v /\ u.dir = t.dir /\ u.held = t.held + 1
        /\ Runs(u) /\ Climbed(u)
    BY <1>1, <1>3, <2>1, RuledRight
  <2>3. CASE reversal \/ -t.dir \in found \/ u.held >= HoldBars \/ Outside(u, b)
    <3>1. c = out
      BY <1>3, <2>3 DEF AtClose
    <3> QED
      BY <1>2, <3>1
  <2>4. CASE ~(reversal \/ -t.dir \in found \/ u.held >= HoldBars \/ Outside(u, b))
    <3>1. c = [t |-> u, note |-> r.note]
      BY <1>3, <2>4 DEF AtClose, Becomes
    <3> HIDE DEF u, c
    <3>2. u.held \in 1..HoldBars - 1
      <4>1. t.held \in Nat
        BY <1>1, DealIs
      <4> QED
        BY <2>2, <2>4, <4>1, TestNumbers
    <3>3. ~AsGood(u.dir, u.stop, b.c)
      <4>1. u.dir \in Directions /\ u.stop \in Int /\ b.c \in Int
        BY <2>2, DealIs, CandleIs
      <4> QED
        BY <2>4, <4>1 DEF Outside, AsGood, Directions
    <3>4. DealOn(v, u, b.c)
      BY <2>2, <3>2, <3>3 DEF DealOn, Holds
    <3> QED
      BY <1>1, <3>1, <3>4 DEF ClosedRight, c
  <2> QED
    BY <2>3, <2>4
<1>4. CASE t.st = "pending" /\ -t.dir \in found
  <2>1. c = out
    BY <1>4 DEF AtClose
  <2> QED
    BY <1>2, <2>1
<1>5. CASE t.st # "open" /\ ~(t.st = "pending" /\ -t.dir \in found)
  <2>1. c = r
    BY <1>5 DEF AtClose
  <2>2. DealOn(v, t, b.c)
    BY <1>1, <1>5 DEF DealOn, MidRight
  <2> HIDE DEF c
  <2> QED
    BY <1>1, <2>1, <2>2 DEF ClosedRight, c
<1> QED
  BY <1>3, <1>4, <1>5

LEMMA WithEntryRight ==
  ASSUME variant \in Rules, NEW b \in Candles, NEW found \in Evaluated(b), NEW c, ClosedRight(c, variant, b)
  PROVE  LET e == WithEntry(c, b, found) IN DealOn(variant, e.t, b.c) /\ Flaws(e.note) = {}
<1> DEFINE e == WithEntry(c, b, found)
           d == IF 1 \in found THEN 1 ELSE -1
           n == [c.note EXCEPT !.armed = TRUE]
<1>1. c.note \in Notes /\ NoFlaw(c.note) /\ ~c.note.armed /\ DealOn(variant, c.t, b.c)
  BY DEF ClosedRight
<1>2. CASE MayArm(c) /\ found # {}
  <2>1. e = [t |-> Signal(d, b), note |-> n]
    BY <1>2 DEF WithEntry, Becomes
  <2>2. b.h - b.l + 2 * Buf >= MinRisk
    <3>1. b.h - b.l + 2 * Buf \in MinRisk..MaxRisk
      BY <1>2 DEF Evaluated
    <3>2. b.h - b.l + 2 * Buf \in Int
      BY CandleIs, TestNumbers
    <3> QED
      BY <3>1, <3>2, TestNumbers
  <2>3. d \in Directions
    BY DEF Directions
  <2> HIDE DEF d, e
  <2>4. /\ Signal(d, b) \in Deals /\ Signal(d, b).st = "pending" /\ Signal(d, b).variant = variant /\ Waits(Signal(d, b))
    BY <2>2, <2>3, SignalRight
  <2>5. DealOn(variant, Signal(d, b), b.c)
    BY <2>4 DEF DealOn
  <2>6. n.ruled = FALSE /\ ~n.gain /\ (n.touched => n.tps = {})
    BY <1>1, <1>2 DEF Notes, NoFlaw, MayArm
  <2> HIDE DEF n
  <2>7. Flaws(n) = {}
    BY <2>6 DEF Flaws
  <2> QED
    BY <2>1, <2>5, <2>7 DEF e
<1>3. CASE ~(MayArm(c) /\ found # {})
  <2>1. e = c
    BY <1>3 DEF WithEntry
  <2>2. Flaws(c.note) = {}
    BY <1>1 DEF Flaws, NoFlaw
  <2> HIDE DEF e
  <2> QED
    BY <1>1, <2>1, <2>2 DEF e
<1> QED
  BY <1>2, <1>3

----------------------------------------------------------------------------
(* The whole bar, and the theorem.                                          *)

LEMMA BarKeeps == TestInv /\ Bar => TestInv'
<1> SUFFICES ASSUME TestInv, Bar PROVE TestInv'
  OBVIOUS
<1>1. PICK b \in Candles, basis \in (IF deal.st = "none" THEN {0} ELSE Basis),
          reversal \in (IF deal.st = "open" THEN BOOLEAN ELSE {FALSE}) :
        \E found \in Evaluated(b), r \in Inside(deal, b, MarkBar(b, basis)) :
          LET e == WithEntry(AtClose(r, b, reversal, found), b, found) IN
          /\ deal' = e.t
          /\ seen' = [close |-> IF e.t.st = "open" THEN b.c ELSE 0, flaws |-> seen.flaws \cup Flaws(e.note)]
  BY DEF Bar
<1>2. PICK found \in Evaluated(b), r \in Inside(deal, b, MarkBar(b, basis)) :
          LET e == WithEntry(AtClose(r, b, reversal, found), b, found) IN
          /\ deal' = e.t
          /\ seen' = [close |-> IF e.t.st = "open" THEN b.c ELSE 0, flaws |-> seen.flaws \cup Flaws(e.note)]
  BY <1>1
<1> DEFINE c == AtClose(r, b, reversal, found)
           e == WithEntry(c, b, found)
           cl == IF e.t.st = "open" THEN b.c ELSE 0
<1>3. /\ deal' = e.t /\ seen' = [close |-> cl, flaws |-> seen.flaws \cup Flaws(e.note)] /\ variant' = variant
  BY <1>2 DEF Bar
<1> HIDE DEF e, c
<1>4. variant \in Rules
  BY BacktestAssumption DEF Bar, TestInv, Rules
<1>5. MidRight(r, variant, b)
  BY <1>4, InsideRight DEF TestInv
<1>6. ClosedRight(c, variant, b)
  BY <1>4, <1>5, AtCloseRight DEF c
<1>7. DealOn(variant, e.t, b.c) /\ Flaws(e.note) = {}
  BY <1>4, <1>6, WithEntryRight DEF e
<1>8. cl \in Prices \cup {0}
  BY DEF Candles
<1>9. DealOn(variant, e.t, cl)
  BY <1>7 DEF DealOn
<1> HIDE DEF cl
<1>10. seen.flaws = {}
  BY DEF TestInv
<1>11. seen' \in [close : Prices \cup {0}, flaws : {{}}] /\ seen'.close = cl
  BY <1>3, <1>7, <1>8, <1>10
<1>12. DealOn(variant', deal', seen'.close)
  BY <1>3, <1>9, <1>11
<1> QED
  BY <1>3, <1>11, <1>12 DEF TestInv

LEMMA TestFirst == Init => TestInv
<1> SUFFICES ASSUME Init PROVE TestInv
  OBVIOUS
<1>1. PICK on \in BOOLEAN : BacktestInit(on)
  BY DEF Init
<1>2. variant \in Variants \cup {"off"} /\ deal = NoDeal /\ seen = [close |-> 0, flaws |-> {}]
  BY <1>1 DEF BacktestInit
<1>3. DealOn(variant, deal, seen.close)
  BY <1>2, NoDealOn
<1> QED
  BY <1>2, <1>3 DEF TestInv

LEMMA TestStep == TestInv /\ [Bar]_testVars => TestInv'
<1>1. TestInv /\ UNCHANGED testVars => TestInv'
  BY DEF TestInv, testVars
<1> QED
  BY <1>1, BarKeeps

\* The floor of a trade that is open.
LEMMA FloorIs ==
  ASSUME NEW t \in Deals, Runs(t)
  PROVE  Floor(t) \in SUBSET Int /\ Floor(t) # {} /\ IsFiniteSet(Floor(t))
<1>1. /\ t.init \in Int /\ t.fill \in Int /\ t.step \in Nat /\ Len(t.targets) \in Nat /\ t.step <= Len(t.targets)
  BY DealIs DEF Runs
<1>2. RungsOf(t) \in SUBSET Int
  <2>1. 1..t.step \subseteq 1..Len(t.targets)
    BY <1>1
  <2> QED
    BY <2>1, RungTyped DEF RungsOf
<1>3. IsFiniteSet(RungsOf(t))
  <2> DEFINE f == [k \in 1..t.step |-> Rung(t, k)]
  <2>1. f \in Surjection(1..t.step, RungsOf(t))
    BY DEF Surjection, RungsOf
  <2> HIDE DEF f
  <2>2. 1 \in Int /\ t.step \in Int
    BY <1>1
  <2>3. IsFiniteSet(1..t.step)
    BY <2>2, FS_Interval
  <2> QED
    BY <2>1, <2>3, FS_Surjection, Zenon
<1>4. Even(t) \in SUBSET Int /\ IsFiniteSet(Even(t))
  BY <1>1, FS_Singleton, FS_EmptySet DEF Even
<1>5. IsFiniteSet({t.init} \cup RungsOf(t))
  BY <1>3, FS_Singleton, FS_Union, Zenon
<1>6. IsFiniteSet(Floor(t))
  BY <1>4, <1>5, FS_Union, Zenon DEF Floor
<1>7. Floor(t) \in SUBSET Int /\ t.init \in Floor(t)
  BY <1>1, <1>2, <1>4 DEF Floor
<1> QED
  BY <1>6, <1>7

LEMMA TestSettled == TestInv => BacktestRight
<1> SUFFICES ASSUME TestInv PROVE BacktestRight
  OBVIOUS
<1>1. DealOn(variant, deal, seen.close) /\ deal \in Deals /\ deal.st \in {"none", "pending", "open"}
  BY DEF TestInv, DealOn, Deals
<1>2. /\ deal.dir \in Directions /\ deal.trig \in Int /\ deal.init \in Int /\ deal.fill \in Int /\ deal.stop \in Int
      /\ deal.best \in Int /\ Len(deal.targets) \in Nat /\ DOMAIN deal.targets = 1..Len(deal.targets)
      /\ (\A k \in DOMAIN deal.targets : deal.targets[k] \in Int) /\ deal.qty0 \in Nat /\ deal.qty \in Nat
      /\ deal.held \in Nat /\ deal.step \in Nat /\ deal.trail \in BOOLEAN /\ deal.plan \in Plans /\ deal.wait \in 0..ValidBars
  BY <1>1, DealIs
<1>3. deal.st = "open" => Holds(deal, seen.close) /\ Runs(deal) /\ deal.variant = variant
  BY <1>1 DEF DealOn, Holds
<1>4. deal.st # "none" => InOrderOf(deal)
  BY <1>1, <1>3 DEF DealOn, Waits, Runs
<1>5. seen.close \in Int /\ seen.flaws = {} /\ seen \in [close : Prices \cup {0}, flaws : SUBSET {"reentry", "optimism"}]
  BY TestNumbers DEF TestInv, Prices
<1>6. BacktestTypeOK
  <2>1. CASE deal.st = "open"
    <3>1. deal.held \in 1..HoldBars - 1 /\ Len(deal.win) < TrailBars /\ deal.step <= Len(deal.targets) /\ PlanStands(deal)
      BY <1>3, <2>1 DEF Holds, Runs
    <3>2. deal.done \subseteq DOMAIN deal.targets /\ deal.done \subseteq DOMAIN deal.plan
      BY <3>1 DEF PlanStands
    <3>3. Total(deal.plan, deal.done) \in Nat
      BY <1>2, <3>2, TotalIs
    <3>4. deal.qty \in 0..deal.qty0
      BY <1>2, <3>1, <3>3 DEF PlanStands
    <3>5. deal.held \in 0..HoldBars - 1 /\ deal.step \in 0..Len(deal.targets)
      BY <1>2, <3>1
    <3> QED
      BY <1>1, <1>2, <1>5, <3>1, <3>2, <3>4, <3>5 DEF BacktestTypeOK, TestInv, Directions
  <2>2. CASE deal.st # "open"
    <3>1. deal.held = 0 /\ deal.step = 0 /\ deal.win = <<>> /\ deal.done = {} /\ deal.qty = 0
      BY <1>1, <2>2, NoDealIs, Zenon DEF DealOn, Waits
    <3>2. 0 \in 0..HoldBars - 1 /\ 0 \in 0..Len(deal.targets) /\ 0 \in 0..deal.qty0 /\ Len(deal.win) < TrailBars
      BY <1>2, <3>1, TestNumbers DEF TrailBars
    <3> QED
      BY <1>1, <1>2, <1>5, <3>1, <3>2 DEF BacktestTypeOK, TestInv, Directions
  <2> QED
    BY <2>1, <2>2
<1>7. StopReference
  <2> SUFFICES ASSUME deal.st = "open"
               PROVE  /\ UsesLadder(deal) => deal.step = Cardinality({k \in DOMAIN deal.targets :
                                                                 deal.dir * deal.best >= deal.dir * deal.targets[k]})
                      /\ IF deal.trail THEN deal.dir * deal.stop >= deal.dir * Best(deal.dir, Floor(deal))
                         ELSE deal.stop = Best(deal.dir, Floor(deal))
    BY Zenon DEF StopReference, Open, Floor
  <2>1. Runs(deal) /\ Climbed(deal) /\ StopStands(deal) /\ deal.step <= Len(deal.targets)
    BY <1>3 DEF Holds, Runs
  <2>2. ASSUME UsesLadder(deal)
        PROVE  deal.step = Cardinality({k \in DOMAIN deal.targets : deal.dir * deal.best >= deal.dir * deal.targets[k]})
    <3>1. {k \in DOMAIN deal.targets : deal.dir * deal.best >= deal.dir * deal.targets[k]} = 1..deal.step
      BY <1>2, <2>1, <2>2 DEF Climbed, AsGood
    <3>2. Cardinality(1..deal.step) = deal.step
      <4> DEFINE n == deal.step
      <4>1. n \in Int /\ 1 \in Int /\ n \in Nat
        BY <1>2
      <4> HIDE DEF n
      <4>2. Cardinality(1..n) = IF 1 > n THEN 0 ELSE n - 1 + 1
        BY <4>1, FS_Interval
      <4>3. Cardinality(1..n) = n
        BY <4>1, <4>2
      <4> QED
        BY <4>3 DEF n
    <3> QED
      BY <3>1, <3>2
  <2>3. Floor(deal) \in SUBSET Int /\ Floor(deal) # {} /\ IsFiniteSet(Floor(deal))
    BY <1>1, <2>1, FloorIs
  <2>4. \A x \in Floor(deal) : AsGood(deal.dir, deal.stop, x)
    BY <2>1 DEF StopStands
  <2>5. Best(deal.dir, Floor(deal)) \in Floor(deal)
    BY <1>2, <2>3, BestOf
  <2>6. deal.dir * deal.stop >= deal.dir * Best(deal.dir, Floor(deal))
    BY <2>4, <2>5 DEF AsGood
  <2>7. ~deal.trail => deal.stop = Best(deal.dir, Floor(deal))
    BY <1>2, <2>1, <2>3, <2>4, BestIs DEF StopStands
  <2> QED
    BY <2>2, <2>6, <2>7
<1>8. Guarded
  <2>1. deal.st = "open" => ~AsGood(deal.dir, deal.stop, seen.close)
    BY <1>3 DEF Holds
  <2> DEFINE d == deal.dir
             s == deal.stop
             c == seen.close
  <2>2. d \in Directions /\ s \in Int /\ c \in Int
    BY <1>2, <1>5
  <2> HIDE DEF d, s, c
  <2>3. ~AsGood(d, s, c) => d * c > d * s
    <3>1. CASE d = 1
      BY <2>2, <3>1 DEF AsGood
    <3>2. CASE d = -1
      BY <2>2, <3>2 DEF AsGood
    <3> QED
      BY <2>2, <3>1, <3>2 DEF Directions
  <2> QED
    BY <2>1, <2>3 DEF Guarded, Open, d, s, c
<1>9. PlanKept
  BY <1>3, Zenon DEF PlanKept, Open, Runs, PlanStands
<1>10. Pessimistic /\ NoReentry
  BY <1>5 DEF Pessimistic, NoReentry
<1>11. Ordered
  BY <1>4 DEF Ordered, InOrderOf, Beyond
<1> QED
  BY <1>6, <1>7, <1>8, <1>9, <1>10, <1>11 DEF BacktestRight

\* The backtest is right for every choice of bars, zones, quantities and bases,
\* as BacktestRight says: at the end of every bar an open trade has the stop that
\* the rungs reached since the entry set (ladder.py:131-153), behind the close
\* (ladder.py:155-163), and the quantity its plan leaves (ladder.py:56-71,
\* simulator.py:303-318); the prices of a signal are in order after rounding
\* (contract.py:85-98, signals.py:92-101); no bar took the better of what it
\* allowed nor armed after it closed (simulator.py:288-355).
THEOREM BacktestStands == Spec => []BacktestRight
<1>1. Init => TestInv
  BY TestFirst
<1>2. TestInv /\ [Next]_vars => TestInv'
  <2>1. [Next]_vars => [Bar]_testVars
    BY DEF Next, vars
  <2> QED
    BY <2>1, TestStep
<1>3. TestInv => BacktestRight
  BY TestSettled
<1> QED
  BY <1>1, <1>2, <1>3, PTL DEF Spec

=============================================================================
