-------------------------------- MODULE Sizing --------------------------------
(***************************************************************************)
(* The quantity of an entry (risk/sizing.py) with the arithmetic of inverse  *)
(* contracts (risk/inverse_math.py) and the filters of the contract          *)
(* (exchange/contract.py).                                                   *)
(*                                                                         *)
(* A contract is worth Size USD; amounts are BTC, prices USD per BTC, shares *)
(* fractions of whole numbers, and what the code compares as floats is       *)
(* compared by cross multiplication.  0 is no quantity.                      *)
(***************************************************************************)
EXTENDS Integers, FiniteSets, FiniteSetsExt

CONSTANTS
  Size,              \* contract_size, in parts of SlipOf as the prices with slippage
  Risk, RiskOf,      \* risk_fraction
  Fee, FeeOf,        \* taker_fee
  Mmr, MmrOf,        \* mmr
  Slip, SlipOf,      \* entry and stop slippage
  Exposure,          \* max_exposure_multiple
  Ratio,             \* liq_guard_min_ratio
  Equities, Avails,  \* BTC
  Quotes,            \* prices
  Leverages,
  Steps, Mins, Maxs  \* market lot filters

ASSUME SizingAssumption ==
  /\ {Size, Risk, RiskOf, FeeOf, MmrOf, SlipOf, Exposure} \subseteq Nat \ {0} /\ {Fee, Mmr, Slip} \subseteq Nat
  /\ Ratio \in Nat /\ Ratio > 1 /\ Equities \cup Avails \subseteq Nat /\ Quotes \subseteq Nat \ {0} /\ Slip < SlipOf
  /\ \A lev \in Leverages : lev \in Nat \ {0} /\ lev * Mmr < MmrOf
  /\ Steps \cup Mins \cup Maxs \subseteq Nat \ {0}

VARIABLES order, given    \* SizingInput with the lot filter, and the quantity of the answer

sizeVars == <<order, given>>

NoInput == [dir |-> 0, equity |-> 0, avail |-> 0, entry |-> 0, stop |-> 0, lev |-> 1,
            lot |-> [step |-> 1, min |-> 1, max |-> 1]]
Inputs == [dir : {1, -1}, equity : Equities, avail : Avails, entry : Quotes, stop : Quotes, lev : Leverages,
           lot : [step : Steps, min : Mins, max : Maxs]]

\* Direction 2: the sizing is not looked at.
SizingInit(on) == order = [NoInput EXCEPT !.dir = IF on THEN 0 ELSE 2] /\ given = 0

----------------------------------------------------------------------------
(* inverse_math                                                             *)

\* price_with_slippage: a purchase is dearer, a sale is cheaper.
EntryPx(x) == x.entry * (SlipOf + x.dir * Slip)
StopPx(x) == x.stop * (SlipOf - x.dir * Slip)

Gap(a, b) == IF a > b THEN a - b ELSE b - a

\* What one contract loses at the stop with both fees, times the two prices
\* and FeeOf.
LossOne(x) == Size * (Gap(EntryPx(x), StopPx(x)) * FeeOf + Fee * (EntryPx(x) + StopPx(x)))

\* initial_margin_btc and the fee of the entry of one contract, times the
\* price, the leverage and FeeOf.
CostOne(x) == Size * (FeeOf + Fee * x.lev)

\* liquidation_price with the margin of the position, as a fraction: the
\* quantity cancels out.  Den 0: a short trade that cannot be liquidated.
Liquidation(x) ==
  [num |-> (MmrOf + x.dir * Mmr) * EntryPx(x) * x.lev, den |-> MmrOf * (x.lev + x.dir)]

----------------------------------------------------------------------------
(* ContractSpec                                                             *)

\* Mutated form: to the nearest step.
RoundQtyDown_Near(lot, num, den) == lot.step * ((2 * num + den * lot.step) \div (2 * den * lot.step))

RoundQtyDown(lot, num, den) == lot.step * (num \div (den * lot.step))

CheckQty(lot, q) == q >= lot.min /\ q <= lot.max /\ q % lot.step = 0

----------------------------------------------------------------------------
(* size_position                                                            *)

\* Steps 6 and 8: what the budget pays for.
ByBudget(x) ==
  RoundQtyDown(x.lot, x.equity * Risk * EntryPx(x) * StopPx(x) * FeeOf, RiskOf * LossOne(x))

\* Step 9.
Capped(x, q) ==
  LET most == IF q > x.lot.max THEN RoundQtyDown(x.lot, x.lot.max, 1) ELSE q IN
  IF most * Size > x.equity * Exposure * EntryPx(x)
  THEN RoundQtyDown(x.lot, x.equity * Exposure * EntryPx(x), Size) ELSE most

\* Step 10: reduced to what is available, never by more leverage.
Afford(x, q) ==
  IF q * CostOne(x) > x.avail * EntryPx(x) * x.lev * FeeOf
  THEN RoundQtyDown(x.lot, x.avail * EntryPx(x) * x.lev * FeeOf, CostOne(x)) ELSE q

\* Step 13.
FarEnough(x) ==
  LET liq == Liquidation(x) IN
  liq.den = 0 \/ Gap(liq.num, EntryPx(x) * liq.den) >= Ratio * Gap(EntryPx(x), StopPx(x)) * liq.den

Sized(x) ==
  LET capped == Capped(x, ByBudget(x))
      q == Afford(x, capped)
  IN IF /\ x.equity > 0 /\ x.dir * (x.entry - x.stop) > 0
        /\ ByBudget(x) >= x.lot.min /\ CheckQty(x.lot, capped) /\ q >= x.lot.min /\ FarEnough(x)
     THEN q ELSE 0

SizePosition ==
  /\ order = NoInput
  /\ order' \in Inputs /\ given' = Sized(order')

----------------------------------------------------------------------------
(* Properties.                                                              *)

\* What the limits of the account and of the contract allow.
Allowed(x) ==
  {q \in 1..x.lot.max :
     /\ q % x.lot.step = 0 /\ q >= x.lot.min
     /\ q * LossOne(x) * RiskOf <= x.equity * Risk * EntryPx(x) * StopPx(x) * FeeOf
     /\ q * Size <= x.equity * Exposure * EntryPx(x)
     /\ q * CostOne(x) <= x.avail * EntryPx(x) * x.lev * FeeOf}

\* The answer is the greatest quantity within all limits at once, and it is
\* refused only if there is none: the cuts one after the other, each rounded,
\* lose nothing (sizing.py:107-148).
GreatestAllowed ==
  LET x == order IN
  x # NoInput =>
    IF x.dir * (x.entry - x.stop) > 0 /\ FarEnough(x) /\ Allowed(x) # {}
    THEN given = Max(Allowed(x)) ELSE given = 0
=============================================================================
