------------------------------- MODULE Backtest -------------------------------
(***************************************************************************)
(* One rule set of the COIN-M backtest (backtest/simulator.py) with the      *)
(* signals it trades (strategy/signals.py), the rounding of their prices     *)
(* (exchange/contract.py) and the exit rules (strategy/ladder.py), which     *)
(* the live engine shares: a step is a bar, with what happens inside it and  *)
(* at its close.                                                            *)
(*                                                                         *)
(* A price counts units, Unit of them to a tick of the contract; a bar has   *)
(* prices on ticks.  A direction is 1 or -1.  0.05 ATR is a constant; what   *)
(* the patterns find, the quantity that is sized and the mark price are any. *)
(* Money is left out.                                                       *)
(***************************************************************************)
EXTENDS Integers, Sequences, FiniteSets, SequencesExt

CONSTANTS
  Unit,        \* units of a tick
  Ticks,       \* prices of the bars, in ticks
  Height,      \* ticks from the low of a bar to its high
  Buf,         \* 0.05 ATR
  MinReward,   \* min_rr: the first target is so many risks away
  MinRisk,     \* the narrowest risk that is traded, in units
  MaxRisk,     \* the widest
  Variants,    \* EXIT_VARIANTS
  Zones,       \* zones of the higher time frame, in units
  Quantities,  \* what the sizing may answer; 0: refused
  Basis,       \* mark price less last price, in units
  ValidBars, HoldBars

\* A signal risks a share of the price, which is more than two ticks, and zones
\* are half an ATR apart, which is more than one.
ASSUME BacktestAssumption ==
  /\ {Unit, Ticks, ValidBars, HoldBars, MinReward} \subseteq Nat \ {0}
  /\ {Height, Buf, MinRisk, MaxRisk} \subseteq Nat /\ Quantities \subseteq Nat
  /\ Variants \subseteq {"ladder", "ladder_ratchet", "zone", "split", "three_bar"}
  /\ Basis \subseteq Int
  /\ Zones \subseteq Nat /\ IsFiniteSet(Zones)
  /\ MinRisk >= 2 * Unit /\ \A y, z \in Zones : y < z => y + Unit <= z

VARIABLES
  variant,     \* of this run
  deal,        \* the trade of Simulator.run
  seen         \* history: the last close, if a trade is open; what went wrong

testVars == <<variant, deal, seen>>

TrailBars == 3
Prices == {Unit * p : p \in 1..Ticks}
Candles == {b \in [o : Prices, h : Prices, l : Prices, c : Prices] :
  b.l <= b.o /\ b.l <= b.c /\ b.o <= b.h /\ b.c <= b.h /\ b.h - b.l <= Unit * Height}

NoDeal == [st |-> "none", variant |-> "", dir |-> 1, trig |-> 0, init |-> 0, targets |-> <<>>, wait |-> 0, fill |-> 0, qty0 |-> 0,
           qty |-> 0, plan |-> <<>>, stop |-> 0, held |-> 0, step |-> 0, trail |-> FALSE, done |-> {}, win |-> <<>>, best |-> 0]
Nothing == [tps |-> {}, gain |-> FALSE, touched |-> FALSE, ruled |-> FALSE, armed |-> FALSE]

BacktestTypeOK ==
  /\ variant \in Variants \cup {"off"}
  /\ deal.st \in {"none", "pending", "open"} /\ deal.dir \in {1, -1} /\ deal.qty \in 0..deal.qty0
  /\ deal.wait \in 0..ValidBars /\ deal.held \in 0..HoldBars - 1 /\ Len(deal.win) < TrailBars
  /\ deal.step \in 0..Len(deal.targets) /\ deal.done \subseteq DOMAIN deal.targets
  /\ seen \in [close : Prices \cup {0}, flaws : SUBSET {"reentry", "optimism"}]

BacktestInit(on) ==
  /\ variant \in (IF on THEN Variants ELSE {"off"})
  /\ deal = NoDeal /\ seen = [close |-> 0, flaws |-> {}]

----------------------------------------------------------------------------
(* Prices.                                                                  *)

\* round_price, down or up.
RoundPrice(p, up) == Unit * ((IF up THEN p + Unit - 1 ELSE p) \div Unit)

\* A stop goes away from the entry, a trigger beyond the breakout.
RoundAway(p, d, isStop) == RoundPrice(p, (d > 0) # isStop)

\* A target goes towards the entry.
RoundTarget(p, d) == RoundPrice(p, d < 0)

Better(d, a, b) == IF d * a >= d * b THEN a ELSE b
Best(d, prices) == CHOOSE p \in prices : \A q \in prices : d * p >= d * q
Favour(d, b) == IF d > 0 THEN b.h ELSE b.l
Adverse(d, b) == IF d > 0 THEN b.l ELSE b.h

\* A trigger price is reached from below by a long trade, from above by a short one.
Reached(d, level, b) == d * Favour(d, b) >= d * level
Lost(d, level, b) == d * Adverse(d, b) <= d * level

\* The bar of the mark price.
MarkBar(b, basis) == [x \in DOMAIN b |-> b[x] + basis]

----------------------------------------------------------------------------
(* Signals: the breakout of the signal bar, its other end, the zones beyond. *)

Ahead(d, entry, risk) == {z \in Zones : d * (z - entry) >= MinReward * risk}

\* The nearest three of the zones, the nearest first.
Farther(d, zones) == zones \ {Best(-d, zones)}
Nearest(d, zones) ==
  [k \in 1..(IF Cardinality(zones) < 3 THEN Cardinality(zones) ELSE 3) |->
     Best(-d, CASE k = 1 -> zones [] k = 2 -> Farther(d, zones) [] k = 3 -> Farther(d, Farther(d, zones)))]

Signal(d, b) ==
  LET entry == Favour(d, b) + d * Buf
      stop  == Adverse(d, b) - d * Buf
      tg    == Nearest(d, Ahead(d, entry, d * (entry - stop)))
  IN [NoDeal EXCEPT !.st = "pending", !.variant = variant, !.dir = d, !.wait = ValidBars,
        !.trig = RoundAway(entry, d, FALSE), !.init = RoundAway(stop, d, TRUE), !.stop = RoundAway(stop, d, TRUE),
        !.targets = [k \in DOMAIN tg |-> RoundTarget(tg[k], d)]]

\* evaluate: at most one signal a side, by a bar with a range, none with too
\* narrow or too wide a risk.
Evaluated(b) == IF b.h > b.l /\ b.h - b.l + 2 * Buf \in MinRisk..MaxRisk THEN SUBSET {1, -1} ELSE {{}}

----------------------------------------------------------------------------
(* Partial exits.                                                           *)

\* tp_schedule: a level and its share, in quarters.
Schedule(v, n) ==
  CASE v = "ladder"          -> [k \in 1..(IF n < 3 THEN n ELSE 3) |-> 1]
    [] v = "zone" /\ n >= 1  -> <<4>>
    [] v = "split" /\ n >= 1 -> [k \in 1..(IF n < 2 THEN 1 ELSE 2) |-> 2]
    [] OTHER                 -> <<>>

\* The sum over some of the three levels.
Total(f, levels) == LET at(k) == IF k \in levels THEN f[k] ELSE 0 IN at(1) + at(2) + at(3)

\* Mutated form: every level is rounded for itself, and up.
Upto_Each(q0, sch, k) == Total([j \in DOMAIN sch |-> (q0 * sch[j] + 3) \div 4], 1..k)

\* What is closed up to a level, rounded down.
Upto(q0, sch, k) == (q0 * Total(sch, 1..k)) \div 4

\* tp_quantities: a level of none is left out.
Plan(v, q0, n) ==
  LET sch    == Schedule(v, n)
      cut(k) == Upto(q0, sch, k) - Upto(q0, sch, k - 1)
  IN [k \in {j \in DOMAIN sch : cut(j) > 0} |-> cut(k)]

----------------------------------------------------------------------------
(* PositionLogic                                                            *)

UsesLadder(t) == t.variant \in {"ladder", "ladder_ratchet"}

TrailingRule(t) ==
  \/ t.variant = "three_bar"
  \/ t.variant \in {"zone", "split"} /\ t.targets = <<>>
  \/ t.variant = "split" /\ 1 \in t.done /\ Len(t.targets) < 2

\* on_tp_filled: after the first target of "split" the stop goes to the entry.
OnTpFilled(t, levels) ==
  [t EXCEPT !.done = @ \cup levels, !.qty = @ - Total(t.plan, levels),
            !.stop = IF t.variant = "split" /\ 1 \in levels THEN Better(t.dir, @, t.fill) ELSE @]

\* A step up the ladder leaves the stop one rung below.
Rung(t, k) == IF k = 1 THEN t.fill ELSE t.targets[k - 1]

Raised(t, rungs) == Best(t.dir, rungs \cup {t.stop})

\* on_bar_close, up to the reasons for an exit.
Ruled(t, b) ==
  LET d    == t.dir
      win  == Append(t.win, Adverse(d, b))
      high == IF UsesLadder(t) THEN {k \in t.step + 1..Len(t.targets) : Reached(d, t.targets[k], b)} ELSE {}
      step == t.step + Cardinality(high)
      on   == t.held + 1 >= TrailBars /\ (TrailingRule(t) \/ (UsesLadder(t) /\ step = Len(t.targets)))
      stop == Raised(t, {Rung(t, k) : k \in high})
      level == Best(-d, ToSet(win)) - d * Buf
  IN [t EXCEPT !.held = @ + 1, !.step = step, !.trail = @ \/ on, !.best = IF UsesLadder(t) THEN Better(d, @, Favour(d, b)) ELSE @,
        !.stop = IF on THEN Better(d, stop, level) ELSE stop,
        !.win = IF Len(win) < TrailBars THEN win ELSE Tail(win)]

Outside(t, b) == t.dir * b.c <= t.dir * t.stop

----------------------------------------------------------------------------
(* The inside of a bar: what it makes of the trade, and what was seen.      *)

Becomes(t, note) == [t |-> t, note |-> note]
Vanished == Becomes(NoDeal, Nothing)

\* A stop filled at px.
StoppedAt(t, px) ==
  Becomes(NoDeal, [Nothing EXCEPT !.touched = TRUE, !.gain = t.dir * px > t.dir * t.stop])

\* The breakout, at the trigger or at the open beyond it; a stop in the same
\* bar is taken for one after the entry.
Entered(t, b, m, q) ==
  LET px == Better(t.dir, t.trig, b.o) IN
  IF Lost(t.dir, t.init, m) THEN StoppedAt(t, t.init)
  ELSE Becomes([t EXCEPT !.st = "open", !.fill = px, !.qty0 = q, !.qty = q, !.best = px,
                         !.plan = Plan(t.variant, q, Len(t.targets)), !.wait = 0], Nothing)

Expired(t) == t.wait = 0

Waiting(t, b, m) ==
  IF Expired(t) THEN {Vanished}
  ELSE IF Reached(t.dir, t.trig, b)
  THEN {IF q = 0 THEN Vanished ELSE Entered(t, b, m, q) : q \in Quantities}
  ELSE IF Lost(t.dir, t.init, b) THEN {Vanished}
  ELSE {Becomes([t EXCEPT !.wait = @ - 1], Nothing)}

\* The stop goes by the mark price, its fill by the last price.
StopPrice(t, b, m) == IF t.dir * m.o <= t.dir * t.stop THEN Better(-t.dir, b.o, t.stop) ELSE t.stop

\* The targets, the nearest first, up to the first that is not reached.
Taken(t, b) ==
  LET left == DOMAIN t.plan \ t.done
      due  == {lv \in left : \A k \in left : k <= lv => Reached(t.dir, t.targets[k], b)}
      u    == OnTpFilled(t, due)
  IN Becomes(IF u.qty = 0 THEN NoDeal ELSE u, [Nothing EXCEPT !.tps = due])

\* The stop before the targets.
Struck(t, b, m) == IF Lost(t.dir, t.stop, m) THEN StoppedAt(t, StopPrice(t, b, m)) ELSE Taken(t, b)

Inside(t, b, m) ==
  CASE t.st = "pending" -> Waiting(t, b, m)
    [] t.st = "open"    -> {Struck(t, b, m)}
    [] OTHER            -> {Becomes(t, Nothing)}

----------------------------------------------------------------------------
(* The close of a bar.                                                      *)

\* An open trade: the rules; an exit by them is not followed by an entry.
\* A pending one: cancelled by a signal of the other side.
AtClose(r, b, reversal, found) ==
  LET t == r.t
      u == Ruled(t, b)
      out == Becomes(NoDeal, [r.note EXCEPT !.ruled = TRUE])
  IN CASE t.st = "open" ->
            IF reversal \/ -t.dir \in found \/ u.held >= HoldBars \/ Outside(u, b) THEN out ELSE Becomes(u, r.note)
       [] t.st = "pending" /\ -t.dir \in found -> out
       [] OTHER -> r

MayArm(r) == r.t.st = "none" /\ ~r.note.ruled

\* The long signal first.
WithEntry(r, b, found) ==
  IF MayArm(r) /\ found # {}
  THEN Becomes(Signal(IF 1 \in found THEN 1 ELSE -1, b), [r.note EXCEPT !.armed = TRUE]) ELSE r

\* What no bar should do.
Flaws(n) ==
  (IF n.ruled /\ n.armed THEN {"reentry"} ELSE {}) \cup
  (IF n.gain \/ (n.touched /\ n.tps # {}) THEN {"optimism"} ELSE {})

Bar ==
  /\ variant # "off"
  /\ \E b \in Candles, basis \in (IF deal.st = "none" THEN {0} ELSE Basis),
        reversal \in (IF deal.st = "open" THEN BOOLEAN ELSE {FALSE}) :
     \E found \in Evaluated(b), r \in Inside(deal, b, MarkBar(b, basis)) :
       LET e == WithEntry(AtClose(r, b, reversal, found), b, found) IN
       /\ deal' = e.t
       /\ seen' = [close |-> IF e.t.st = "open" THEN b.c ELSE 0, flaws |-> seen.flaws \cup Flaws(e.note)]
  /\ UNCHANGED variant

----------------------------------------------------------------------------
(* Properties.                                                              *)

Open == deal.st = "open"
RungsOf(t) == {Rung(t, k) : k \in 1..t.step}
Even(t) == IF t.variant = "split" /\ 1 \in t.done THEN {t.fill} ELSE {}

\* The ladder after any path of bars is what the best price since the entry
\* says: a rung for each target reached, the stop the best of the first one,
\* of the rungs and of the entry, and beyond that only by trailing
\* (ladder.py:131-153).
StopReference ==
  Open =>
    LET floor == Best(deal.dir, {deal.init} \cup RungsOf(deal) \cup Even(deal)) IN
    /\ UsesLadder(deal) /\ deal.held > 0 =>
         deal.step = Cardinality({k \in DOMAIN deal.targets : deal.dir * deal.best >= deal.dir * deal.targets[k]})
    /\ IF deal.trail THEN deal.dir * deal.stop >= deal.dir * floor ELSE deal.stop = floor

\* No bar ends with an open trade whose stop is already passed by the close: the
\* stop that is to be placed for the next bar is a stop (ladder.py:155-163).
Guarded == Open => deal.dir * seen.close > deal.dir * deal.stop

\* What is left of a trade is what the plan leaves: the levels are closed in
\* their order, each once, never more than the trade has, and the ladder keeps
\* a part that no target closes (ladder.py:56-71, simulator.py:303-318).
PlanKept ==
  Open =>
    LET all == Total(deal.plan, DOMAIN deal.plan) IN
    /\ deal.qty = deal.qty0 - Total(deal.plan, deal.done)
    /\ all <= deal.qty0 /\ deal.qty > 0 /\ (variant = "ladder" => all < deal.qty0)
    /\ \A i, j \in DOMAIN deal.plan : i < j /\ j \in deal.done => i \in deal.done

\* The backtest takes the worse of what a bar allows: no target in a bar that
\* reached the stop, and a stop never better than its price (simulator.py:288-302).
Pessimistic == "optimism" \notin seen.flaws

\* A bar whose rules closed or cancelled a trade arms none (simulator.py:320-355).
NoReentry == "reentry" \notin seen.flaws

\* A trigger is beyond its stop and before its targets whatever the rounding
\* does, and the targets are in order (contract.py:85-98, signals.py:92-101).
Ordered ==
  deal.st # "none" =>
    /\ deal.dir * (deal.trig - deal.init) > 0
    /\ \A k \in DOMAIN deal.targets :
         /\ deal.dir * (deal.targets[k] - deal.trig) > 0
         /\ k > 1 => deal.dir * (deal.targets[k] - deal.targets[k - 1]) > 0

\* A simulated trade follows its plan and its ladder, takes of every bar the worse
\* that it allows, and never turns on the bar that ended it.
BacktestRight ==
  /\ BacktestTypeOK /\ StopReference /\ Guarded /\ PlanKept
  /\ Pessimistic /\ NoReentry /\ Ordered
=============================================================================
