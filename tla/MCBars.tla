-------------------------------- MODULE MCBars --------------------------------
(***************************************************************************)
(* What goes by the bars, in both bots: the loop that handles a bar once it  *)
(* has closed, the paper trades of the Upbit strategy, the backtest of the   *)
(* COIN-M strategy with its exit rules, the quantity of an entry, the limit  *)
(* of the daily loss, and the prices recorded to learn from.  They share no  *)
(* state: a behaviour is one of one of them, the others stay off.            *)
(***************************************************************************)
EXTENDS BarLoop, PaperBook, Backtest, Sizing, DayLimit, Recorder

CONSTANT Parts     \* the parts looked at

\* Shapes of bars, around the levels of the signals below: a quiet one with a
\* signal of each pattern, the breakout, a rise with another signal, a fall
\* that opens below the stop, and a reversal.
Shape(o, h, l, c, sigs, reversal) == [o |-> o, h |-> h, l |-> l, c |-> c, sigs |-> sigs, reversal |-> reversal]
FiveShapes ==
  {Shape(4, 4, 3, 4, {"pin", "box"}, FALSE), Shape(4, 6, 4, 6, {}, FALSE), Shape(6, 9, 5, 8, {}, FALSE),
   Shape(2, 3, 1, 1, {}, FALSE), Shape(7, 8, 5, 5, {}, TRUE)}
TwoSignals ==
  [pin |-> [entry |-> 5, stop |-> 3, targets |-> <<7>>, soft |-> 0],
   box |-> [entry |-> 6, stop |-> 2, targets |-> <<8, 9>>, soft |-> 5]]

\* Prices recorded: one that stays, one that moves.
ThreeTicks == <<0, 0, 1>>

Init == \E part \in Parts :
  /\ BarInit(part = "loop")
  /\ PaperInit(part = "paper")
  /\ BacktestInit(part = "backtest")
  /\ SizingInit(part = "sizing")
  /\ DayLimitInit(part = "limit")
  /\ RecorderInit(part = "recorder")

Next ==
  \/ BarNext      /\ UNCHANGED <<bookVars, testVars, sizeVars, limitVars, recVars>>
  \/ PaperNext    /\ UNCHANGED <<barVars, testVars, sizeVars, limitVars, recVars>>
  \/ Bar          /\ UNCHANGED <<barVars, bookVars, sizeVars, limitVars, recVars>>
  \/ SizePosition /\ UNCHANGED <<barVars, bookVars, testVars, limitVars, recVars>>
  \/ DayLimitNext /\ UNCHANGED <<barVars, bookVars, testVars, sizeVars, recVars>>
  \/ RecorderNext /\ UNCHANGED <<barVars, bookVars, testVars, sizeVars, limitVars>>

vars == <<barVars, bookVars, testVars, sizeVars, limitVars, recVars>>

Spec == /\ Init /\ [][Next]_vars
        /\ BarFairness

=============================================================================
