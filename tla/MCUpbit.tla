------------------------------- MODULE MCUpbit -------------------------------
(***************************************************************************)
(* The parts of the Upbit bot around its trades, which share no state that  *)
(* the models look at: the ticks, the evidence for real orders, the base    *)
(* line of the circuit breaker, the candles and the universe of alts, the   *)
(* market stream, and the watchdog.  A behaviour is one of one of them; the *)
(* others stay off.                                                         *)
(***************************************************************************)
EXTENDS Pipeline, NakedGate, Baseline, CandleFeed, TickerFeed, Watchdog

CONSTANT Sides     \* the sides looked at

Init == \E side \in Sides :
  /\ PipeInit(side = "pipe")
  /\ GateInit(side = "gate")
  /\ BaselineInit(side = "baseline")
  /\ FeedInit(side)
  /\ TickerInit(side = "tickers")
  /\ WatchdogInit(side = "watchdog")

Next ==
  \/ PipeNext     /\ UNCHANGED <<nakedVars, baseVars, feedVars, tickerVars, dogVars>>
  \/ GateNext     /\ UNCHANGED <<pipeVars, baseVars, feedVars, tickerVars, dogVars>>
  \/ BaselineNext /\ UNCHANGED <<pipeVars, nakedVars, feedVars, tickerVars, dogVars>>
  \/ FeedNext     /\ UNCHANGED <<pipeVars, nakedVars, baseVars, tickerVars, dogVars>>
  \/ TickerNext   /\ UNCHANGED <<pipeVars, nakedVars, baseVars, feedVars, dogVars>>
  \/ WatchdogNext /\ UNCHANGED <<pipeVars, nakedVars, baseVars, feedVars, tickerVars>>

vars == <<pipeVars, nakedVars, baseVars, feedVars, tickerVars, dogVars>>

Spec == /\ Init /\ [][Next]_vars
        /\ PipeFairness /\ TickerFairness

=============================================================================
