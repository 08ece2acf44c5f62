---------------------------- MODULE MCSpotTrades ----------------------------
(* SpotTrades on small instances: the bounds are in the configurations. *)
EXTENDS SpotTrades

CONSTANTS A, B

\* The account holds no coin but what the trades buy.
NoCoins == [t \in Tickers |-> 0]

\* It holds one part of A from elsewhere: balances from before a buy show it, and
\* a sale of two parts is cut to it.
OnePart == [t \in Tickers |-> IF t = A THEN 1 ELSE 0]

\* Trades of two markets; two of one market and one of another.
Two == <<A, B>>
OneAndAnother == <<A, A, B>>

\* The invariants say nothing once an order has gone wrong.
\* Three things may go wrong about the first trade, two once there is a second.
\* One thing once a sale was cut to an old balance.
\* The trade of the other market is there for the driving task to have two
\* trades in hand: the first came to nothing and nothing goes wrong.
Bounded ==
  LET wrong == trouble + crashes + turns IN
  /\ clean
  /\ nt = 2 => wrong <= 2
  /\ cut # {} => wrong <= 1
  /\ nt = 3 => tr[1].st = "cancelled" /\ bought[1] = 0 /\ wrong = 0
=============================================================================
