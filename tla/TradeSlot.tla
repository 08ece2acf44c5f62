----------------------------- MODULE TradeSlot -----------------------------
(***************************************************************************)
(* What the trade records of one symbol promise, without orders, crashes   *)
(* or recovery: trades come one after the other, each is bought at most    *)
(* once, and a trade that is done stays done.                              *)
(***************************************************************************)
EXTENDS Integers

CONSTANT Trades          \* trade numbers, in order of creation

VARIABLE phase           \* phase[t] \in Phase

Phase == {"none", "waiting", "holding", "done"}

TypeOK == phase \in [Trades -> Phase]

Open(t) == phase[t] \in {"waiting", "holding"}

Init == phase = [t \in Trades |-> "none"]

\* A trade starts only when every earlier one is done.
Start(t) ==
  /\ phase[t] = "none"
  /\ \A u \in Trades : phase[u] = IF u < t THEN "done" ELSE "none"
  /\ phase' = [phase EXCEPT ![t] = "waiting"]

\* Its position is confirmed: from here on the bot knows what it holds.
Hold(t) ==
  /\ phase[t] = "waiting"
  /\ phase' = [phase EXCEPT ![t] = "holding"]

Finish(t) ==
  /\ Open(t)
  /\ phase' = [phase EXCEPT ![t] = "done"]

Next == \E t \in Trades : Start(t) \/ Hold(t) \/ Finish(t)

Spec == Init /\ [][Next]_phase

OneOpenTrade == \A t, u \in Trades : Open(t) /\ Open(u) => t = u
=============================================================================
