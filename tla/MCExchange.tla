----------------------------- MODULE MCExchange -----------------------------
(***************************************************************************)
(* The three sides of the exchange of the COIN-M bot, which share no state:  *)
(* the user stream, the requests, and the simulated exchange of the paper   *)
(* mode.  A behaviour is one of one of them; the other two stay off.        *)
(***************************************************************************)
EXTENDS UserStream, RestCall, PaperExchange

CONSTANT Sides     \* the sides looked at

Init == \E side \in Sides :
  /\ StreamInit(side = "stream")
  /\ RestInit(side = "rest")
  /\ PaperInit(side = "paper")

Next ==
  \/ StreamNext /\ UNCHANGED <<restVars, paperVars>>
  \/ RestNext   /\ UNCHANGED <<streamVars, paperVars>>
  \/ PaperNext  /\ UNCHANGED <<streamVars, restVars>>

vars == <<streamVars, restVars, paperVars>>

Spec == /\ Init /\ [][Next]_vars
        /\ StreamFairness
=============================================================================
