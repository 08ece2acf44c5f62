----------------------------- MODULE FillLedger -----------------------------
(***************************************************************************)
(* What the fills table of the bot promises, without messages, queries or  *)
(* crashes: only what the exchange executed is written down, each fill     *)
(* once, and the trade it was booked to does not change.                   *)
(***************************************************************************)
EXTENDS Naturals

CONSTANTS
  Fills,      \* every fill there may be
  Owners,     \* whom a fill may be booked to
  Missing     \* the value of a fill that is not booked

VARIABLES
  executed,   \* exchange: the fills that happened
  book        \* disk: the owner each fill is booked to, or Missing

TypeOK == executed \subseteq Fills /\ book \in [Fills -> Owners \cup {Missing}]

Init == executed = {} /\ book = [f \in Fills |-> Missing]

Execute(f) == f \notin executed /\ executed' = executed \cup {f} /\ UNCHANGED book

\* One message books one fill, one query may book several.
Record ==
  /\ book' \in [Fills -> Owners \cup {Missing}]
  /\ \A f \in Fills : book'[f] # book[f] => f \in executed /\ book[f] = Missing
  /\ UNCHANGED executed

Next == Record \/ \E f \in Fills : Execute(f)

Spec == Init /\ [][Next]_<<executed, book>>
=============================================================================
