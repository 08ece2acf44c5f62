---------------------------- MODULE TradeStates ----------------------------
(***************************************************************************)
(* The life-cycle states of one COIN-M trade and the transition rules of   *)
(* execution/state_machine.py, as pure operators.  A trade is persisted    *)
(* with its state, so the rules also say what a restart may find.          *)
(***************************************************************************)
EXTENDS Integers

Holding      == {"PROTECTED", "TP1", "TP2", "TP3", "TRAILING"}
WithPosition == {"ENTRY_FILLED", "PROTECTING", "CLOSING"} \union Holding
TradeState   == {"IDLE", "SIGNAL_DETECTED", "ENTRY_PENDING", "RECOVERY_REQUIRED",
                 "ERROR", "CLOSED"} \union WithPosition

(***************************************************************************)
(* ALLOWED, grouped by what the rows of the table share: every state of a  *)
(* live position may close, fail or ask for recovery, and RECOVERY_REQUIRED*)
(* may go back to any of them.                                             *)
(***************************************************************************)
Allowed ==
  LET Bail == {"CLOSING", "RECOVERY_REQUIRED", "ERROR"} IN
  [ IDLE              |-> {"SIGNAL_DETECTED", "RECOVERY_REQUIRED"},
    SIGNAL_DETECTED   |-> {"ENTRY_PENDING", "CLOSED", "ERROR"},
    ENTRY_PENDING     |-> {"ENTRY_FILLED", "CLOSED", "RECOVERY_REQUIRED", "ERROR"},
    ENTRY_FILLED      |-> {"PROTECTING"} \union Bail,
    PROTECTING        |-> {"PROTECTED"} \union Bail,
    PROTECTED         |-> {"TP1", "TP2", "TP3", "TRAILING"} \union Bail,
    TP1               |-> {"TP2", "TP3", "TRAILING"} \union Bail,
    TP2               |-> {"TP3", "TRAILING"} \union Bail,
    TP3               |-> {"TRAILING"} \union Bail,
    TRAILING          |-> Bail,
    CLOSING           |-> {"CLOSED", "RECOVERY_REQUIRED", "ERROR"},
    RECOVERY_REQUIRED |-> WithPosition \union {"CLOSED", "ERROR"},
    ERROR             |-> {"RECOVERY_REQUIRED", "CLOSING", "CLOSED"},
    CLOSED            |-> {} ]

Progress == [PROTECTED |-> 0, TP1 |-> 1, TP2 |-> 2, TP3 |-> 3, TRAILING |-> 4]

\* is_forward: between two holding states the label only advances.
IsForward(from, to) ==
  (from \in Holding /\ to \in Holding) => Progress[to] > Progress[from]

\* ExecutionContext.transition: a move to the same state is skipped, any
\* other move must be in the table and must not go backwards.
CanMove(from, to) ==
  \/ from = to
  \/ to \in Allowed[from] /\ IsForward(from, to)

\* RecoveryManager._force_state: a move that is not in the table is tried
\* through RECOVERY_REQUIRED.
CanForce(from, to) ==
  \/ CanMove(from, to)
  \/ to \notin Allowed[from] /\ CanMove(from, "RECOVERY_REQUIRED")
                             /\ CanMove("RECOVERY_REQUIRED", to)

\* progress_state: the holding label of a ladder step, the TP levels filled
\* (0, 1, 2) and the trailing flag.
ProgressState(step, filled, trailing) ==
  LET reached == {step} \union {k + 1 : k \in filled}
      top     == CHOOSE n \in reached : \A m \in reached : m <= n
  IN  IF trailing THEN "TRAILING"
      ELSE IF top <= 0 THEN "PROTECTED"
      ELSE IF top = 1 THEN "TP1" ELSE IF top = 2 THEN "TP2" ELSE "TP3"
=============================================================================
