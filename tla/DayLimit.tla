------------------------------- MODULE DayLimit -------------------------------
(***************************************************************************)
(* The limit of the daily loss (risk/limits.py): the equity the day began    *)
(* with, kept in the database and set by whoever asks first that day, the    *)
(* snapshot of the account (runtime/bot.py) or the check before an entry     *)
(* (execution/entry_manager.py), both with an equity read some time before.  *)
(***************************************************************************)
EXTENDS Integers

CONSTANTS
  Worths,   \* what the account may be worth; 0: the asset is missing from the answer
  LossPct,     \* max_daily_loss_pct
  MaxDays, MaxRestarts

ASSUME DayLimitAssumption ==
  /\ Worths \subseteq Nat /\ LossPct \in 1..100 /\ MaxDays \in Nat \ {0} /\ MaxRestarts \in Nat

VARIABLES
  today,       \* utc_day
  worth,       \* equity at the exchange
  base,        \* the row of the database
  haltedDay,   \* _halted_day
  readBy,      \* equities read and not yet used, of the snapshot and of the entry
  first,       \* history: the first equity of today that was used
  events,      \* history: rows daily_loss_limit of today
  entered,     \* history: what was decided last: the day's base, the equity, the answer
  reborn       \* restarts of today

limitVars == <<today, worth, base, haltedDay, readBy, first, events, entered, reborn>>

Unread == -1
Readers == {"snapshot", "entry"}
Amounts == Worths \cup {0}

DayLimitTypeOK ==
  /\ today \in 0..MaxDays /\ worth \in Amounts /\ base \in [day : 0..MaxDays, start : Amounts]
  /\ haltedDay \in 0..MaxDays /\ readBy \in [Readers -> Amounts \cup {Unread}]
  /\ first \in Amounts /\ events \in 0..MaxRestarts + 1 /\ reborn \in 0..MaxRestarts
  /\ entered \in [base : Amounts, equity : Amounts, ok : BOOLEAN]

\* Day 0: the bot is not looked at.
DayLimitInit(on) ==
  /\ today = (IF on THEN 1 ELSE 0) /\ worth \in (IF on THEN Worths ELSE {0})
  /\ base = [day |-> 0, start |-> 0] /\ haltedDay = 0
  /\ readBy = [r \in Readers |-> Unread] /\ first = 0 /\ events = 0
  /\ entered = [base |-> 0, equity |-> 0, ok |-> FALSE] /\ reborn = 0

----------------------------------------------------------------------------
Moves ==
  /\ today > 0 /\ worth' \in Worths
  /\ UNCHANGED <<today, base, haltedDay, readBy, first, events, entered, reborn>>

NextDay ==
  /\ today \in 1..MaxDays - 1 /\ today' = today + 1
  /\ first' = 0 /\ events' = 0 /\ reborn' = 0 /\ entered' = [base |-> 0, equity |-> 0, ok |-> FALSE]
  /\ UNCHANGED <<worth, base, haltedDay, readBy>>

\* get_account
Reads(r) ==
  /\ today > 0 /\ readBy[r] = Unread /\ readBy' = [readBy EXCEPT ![r] = worth]
  /\ UNCHANGED <<today, worth, base, haltedDay, first, events, entered, reborn>>

\* Mutated form: the first equity of the day stays, be it none.
DayState_Zero(e) == IF base.day # today THEN [day |-> today, start |-> e] ELSE base

\* day_state: a new day, or one that began with nothing.
DayState(e) == IF base.day # today \/ base.start = 0 THEN [day |-> today, start |-> e] ELSE base

Used(r) ==
  /\ readBy[r] # Unread /\ readBy' = [readBy EXCEPT ![r] = Unread]
  /\ base' = DayState(readBy[r]) /\ first' = IF first = 0 THEN readBy[r] ELSE first

\* Bot.snapshot
Snapshot ==
  /\ Used("snapshot")
  /\ UNCHANGED <<today, worth, haltedDay, events, entered, reborn>>

\* daily_pnl: no loss is told from an equity of none.
TooMuch(start, e) == start > 0 /\ (e - start) * 100 <= -LossPct * start

\* The first refusal of a day is told, by each process.
Alarmed ==
  IF haltedDay = today THEN UNCHANGED <<events, haltedDay>> ELSE events' = events + 1 /\ haltedDay' = today

\* check_new_entry
CheckEntry ==
  LET e == readBy["entry"] IN
  /\ Used("entry")
  /\ entered' = [base |-> first', equity |-> e, ok |-> ~TooMuch(base'.start, e)]
  /\ IF TooMuch(base'.start, e) THEN Alarmed ELSE UNCHANGED <<events, haltedDay>>
  /\ UNCHANGED <<today, worth, reborn>>

Restarted ==
  /\ today > 0 /\ reborn < MaxRestarts /\ reborn' = reborn + 1
  /\ haltedDay' = 0 /\ readBy' = [r \in Readers |-> Unread]
  /\ UNCHANGED <<today, worth, base, first, events, entered>>

DayLimitNext ==
  \/ Moves \/ NextDay \/ Snapshot \/ CheckEntry \/ Restarted
  \/ \E r \in Readers : Reads(r)

----------------------------------------------------------------------------
(* Properties.                                                              *)

\* The base of the day is the first equity used that day, or of a day before
\* with none used yet; a refusal is told once by each process.  The inductive
\* invariant behind LimitHolds.
DayBegun ==
  /\ \/ base.day = today /\ base.start = first
     \/ base.day < today /\ first = 0
  /\ haltedDay <= today
  /\ events <= reborn + (IF haltedDay = today THEN 1 ELSE 0)

\* An entry is let through only above the limit, measured from the first equity
\* anybody used that day, whatever was read before midnight, came without the
\* asset or was restarted in between (limits.py:34-62).
LossRefused == entered.ok => ~TooMuch(entered.base, entered.equity)

\* The limit is told once a day by each process (limits.py:53-60).
ToldOnce == events <= 1 + reborn

\* The limit of the day holds over restarts and late answers, and is told once.
LimitHolds == DayLimitTypeOK /\ LossRefused /\ ToldOnce

(* What the comments say and the code does not do.                          *)

\* limits.py:5-6: once the limit was met, no entry that day.
HaltLasts == events > 0 => ~entered.ok
=============================================================================
