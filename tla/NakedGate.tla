------------------------------ MODULE NakedGate ------------------------------
(***************************************************************************)
(* The evidence for real orders of the naked strategy (validate_naked.py    *)
(* and its callers in main.py): the trades of the backtest and their        *)
(* description in two files, the report that evaluates them with the paper  *)
(* trades, the daily validation and the hourly maintenance that apply the   *)
(* gate, restarts with other settings, and a backtest made by hand.         *)
(*                                                                         *)
(* A setting is a pair: what is traded (exit mode and live patterns) and    *)
(* the rules of the backtest (backtest_params).  Trades are known by their  *)
(* rules and by what would pass on them.                                    *)
(***************************************************************************)
EXTENDS Naturals

CONSTANTS
  Lives,       \* exit modes with live patterns
  Rules,       \* values of backtest_params
  RefreshDays,     \* NAKED_BACKTEST_REFRESH_DAYS
  MaxAge,      \* NAKED_VALIDATION_MAX_AGE_DAYS
  MaxRestarts, \* starts and kills of the process
  MaxMisses,   \* backtests and evaluations that fail, backtests without a trade
  MaxHand      \* backtests by hand

ASSUME NakedGateAssumption ==
  /\ Lives # {} /\ Rules # {}
  /\ {RefreshDays, MaxAge} \subseteq Nat \ {0} /\ {MaxRestarts, MaxMisses, MaxHand} \subseteq Nat

VARIABLES
  set,         \* the settings of the process
  trades,      \* backtest_trades.jsonl
  meta,        \* its .meta.json, with its age in days
  report,      \* naked_validation.json, with its age in days
  paper,       \* the paper trades pass
  open,        \* NakedStrategy.live_enabled
  prev,        \* _naked_gate_ok
  notice,      \* the last notice of the gate in this process
  val,         \* _naked_validate_task
  today,       \* what was done since midnight: maintained, validated
  whole,       \* history: the validation of this process used trades of its rules
  restarts, misses, hands

fileVars == <<trades, meta, report>>
gateVars == <<open, prev, notice>>
gateBounds == <<restarts, misses, hands>>
nakedVars == <<set, fileVars, paper, gateVars, val, today, whole, gateBounds>>

NoTrades == [is |-> FALSE, rules |-> CHOOSE r \in Rules : TRUE, good |-> {}]
NoMeta   == [is |-> FALSE, rules |-> CHOOSE r \in Rules : TRUE, age |-> 0]
NoReport == [is |-> FALSE, live |-> CHOOSE l \in Lives : TRUE, rules |-> CHOOSE r \in Rules : TRUE,
             passed |-> FALSE, age |-> 0]

GateTypeOK ==
  /\ set \in [live : Lives, rules : Rules]
  /\ trades \in [is : BOOLEAN, rules : Rules, good : SUBSET Lives]
  /\ meta \in [is : BOOLEAN, rules : Rules, age : 0..RefreshDays + 1]
  /\ report \in [is : BOOLEAN, live : Lives, rules : Rules, passed : BOOLEAN, age : 0..MaxAge + 1]
  /\ {paper, open} \subseteq BOOLEAN /\ prev \in {"none", "ok", "no"} /\ notice \in {"none", "on", "off"}
  /\ val \in {"off", "stale", "backtest", "meta", "evaluate", "apply", "done"}
  /\ today \in [maint : BOOLEAN, valid : BOOLEAN] /\ whole \in {"no", "yes", "torn"}
  /\ restarts \in 0..MaxRestarts /\ misses \in 0..MaxMisses /\ hands \in 0..MaxHand

GateInit(on) ==
  /\ set \in [live : (IF on THEN Lives ELSE {NoReport.live}), rules : {NoTrades.rules}]
  /\ trades = NoTrades /\ meta = NoMeta /\ report = NoReport
  /\ paper \in (IF on THEN BOOLEAN ELSE {FALSE})
  /\ open = FALSE /\ prev = "none" /\ notice = "none"
  /\ val = (IF on THEN "apply" ELSE "off") /\ today = [maint |-> TRUE, valid |-> TRUE]
  /\ whole = "no" /\ restarts = 0 /\ misses = 0 /\ hands = 0

----------------------------------------------------------------------------
(* _apply_naked_gate and check_gate, for a configuration with real orders.  *)

\* Mutated form: the age of the report is not looked at.
Valid_Old == report.is /\ report.live = set.live /\ report.passed

Valid == report.is /\ report.age <= MaxAge /\ report.live = set.live /\ report.passed

\* The opening is told after a closed gate only, the closing also at the start.
Speaks(ok) == IF ok THEN prev = "no" ELSE prev # "no"

Applied ==
  /\ open' = Valid /\ prev' = (IF Valid THEN "ok" ELSE "no")
  /\ notice' = IF Speaks(Valid) THEN IF Valid THEN "on" ELSE "off" ELSE notice

----------------------------------------------------------------------------
(* auto_validate                                                            *)

GateMiss == misses < MaxMisses /\ misses' = misses + 1

\* A file without a trade, as made by hand, is no reason for a new backtest.
Stale == ~meta.is \/ meta.age > RefreshDays \/ meta.rules # set.rules

Judge ==
  /\ val = "stale" /\ val' = (IF Stale THEN "backtest" ELSE "evaluate")
  /\ UNCHANGED <<set, fileVars, paper, gateVars, today, whole, gateBounds>>

\* save_backtest replaces the trades, then writes their description.
Backtested ==
  /\ val = "backtest" /\ val' = "meta"
  /\ \E good \in SUBSET Lives : trades' = [is |-> TRUE, rules |-> set.rules, good |-> good]
  /\ UNCHANGED <<set, meta, report, paper, gateVars, today, whole, gateBounds>>

Described ==
  /\ val = "meta" /\ val' = "evaluate"
  /\ meta' = [is |-> TRUE, rules |-> set.rules, age |-> 0] /\ whole' = "no"
  /\ UNCHANGED <<set, trades, report, paper, gateVars, today, gateBounds>>

\* Not a trade: the old trades are evaluated again, under a new date.
NoneFound ==
  /\ val = "backtest" /\ GateMiss /\ val' = "evaluate"
  /\ whole' = "torn"
  /\ UNCHANGED <<set, fileVars, paper, gateVars, today, restarts, hands>>

\* reevaluate: a new report, or none without trades.
Evaluated ==
  /\ val = "evaluate" /\ val' = "apply"
  /\ IF trades.is
     THEN /\ report' = [is |-> TRUE, live |-> set.live, rules |-> trades.rules,
                        passed |-> paper /\ set.live \in trades.good, age |-> 0]
          /\ whole' = IF whole = "torn" THEN "torn" ELSE "yes"
     ELSE UNCHANGED <<report, whole>>
  /\ UNCHANGED <<set, trades, meta, paper, gateVars, today, gateBounds>>

\* Mutated form: after an exception the gate is left as it is.
AfterFailure_Done == "done"

\* _naked_validate applies the gate also after an exception.
AfterFailure == "apply"

ValidateFails ==
  /\ val \in {"backtest", "evaluate"} /\ GateMiss /\ val' = AfterFailure
  /\ UNCHANGED <<set, fileVars, paper, gateVars, today, whole, restarts, hands>>

ValidateEnds ==
  /\ val = "apply" /\ val' = "done" /\ Applied
  /\ UNCHANGED <<set, fileVars, paper, today, whole, gateBounds>>

----------------------------------------------------------------------------
(* Days, jobs and processes.                                                *)

Aged(f, top) == [f EXCEPT !.age = IF f.is /\ @ <= top THEN @ + 1 ELSE @]

\* The scheduler is by a day late at most; what runs takes less than a day.
DayPasses ==
  /\ val = "done" /\ today.valid
  /\ meta' = Aged(meta, RefreshDays) /\ report' = Aged(report, MaxAge)
  /\ today' = [maint |-> FALSE, valid |-> FALSE]
  /\ paper' \in BOOLEAN
  /\ UNCHANGED <<set, trades, gateVars, val, whole, gateBounds>>

ValidateDue ==
  /\ val = "done" /\ ~today.valid /\ val' = "stale" /\ today' = [today EXCEPT !.valid = TRUE]
  /\ whole' = (IF whole = "torn" THEN "torn" ELSE "no")
  /\ UNCHANGED <<set, fileVars, paper, gateVars, gateBounds>>

\* _maintain_and_train: an exception leaves the gate out.
Maintained ==
  /\ val # "off" /\ ~today.maint /\ today' = [today EXCEPT !.maint = TRUE]
  /\ Applied \/ UNCHANGED gateVars
  /\ UNCHANGED <<set, fileVars, paper, val, whole, gateBounds>>

\* The process is killed and started, perhaps with other settings: start()
\* applies the gate before the clock runs, then validates.  Trades without
\* their description, which the kill may have cut short, are torn.
Reborn ==
  /\ val # "off" /\ restarts < MaxRestarts /\ restarts' = restarts + 1
  /\ set' \in [live : Lives, rules : Rules]
  /\ val' = "stale"
  /\ open' = (report.is /\ report.age <= MaxAge /\ report.live = set'.live /\ report.passed)
  /\ prev' = (IF open' THEN "ok" ELSE "no") /\ notice' = (IF open' THEN "none" ELSE "off")
  /\ meta' \in {meta} \cup (IF val = "meta" THEN {NoMeta} ELSE {})
  /\ whole' = IF val = "meta" \/ whole = "torn" THEN "torn" ELSE "no"
  /\ UNCHANGED <<trades, report, paper, today, misses, hands>>

\* python validate_naked.py backtest, beside the bot, with its settings: what it
\* finds is saved even if it is nothing.
ByHand ==
  /\ val \in {"done", "backtest"} /\ hands < MaxHand /\ hands' = hands + 1
  /\ meta' = [is |-> TRUE, rules |-> set.rules, age |-> 0]
  /\ \/ trades' = [NoTrades EXCEPT !.rules = set.rules] /\ UNCHANGED report
     \/ \E good \in SUBSET Lives :
          /\ trades' = [is |-> TRUE, rules |-> set.rules, good |-> good]
          /\ report' = [is |-> TRUE, live |-> set.live, rules |-> set.rules,
                        passed |-> paper /\ set.live \in good, age |-> 0]
  /\ whole' = "no"
  /\ UNCHANGED <<set, paper, gateVars, val, today, restarts, misses>>

----------------------------------------------------------------------------
GateNext ==
  \/ Judge \/ Backtested \/ Described \/ NoneFound \/ Evaluated
  \/ ValidateFails \/ ValidateEnds \/ ValidateDue
  \/ DayPasses \/ Maintained \/ Reborn \/ ByHand

----------------------------------------------------------------------------
(* Properties.                                                              *)

\* Real orders rest on a report of what is traded now, that has passed when the
\* gate was last applied, and that is at most a day beyond its term (main.py:521-553).
GateSound ==
  open => /\ report.is /\ report.live = set.live
          /\ report.passed \/ val = "apply" \/ hands > 0
          /\ report.age <= MaxAge \/ val # "done" \/ ~today.valid

\* What the operator was told last is how the gate stands (main.py:535-553).
GateTold == (notice = "on" => open) /\ (notice = "off" => ~open)

\* The report of a validation that went through judges trades of the rules in
\* force, unless a kill tore the two files or no trade was found.
EvidenceRight == val = "done" /\ whole = "yes" => report.rules = set.rules

\* What opens the way to real orders is evidence for what is traded, and the
\* operator knows how the gate stands.
EvidenceHolds == GateTypeOK /\ GateSound /\ GateTold /\ EvidenceRight

\* What check_gate says (validate_naked.py:363-368): after a change of the
\* settings no report of another strategy opens the gate.
GateMatchesSettings == open => report.rules = set.rules
=============================================================================
