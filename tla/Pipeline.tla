------------------------------ MODULE Pipeline ------------------------------
(***************************************************************************)
(* The ticks of the Upbit bot (main.py, Clock of execution_engine.py): the  *)
(* clock that calls process_tick and naked_tick together and drops a call   *)
(* after 30 s, the cool-down of the circuit breaker, the books of the day,  *)
(* the LLM decision and the orders of the naked strategy that go on beside  *)
(* the clock, and the end of the process.                                   *)
(*                                                                         *)
(* Time is counted in units, as what is left of an interval.  What the      *)
(* breaker finds, what the account is worth and what the models answer is   *)
(* any value.                                                               *)
(***************************************************************************)
EXTENDS Naturals, FiniteSets

CONSTANTS
  Cooling,     \* length of the cool-down (60 s)
  Patience,    \* iterator_timeout of the clock (30 s)
  EquityEvery, \* interval of the books (30 s)
  LlmEvery,    \* LLM_INTERVAL_SEC
  MaxPend,     \* live trades that wait for their breakout
  MaxTrips,    \* ticks on which the breaker finds a danger
  MaxGaps,     \* ticks without market data
  MaxHalts,    \* times the loss limit is met
  MaxSlips,    \* calls that outlast the patience of their caller; waits for the driving task given up
  MaxSpent     \* all of these together

ASSUME PipelineAssumption ==
  /\ {Cooling, Patience, EquityEvery, LlmEvery} \subseteq Nat \ {0}
  /\ {MaxPend, MaxTrips, MaxGaps, MaxHalts, MaxSlips, MaxSpent} \subseteq Nat

Jobs == {"equity", "llm"}
Every(j) == IF j = "equity" THEN EquityEvery ELSE LlmEvery

VARIABLES
  mode,        \* Config.STRATEGY_MODE
  life,        \* where MainPipeline.start is
  pt, ptAge,   \* the call of process_tick and its age
  nt, ntAge,   \* the call of naked_tick and its age
  sched,       \* Scheduler: the deadlines that are set, what is left of them
  cool,        \* what is left of _cb_active_until
  books,       \* RiskManager: halted, no value at the start of the day; history: the operator knows
  told,        \* _halt_notified
  llm,         \* _llm_task
  pend,        \* pending live trades
  drive,       \* the task of NakedStrategy._drive_all
  since,       \* history: time since the last notice of the breaker, the last decision;
               \* buys under way at that notice
  leak,        \* history: buys sent in this cool-down
  spent        \* what was used of the bounds

tickVars == <<pt, ptAge, nt, ntAge>>
taskVars == <<llm, pend, drive>>
pipeVars == <<mode, life, tickVars, sched, cool, books, told, taskVars, since, leak, spent>>

NoDrive == [on |-> FALSE, may |-> FALSE, left |-> 0, sent |-> FALSE]
Limit == [trips |-> MaxTrips, gaps |-> MaxGaps, halts |-> MaxHalts, slips |-> MaxSlips, cuts |-> MaxSlips]

PipeTypeOK ==
  /\ mode \in {"llm", "naked"} /\ life \in {"off", "up", "drain", "stop", "last", "down"}
  /\ pt \in {"start", "cancel", "notice", "books", "halt", "tasks", "done"} /\ ptAge \in 0..Patience
  /\ nt \in {"start", "drive", "done"} /\ ntAge \in 0..Patience
  /\ \E set \in SUBSET Jobs : sched \in [set -> 0..EquityEvery + LlmEvery]
  /\ \A j \in DOMAIN sched : sched[j] <= Every(j)
  /\ cool \in 0..Cooling /\ told \in BOOLEAN /\ books \in [halted : BOOLEAN, fresh : BOOLEAN, heard : BOOLEAN]
  /\ llm \in {"none", "asking", "sent"} /\ pend \in 0..MaxPend
  /\ drive \in [on : BOOLEAN, may : BOOLEAN, left : 0..MaxPend, sent : BOOLEAN]
  /\ since \in [notice : 0..Cooling, llm : 0..LlmEvery, owed : 0..MaxPend + 1] /\ leak \in 0..2 * MaxPend + 2
  /\ \A b \in DOMAIN Limit : spent[b] \in 0..Limit[b]

\* reconcile_on_startup has read the books of the day; the clock begins.
PipeInit(on) ==
  /\ mode \in (IF on THEN {"llm", "naked"} ELSE {"llm"})
  /\ life = (IF on THEN "up" ELSE "off")
  /\ pt = "start" /\ ptAge = 0 /\ nt = "start" /\ ntAge = 0
  /\ sched = [j \in {} |-> 0] /\ cool = 0 /\ told = FALSE
  /\ books \in [halted : (IF on THEN BOOLEAN ELSE {FALSE}), fresh : {FALSE}, heard : {FALSE}]
  /\ llm = "none" /\ pend = 0 /\ drive = NoDrive
  /\ since = [notice |-> Cooling, llm |-> LlmEvery, owed |-> 0] /\ leak = 0
  /\ spent = [b \in DOMAIN Limit |-> 0]

Spend(b) ==
  /\ spent[b] < Limit[b] /\ spent.trips + spent.gaps + spent.halts + spent.slips + spent.cuts < MaxSpent
  /\ spent' = [spent EXCEPT ![b] = @ + 1]
Running == life \in {"up", "drain", "stop"}

----------------------------------------------------------------------------
(* Time and the clock.                                                      *)

Down(n) == IF n = 0 THEN 0 ELSE n - 1
Atmost(n, top) == IF n > top THEN top ELSE n

\* A call that does not wait runs on at once; one that waits is dropped when
\* its patience is over.
Waits(at, age) == at = "done" \/ (at \in {"cancel", "notice", "halt", "drive"} /\ age < Patience)

Older(at, age) == IF at = "done" THEN 0 ELSE age + 1

Pass ==
  /\ life \notin {"off", "down"} /\ Waits(pt, ptAge) /\ Waits(nt, ntAge)
  /\ ptAge' = Older(pt, ptAge) /\ ntAge' = Older(nt, ntAge)
  /\ sched' = [j \in DOMAIN sched |-> Down(sched[j])]
  /\ cool' = Down(cool) /\ leak' = (IF cool <= 1 THEN 0 ELSE leak)
  /\ since' = [notice |-> Atmost(since.notice + 1, Cooling), llm |-> Atmost(since.llm + 1, LlmEvery),
               owed |-> IF cool <= 1 THEN 0 ELSE since.owed]
  /\ UNCHANGED <<mode, life, pt, nt, books, told, taskVars, spent>>

\* The next tick begins when both calls of the last one have ended.
NextTick ==
  /\ life \in {"up", "drain"} /\ pt = "done" /\ nt = "done"
  /\ pt' = "start" /\ nt' = "start" /\ ptAge' = 0 /\ ntAge' = 0
  /\ UNCHANGED <<mode, life, sched, cool, books, told, taskVars, since, leak, spent>>

\* wait_for of _safe_call: what the call has still to do is not done.
DropProcess ==
  /\ Running /\ pt \in {"cancel", "notice", "halt"} /\ ptAge = Patience
  /\ pt' = "done" /\ ptAge' = 0 /\ Spend("slips")
  /\ UNCHANGED <<mode, life, nt, ntAge, sched, cool, books, told, taskVars, since, leak>>

\* The driving task is shielded: it goes on.
DropNaked ==
  /\ Running /\ nt = "drive" /\ ntAge = Patience
  /\ nt' = "done" /\ ntAge' = 0 /\ Spend("slips")
  /\ UNCHANGED <<mode, life, pt, ptAge, sched, cool, books, told, taskVars, since, leak>>

----------------------------------------------------------------------------
(* Scheduler.due                                                            *)

\* However late the call, the next deadline is an interval away.
Rearmed(j) == Every(j)

Due(j) == j \in DOMAIN sched /\ sched[j] = 0

\* The first call only sets the deadline.
Asked(j) ==
  sched' = IF Due(j) \/ j \notin DOMAIN sched
           THEN [k \in DOMAIN sched \cup {j} |-> IF k = j THEN Rearmed(j) ELSE sched[k]]
           ELSE sched

----------------------------------------------------------------------------
(* process_tick                                                             *)

\* No market data, or no features yet: not even a heartbeat.
Blind ==
  /\ Running /\ pt = "start" /\ pt' = "done" /\ Spend("gaps")
  /\ UNCHANGED <<mode, life, ptAge, nt, ntAge, sched, cool, books, told, taskVars, since, leak>>

\* Mutated form: the cool-down ends nothing.
Onwards_Always == "books"

\* In the cool-down the rest of the tick is left out.
Onwards == IF cool > 0 THEN "done" ELSE "books"

\* The breaker fires: a new cool-down begins with cancel_all; a running one is
\* extended without a word.
Alarm ==
  IF cool > 0 THEN pt' = "done" /\ cool' = Cooling ELSE pt' = "cancel" /\ UNCHANGED cool

Watch ==
  /\ Running /\ pt = "start"
  /\ \/ Alarm /\ Spend("trips")
     \/ pt' = Onwards /\ UNCHANGED <<cool, spent>>
  /\ UNCHANGED <<mode, life, ptAge, nt, ntAge, sched, books, told, taskVars, since, leak>>

CancelledAll ==
  /\ Running /\ pt = "cancel" /\ pt' = "notice"
  /\ UNCHANGED <<mode, life, ptAge, nt, ntAge, sched, cool, books, told, taskVars, since, leak, spent>>

UnderWay ==
  IF mode = "llm" THEN IF llm = "asking" THEN 1 ELSE 0
  ELSE IF ~(drive.on /\ drive.may) THEN 0 ELSE IF drive.sent THEN drive.left - 1 ELSE drive.left

\* Only after the notice the cool-down begins.
Told ==
  /\ Running /\ pt = "notice" /\ pt' = "done" /\ ptAge' = 0
  /\ cool' = Cooling /\ since' = [since EXCEPT !.notice = 0, !.owed = UnderWay]
  /\ UNCHANGED <<mode, life, nt, ntAge, sched, books, told, taskVars, leak, spent>>

\* roll_day_if_needed at midnight, from the books or from the check of a buy.
Midnight ==
  /\ Running /\ ~books.fresh /\ books.halted
  /\ books' = [halted |-> FALSE, fresh |-> TRUE, heard |-> FALSE]
  /\ UNCHANGED <<mode, life, tickVars, sched, cool, told, taskVars, since, leak, spent>>

\* Mutated form: that a halt was told is never forgotten.
StillTold_Ever(before) == before

\* Without a halt the next one is to be told again.
StillTold(before) == FALSE

\* update_equity: the first value of the day halts nothing.
Books ==
  /\ Running /\ pt = "books" /\ Asked("equity")
  /\ \/ ~Due("equity") /\ pt' = "tasks" /\ UNCHANGED <<books, told, spent>>
     \/ /\ Due("equity")
        /\ \/ books' = [books EXCEPT !.fresh = FALSE] /\ UNCHANGED spent
           \/ /\ ~books.fresh /\ ~books.halted /\ Spend("halts")
              /\ books' = [books EXCEPT !.halted = TRUE]
        /\ pt' = (IF books'.halted /\ ~told THEN "halt" ELSE "tasks")
        /\ told' = (books'.halted \/ StillTold(told))
  /\ UNCHANGED <<mode, life, ptAge, nt, ntAge, cool, taskVars, since, leak>>

\* notify_error is called; whether the message gets through is not asked
\* (notifier.py:43-51 only logs that it did not).
HaltTold ==
  /\ Running /\ pt = "halt" /\ pt' = "tasks" /\ books' = [books EXCEPT !.heard = @ \/ books.halted]
  /\ UNCHANGED <<mode, life, ptAge, nt, ntAge, sched, cool, told, taskVars, since, leak, spent>>

\* A decision that is still in progress is not joined by another one.
Tasks ==
  /\ Running /\ pt = "tasks" /\ pt' = "done" /\ ptAge' = 0 /\ Asked("llm")
  /\ \/ /\ Due("llm") /\ llm = "none"
        /\ llm' = "asking" /\ since' = [since EXCEPT !.llm = 0]
     \/ ~(Due("llm") /\ llm = "none") /\ UNCHANGED <<llm, since>>
  /\ UNCHANGED <<mode, life, nt, ntAge, cool, books, told, pend, drive, leak, spent>>

----------------------------------------------------------------------------
(* _run_llm_decision and _decide_one: an order in the mode llm only.  The    *)
(* risk manager refuses a buy in a halt; the cool-down is not asked.        *)

Buys == leak' = IF cool > 0 THEN leak + 1 ELSE leak

LlmBuys ==
  /\ Running /\ llm = "asking" /\ mode = "llm" /\ ~books.halted
  /\ llm' = "sent" /\ Buys
  /\ UNCHANGED <<mode, life, tickVars, sched, cool, books, told, pend, drive, since, spent>>

\* HOLD, no answer, a filter or the risk manager; or the order is through.
LlmEnds ==
  /\ life \notin {"off", "down"} /\ llm # "none" /\ llm' = "none"
  /\ UNCHANGED <<mode, life, tickVars, sched, cool, books, told, pend, drive, since, leak, spent>>

----------------------------------------------------------------------------
(* naked_tick, the scan and the driving task.                               *)

\* _naked_gate: what the scan may arm.
Gate == cool = 0 /\ ~books.halted

Scanned ==
  /\ life \in {"up", "drain"} /\ mode = "naked" /\ Gate /\ pend < MaxPend
  /\ pend' = pend + 1
  /\ UNCHANGED <<mode, life, tickVars, sched, cool, books, told, llm, drive, since, leak, spent>>

CanEnter == cool = 0

\* on_tick drives nothing once drain was called.
NotOver == life = "up"

Drives(can) ==
  /\ drive' = [on |-> TRUE, may |-> can, left |-> pend, sent |-> FALSE]
  /\ nt' = "drive"

\* One driving task at a time, none once the bot stops.
NakedTick ==
  /\ Running /\ nt = "start"
  /\ \/ NotOver /\ ~drive.on /\ mode = "naked" /\ pend > 0 /\ Drives(CanEnter)
     \/ (~NotOver \/ drive.on \/ mode # "naked" \/ pend = 0) /\ nt' = "done" /\ UNCHANGED drive
  /\ UNCHANGED <<mode, life, pt, ptAge, ntAge, sched, cool, books, told, llm, pend, since, leak, spent>>

\* The price of the next trade is beyond its entry: the buy is accepted.
DriveBuys ==
  /\ Running /\ drive.on /\ drive.may /\ drive.left > 0 /\ ~drive.sent /\ ~books.halted
  /\ drive' = [drive EXCEPT !.sent = TRUE] /\ Buys
  /\ UNCHANGED <<mode, life, tickVars, sched, cool, books, told, llm, pend, since, spent>>

\* mark_filled or cancel; or the trade waits on.
DriveNext ==
  /\ drive.on /\ drive.left > 0 /\ life # "down"
  /\ drive' = [drive EXCEPT !.sent = FALSE, !.left = @ - 1]
  /\ \/ pend' = pend - 1
     \/ ~drive.sent /\ UNCHANGED pend
  /\ UNCHANGED <<mode, life, tickVars, sched, cool, books, told, llm, since, leak, spent>>

DriveEnds ==
  /\ drive.on /\ drive.left = 0 /\ life # "down"
  /\ drive' = NoDrive
  /\ IF nt = "drive" THEN nt' = "done" /\ ntAge' = 0 ELSE UNCHANGED <<nt, ntAge>>
  /\ UNCHANGED <<mode, life, pt, ptAge, sched, cool, books, told, llm, pend, since, leak, spent>>

----------------------------------------------------------------------------
(* The end: drain, the clock, the tasks, the state.                         *)

StopAsked ==
  /\ life = "up" /\ life' = "drain"
  /\ UNCHANGED <<mode, tickVars, sched, cool, books, told, taskVars, since, leak, spent>>

\* Mutated form: no wait for the driving task.
Drained_Not == TRUE

\* drain: the driving task has ended.
Drained == ~drive.on

EngineStops ==
  /\ life = "drain" /\ life' = "stop"
  /\ IF Drained THEN UNCHANGED spent ELSE Spend("cuts")
  /\ UNCHANGED <<mode, tickVars, sched, cool, books, told, taskVars, since, leak>>

\* The tick in progress ends, or is cut off; the tasks are cancelled.
ClockStops ==
  /\ life = "stop" /\ life' = "last"
  /\ IF pt = "done" /\ nt = "done" THEN UNCHANGED spent ELSE Spend("slips")
  /\ pt' = "done" /\ nt' = "done" /\ ptAge' = 0 /\ ntAge' = 0 /\ llm' = "none"
  /\ UNCHANGED <<mode, sched, cool, books, told, pend, drive, since, leak>>

\* drain again, then the live trades are saved for the last time.
Goodbye ==
  /\ life = "last" /\ life' = "down"
  /\ IF Drained THEN UNCHANGED spent ELSE Spend("cuts")
  /\ UNCHANGED <<mode, tickVars, sched, cool, books, told, taskVars, since, leak>>

----------------------------------------------------------------------------
Steps ==
  \/ NextTick \/ DropProcess \/ DropNaked
  \/ Watch \/ CancelledAll \/ Told \/ Books \/ HaltTold \/ Tasks
  \/ NakedTick

Driving == DriveNext \/ DriveEnds
Ending == EngineStops \/ ClockStops \/ Goodbye

PipeNext ==
  \/ Pass \/ Steps \/ Blind \/ Midnight
  \/ LlmBuys \/ LlmEnds \/ Scanned \/ DriveBuys \/ Driving
  \/ StopAsked \/ Ending

\* The clock sleeps between its ticks: time passes; what runs goes on, and the requests of a task are answered.
PipeFairness ==
  /\ SF_pipeVars(Pass) /\ WF_pipeVars(Steps) /\ WF_pipeVars(Driving)
  /\ WF_pipeVars(LlmEnds) /\ WF_pipeVars(Ending)

----------------------------------------------------------------------------
(* Properties.                                                              *)

\* In a cool-down only that buys which was under way when it began: the decision
\* of the LLM, or the trades the driving task had still to look at
\* (main.py:268, 594).
LeakBounded == cool > 0 => leak <= since.owed

\* The breaker tells of itself once in a cool-down, however often it fires in
\* it, unless the clock dropped the call that tells it (main.py:259-266).
NoticeSpaced ==
  [][ pt = "notice" /\ cool' = Cooling /\ spent.slips = 0 => since.notice = Cooling ]_pipeVars

\* Two decisions are an interval apart, however late a tick was (main.py:57-62).
LlmSpaced == [][ llm = "none" /\ llm' = "asking" => since.llm = LlmEvery ]_pipeVars

\* The telling of every halt is begun, also after one that midnight lifted, unless the
\* clock dropped the call that tells it, which is not repeated (main.py:279-283).
HaltReported ==
  books.halted /\ ~books.heard ~> books.heard \/ ~books.halted \/ life # "up" \/ spent.slips > 0

\* The last state saved holds every accepted buy of the naked strategy, unless
\* the waits for its driving task were given up, however late a tick was
\* (main.py:733-780).
SavedWhole == life = "down" /\ spent.cuts = 0 => ~drive.sent

\* No buy of its own accord in a cool-down, and none that the last saved state
\* does not know.
PipelineSafe == PipeTypeOK /\ LeakBounded /\ SavedWhole

\* A request to stop is carried out.
Stops == life = "drain" ~> life = "down"

\* However late, dropped or repeated the ticks are: the operator hears of every
\* danger and halt once, decisions keep their interval, and a stop is obeyed.
TicksRight == NoticeSpaced /\ LlmSpaced /\ HaltReported /\ Stops
=============================================================================
