------------------------------- MODULE BarLoop -------------------------------
(***************************************************************************)
(* From the close of a bar to its rules (runtime/bot.py, exchange/          *)
(* market_data.py, execution/engine.py): the loop that waits for the notice *)
(* of the market stream or for its timer, the REST snapshot of the bars,    *)
(* and the handling of every new bar under the lock of the engine: the      *)
(* rules of the trade, the order they lead to, the signals and the mark     *)
(* last_bar_ts that is saved at the end only.                               *)
(*                                                                         *)
(* Between the bars the price and the reconcile of every five minutes change *)
(* the trade under the same lock: the entry goes out at the exchange, and the *)
(* trade learns of it at once, later, or never; a stop is lost and restored; *)
(* a position no trade knows is adopted.  How they do it is EntryFlow's and   *)
(* ProtectExit's matter; here it counts what a bar finds.                    *)
(*                                                                         *)
(* Time is counted in ticks, Period of them to a bar; bar b closes when the *)
(* b-th period ends.  Prices are left out: a bar brings entry signals, and  *)
(* the rules ask for an exit, a better stop or nothing.                     *)
(***************************************************************************)
EXTENDS Naturals, Sequences, FiniteSets, SequencesExt

CONSTANTS
  Period,      \* ticks of a bar
  Delay,       \* the timer aims this many ticks past the close (3 s)
  Cap,         \* the longest wait (60 s)
  Valid,       \* entry_valid_bars
  MaxBars,     \* bars that close
  MaxBetter,   \* times the rules improve the stop
  MaxWoes      \* notices lost, queries and orders that fail, kills

ASSUME BarLoopAssumption ==
  /\ {Period, Cap, Valid, MaxBars} \subseteq Nat \ {0}
  /\ {Delay, MaxBetter, MaxWoes} \subseteq Nat
  /\ Delay < Cap /\ Cap < Period

Bars == 1..MaxBars
None == 0            \* last_bar_ts of a fresh database
Sides == {"long", "short"}
Other(d) == IF d = "long" THEN "short" ELSE "long"

VARIABLES
  phase,     \* ticks since the last close
  formed,    \* bars closed
  brings,    \* the entry signals of the closed bars
  barEvt,    \* Bot._bar_evt
  loop,      \* where _bar_loop is
  due,       \* ticks to next_close + Delay
  nap,       \* ticks to the end of the wait
  snap,      \* bars final in the answer of the exchange
  cur, upto, \* the bars the turn still has to handle
  last,      \* Engine.last_bar_ts, in memory and in the database
  rows,      \* signal rows of the database
  work,      \* on_bar_close: what it found and has still to do
  trade,     \* the active trade, as saved; fill is the exchange's time of the fill
  orphan,    \* the side of a position at the exchange that no trade knows
  past,      \* history: trades armed, bars that left a position, bars counted for the
             \* position and bars it was passed over by
  early,     \* history: a bar was evaluated that was still forming
  missed, failed, kills

clockVars == <<phase, formed, brings>>
loopVars  == <<loop, due, nap, snap, cur, upto>>
engVars   == <<last, rows, work, trade, orphan>>
badVars   == <<missed, failed, kills>>
barVars   == <<clockVars, barEvt, loopVars, engVars, past, early, badVars>>

\* What a trade is for a bar: "pending" waits for its breakout (ENTRY_PENDING);
\* "recovery" does not know what came of its entry (RECOVERY_REQUIRED); "holding"
\* has its stop and its rules; "exposed" is to get its stop (ENTRY_FILLED,
\* PROTECTING, RECOVERY_REQUIRED or ERROR); "adopted" was an orphan; "closing"
\* also stands for ERROR with an exit to be resumed.
States == {"none", "pending", "recovery", "holding", "exposed", "adopted", "closing"}

NoTrade == [st |-> "none", dir |-> "long", exp |-> 0, fill |-> 0, stop |-> 0, sent |-> 0]
Idle == [sigs |-> {}, used |-> {}, exited |-> FALSE, todo |-> "arm"]

BarTypeOK ==
  /\ phase \in 0..Period - 1 /\ formed \in 0..MaxBars /\ brings \in [Bars -> SUBSET Sides]
  /\ barEvt \in BOOLEAN /\ loop \in {"off", "top", "sleep", "fetch", "stamp", "bars", "act", "arm", "mark"}
  /\ due \in 0..Period + Delay /\ nap \in 0..Cap
  /\ snap \in 0..MaxBars /\ cur \in 0..MaxBars + 1 /\ upto \in 0..MaxBars /\ last \in 0..MaxBars
  /\ rows \subseteq Bars \X Sides
  /\ work \in [sigs : SUBSET Sides, used : SUBSET Sides, exited : BOOLEAN, todo : {"arm", "move", "close"}]
  /\ trade \in [st : States, dir : Sides, exp : 0..MaxBars + Valid,
                fill : 0..MaxBars, stop : 0..MaxBetter, sent : 0..MaxBetter]
  /\ orphan \in Sides \cup {"no"}
  /\ past \in [armed : Seq(Bars \X Sides), left : SUBSET Bars, swept : SUBSET Bars, counted : Seq(Bars),
              passed : SUBSET Bars, first : 0..MaxBars]
  /\ early \in BOOLEAN /\ {missed, failed, kills} \subseteq 0..MaxWoes

\* Bot.run sets the event: the bar that closed last is looked at at once.
BarInit(on) ==
  /\ phase \in (IF on THEN 0..Period - 1 ELSE {0}) /\ formed = (IF on THEN 1 ELSE 0)
  /\ brings \in [Bars -> {{}}]
  /\ barEvt = TRUE /\ loop = (IF on THEN "top" ELSE "off") /\ due = 0 /\ nap = 0
  /\ snap = 0 /\ cur = 0 /\ upto = 0 /\ last = None
  /\ rows = {} /\ work = Idle /\ trade = NoTrade /\ orphan = "no"
  /\ past = [armed |-> <<>>, left |-> {}, swept |-> {}, counted |-> <<>>, passed |-> {}, first |-> None]
  /\ early = FALSE /\ missed = 0 /\ failed = 0 /\ kills = 0

----------------------------------------------------------------------------
Woe == missed + failed + kills < MaxWoes

(* Time and the exchange.                                                   *)

Handling == loop \in {"act", "arm", "mark"}
Turn == loop \in {"fetch", "stamp", "bars"} \/ Handling

\* The loop runs at once when it can; a turn takes less than a tick, or its
\* tick is the one that closes a bar.
MayPass ==
  /\ loop \notin {"off", "top"}
  /\ loop = "sleep" => ~barEvt /\ nap > 0
  /\ Turn => phase = Period - 1

Left(n) == IF n = 0 THEN 0 ELSE n - 1

Tick ==
  /\ MayPass /\ phase < Period - 1
  /\ phase' = phase + 1 /\ due' = Left(due) /\ nap' = Left(nap)
  /\ UNCHANGED <<formed, brings, barEvt, loop, snap, cur, upto, engVars, past, early, badVars>>

\* A bar closes; the stream carries the notice, unless it is down.
Close ==
  /\ MayPass /\ phase = Period - 1 /\ formed < MaxBars
  /\ phase' = 0 /\ formed' = formed + 1 /\ due' = Left(due) /\ nap' = Left(nap)
  /\ \E s \in SUBSET Sides : brings' = [brings EXCEPT ![formed + 1] = s]
  /\ \/ barEvt' = TRUE /\ UNCHANGED missed
     \/ Woe /\ missed' = missed + 1 /\ UNCHANGED barEvt
  /\ UNCHANGED <<loop, snap, cur, upto, engVars, past, early, failed, kills>>

\* _on_market_connected, not the first time.
Reconnected ==
  /\ missed > 0 /\ ~barEvt /\ loop \notin {"off"} /\ barEvt' = TRUE
  /\ UNCHANGED <<clockVars, loopVars, engVars, past, early, badVars>>

----------------------------------------------------------------------------
(* Bot._bar_loop                                                            *)

Lesser(a, b) == IF a < b THEN a ELSE b

ToNext == Period - phase + Delay

Top ==
  /\ loop = "top" /\ loop' = "sleep"
  /\ due' = ToNext /\ nap' = Lesser(ToNext, Cap)
  /\ UNCHANGED <<clockVars, barEvt, snap, cur, upto, engVars, past, early, badVars>>

\* Mutated form: the event is cleared when the turn is over.
Clear_End(at) == barEvt' = IF at = "end" THEN FALSE ELSE barEvt

\* The event is cleared before the bars are asked for.
Clear(at) == barEvt' = IF at = "start" THEN FALSE ELSE barEvt

Start == loop' = "fetch" /\ Clear("start") /\ due' = 0

\* The locals of the turn are gone.
Forget == due' = 0 /\ nap' = 0 /\ snap' = 0 /\ cur' = 0 /\ upto' = 0

Noticed ==
  /\ loop = "sleep" /\ barEvt /\ Start /\ nap' = 0
  /\ UNCHANGED <<clockVars, snap, cur, upto, engVars, past, early, badVars>>

TimerDue == due = 0

\* The wait is over: not before next_close + Delay, else round again, with a
\* next_close that may by now be another one.
TimedOut ==
  /\ loop = "sleep" /\ ~barEvt /\ nap = 0
  /\ IF TimerDue THEN Start ELSE loop' = "top" /\ UNCHANGED <<barEvt, due>>
  /\ UNCHANGED <<clockVars, nap, snap, cur, upto, engVars, past, early, badVars>>

\* The exchange answers with the bars closed and the one that is forming.
Fetch ==
  /\ loop = "fetch" /\ loop' = "stamp" /\ snap' = formed
  /\ UNCHANGED <<clockVars, barEvt, due, nap, cur, upto, engVars, past, early, badVars>>

\* Mutated form: only the newest bar is handled.
First_Newest(n) == n

\* process_bars: every bar after last_bar_ts; the newest one in a first run.
First(n) == IF last = None THEN n ELSE last + 1

\* closed_only: what has closed when the answer is looked at.
Answered == Lesser(snap + 1, formed)

Stamp ==
  /\ loop = "stamp" /\ loop' = "bars"
  /\ cur' = First(Answered) /\ upto' = Answered
  /\ UNCHANGED <<clockVars, barEvt, due, nap, snap, engVars, past, early, badVars>>

TurnEnds ==
  /\ loop = "bars" /\ cur > upto
  /\ loop' = "top" /\ Clear("end") /\ Forget
  /\ UNCHANGED <<clockVars, engVars, past, early, badVars>>

GiveUp == loop' = "top" /\ Forget

\* An exception: the turn is given up until the next notice or timer.
TurnFails ==
  /\ Turn /\ loop # "bars" /\ Woe /\ failed' = failed + 1
  /\ GiveUp /\ work' = Idle
  /\ UNCHANGED <<clockVars, barEvt, last, rows, trade, orphan, past, early, missed, kills>>

----------------------------------------------------------------------------
(* Engine.on_bar_close                                                      *)

\* What the rules see of bar cur: its signals, or those of a bar that was
\* still forming when the exchange answered.
Evaluations == IF cur <= snap THEN {brings[cur]} ELSE SUBSET Sides

\* Only a bar that closed after the fill.
Counts == cur > trade.fill

Exit(s) == [s EXCEPT !.exited = TRUE, !.todo = "close"]

Closing(s) == [s EXCEPT !.exited = TRUE]

\* The entry was executed, and the trade does not know it.
Executed == trade.st \in {"pending", "recovery"} /\ trade.fill > 0

\* The trade ends before it holds; what its entry bought is left to itself.
Dropped == trade' = NoTrade /\ orphan' = IF Executed THEN trade.dir ELSE orphan

PassedOver == past' = [past EXCEPT !.passed = @ \cup {cur}]

\* The trade that waits for its breakout: expired, or met by a signal of the
\* other side, which is used up by that.
OnPending(w, opp) ==
  /\ trade.st = "pending"
  /\ \/ cur >= trade.exp /\ Dropped /\ work' = w /\ UNCHANGED past
     \/ /\ cur < trade.exp /\ opp /\ Dropped /\ UNCHANGED past
        /\ work' = [w EXCEPT !.used = {Other(trade.dir)}, !.exited = TRUE]
     \/ /\ cur < trade.exp /\ ~opp /\ UNCHANGED <<trade, orphan>> /\ work' = w
        /\ IF Executed THEN PassedOver ELSE UNCHANGED past

\* The rules of a position: an exit, or a better stop, or nothing.  The new
\* state of the rules is saved before anything is sent.
OnHolding(w, opp) ==
  LET u == IF opp THEN [w EXCEPT !.used = {Other(trade.dir)}] ELSE w IN
  /\ trade.st = "holding" /\ Counts /\ UNCHANGED orphan
  /\ past' = [past EXCEPT !.counted = Append(@, cur)]
  /\ \/ UNCHANGED trade /\ work' = Exit(u)
     \/ ~opp /\ UNCHANGED trade /\ work' = u
     \/ /\ ~opp /\ trade.stop < MaxBetter
        /\ trade' = [trade EXCEPT !.stop = @ + 1]
        /\ work' = [u EXCEPT !.todo = "move"]

\* No rules: for no trade, for a bar that closed before the fill, for a trade in
\* none of HOLDING_STATES, for an adopted one.
OnOther(w) ==
  /\ \/ trade.st \in {"none", "adopted"} /\ work' = w /\ UNCHANGED past
     \/ trade.st = "holding" /\ ~Counts /\ work' = w /\ UNCHANGED past
     \/ trade.st \in {"recovery", "exposed"} /\ work' = w /\ PassedOver
     \/ trade.st = "closing" /\ work' = Closing(w) /\ UNCHANGED past
  /\ UNCHANGED <<trade, orphan>>

\* The evaluation, the signal rows and the rules, up to the first order.
OnBar ==
  /\ loop = "bars" /\ cur <= upto
  /\ \E s \in Evaluations :
       LET new == {d \in s : <<cur, d>> \notin rows}
           w   == [Idle EXCEPT !.sigs = new]
           opp == Other(trade.dir) \in s
       IN /\ rows' = rows \cup ({cur} \X new)
          /\ OnPending(w, opp) \/ OnHolding(w, opp) \/ OnOther(w)
  /\ early' = (early \/ cur > snap)
  /\ loop' = IF work'.todo = "arm" THEN "arm" ELSE "act"
  /\ UNCHANGED <<clockVars, barEvt, due, nap, snap, cur, upto, last, badVars>>

\* exits.close: the position is closed, or the exit goes on by itself.
CloseSent ==
  /\ loop = "act" /\ work.todo = "close" /\ loop' = "arm"
  /\ past' = [past EXCEPT !.left = @ \cup {cur}]
  /\ trade' \in {NoTrade, [trade EXCEPT !.st = "closing"]}
  /\ UNCHANGED <<clockVars, barEvt, due, nap, snap, cur, upto, last, rows, work, orphan, early, badVars>>

\* protection.move_stop: the stop is replaced; or it is not accepted and the
\* old one stays; or the price is beyond it already and the position is closed,
\* which the handling of the bar does not take for an exit.
MoveSent ==
  /\ loop = "act" /\ work.todo = "move" /\ loop' = "arm"
  /\ \/ trade' = [trade EXCEPT !.sent = trade.stop] /\ UNCHANGED <<past, failed>>
     \/ Woe /\ failed' = failed + 1 /\ UNCHANGED <<trade, past>>
     \/ /\ trade' \in {NoTrade, [trade EXCEPT !.st = "closing"]}
        /\ past' = [past EXCEPT !.swept = @ \cup {cur}]
        /\ UNCHANGED failed
  /\ UNCHANGED <<clockVars, barEvt, due, nap, snap, cur, upto, last, rows, work, orphan, early, missed, kills>>

Fresh == cur = formed /\ phase <= Period \div 2

Free == trade.st = "none" /\ ~work.exited

\* A signal becomes a trade, if the row is new, the bar is fresh, nothing was
\* closed by this bar, and the gate is open.
Arm ==
  /\ loop = "arm" /\ loop' = "mark"
  /\ \/ UNCHANGED <<trade, past>>
     \/ \E d \in work.sigs \ work.used :
          /\ Free /\ Fresh
          /\ trade' = [NoTrade EXCEPT !.st = "pending", !.dir = d, !.exp = cur + Valid]
          /\ past' = [past EXCEPT !.armed = Append(@, <<cur, d>>), !.counted = <<>>, !.passed = {}]
  /\ UNCHANGED <<clockVars, barEvt, due, nap, snap, cur, upto, last, rows, work, orphan, early, badVars>>

Marked ==
  /\ loop = "mark" /\ loop' = "bars" /\ last' = cur
  /\ past' = [past EXCEPT !.first = IF last = None THEN cur ELSE @]
  /\ cur' = cur + 1 /\ work' = Idle
  /\ UNCHANGED <<clockVars, barEvt, due, nap, snap, upto, rows, trade, orphan, early, badVars>>

----------------------------------------------------------------------------
(* What happens to the trade between the bars: the lock is free.            *)

Unlocked == loop # "off" /\ ~Handling

Away == UNCHANGED <<clockVars, barEvt, loopVars, last, rows, work, past, early, missed, kills>>

Turns(st, at) == trade' = [trade EXCEPT !.st = st, !.fill = at]

\* The price breaks out and the entry is executed, no other position being
\* there.  The trade holds, with its stop; or its stop is not placed; or a query
\* after the fill fails and the trade still waits; or the outcome stays unknown.
Breakout ==
  /\ Unlocked /\ trade.st = "pending" /\ trade.fill = 0 /\ orphan = "no" /\ formed < trade.exp
  /\ \/ Turns("holding", formed) /\ UNCHANGED failed
     \/ /\ Woe /\ failed' = failed + 1
        /\ \/ \E st \in {"exposed", "pending", "recovery"} : Turns(st, formed)
           \/ Turns("recovery", 0)
  /\ UNCHANGED orphan /\ Away

\* The stop is taken away and not restored at once.
StopLost ==
  /\ Unlocked /\ trade.st = "holding" /\ Turns("exposed", trade.fill)
  /\ Woe /\ failed' = failed + 1 /\ UNCHANGED orphan /\ Away

\* A reconcile: the entry is found executed, at the exchange's time or, by the
\* position alone, at the present one; the stop is there again, or the position
\* is closed.
Recovered ==
  /\ Unlocked
  /\ \/ Executed /\ \E at \in {trade.fill, formed} : Turns("holding", at)
     \/ trade.st = "exposed" /\ \E st \in {"holding", "closing"} : Turns(st, trade.fill)
  /\ UNCHANGED <<orphan, failed>> /\ Away

\* A reconcile: the position no trade knows gets one, in place of a trade that
\* waits, to be kept or closed.
Adopt ==
  /\ Unlocked /\ orphan # "no" /\ trade.st \in {"none", "pending"}
  /\ \E st \in {"adopted", "closing"} :
       trade' = [NoTrade EXCEPT !.st = st, !.dir = orphan, !.fill = formed]
  /\ orphan' = "no" /\ UNCHANGED failed /\ Away

\* A trade ends without a position of its own: cancelled, superseded, not placed.
Cancelled == Unlocked /\ trade.st \in {"pending", "recovery"} /\ Dropped /\ UNCHANGED failed /\ Away

\* A position is closed at the exchange.
Flat ==
  /\ Unlocked
  /\ \/ trade.st \in {"holding", "exposed", "adopted", "closing"} /\ trade' = NoTrade /\ UNCHANGED orphan
     \/ orphan # "no" /\ orphan' = "no" /\ UNCHANGED trade
  /\ UNCHANGED failed /\ Away

\* A kill and a start: the rows, the trade and the mark are those of the
\* database; the exchange still has the stop that was sent.
Kill ==
  /\ loop # "off" /\ Woe /\ kills' = kills + 1
  /\ loop' = "top" /\ Forget /\ barEvt' = TRUE /\ work' = Idle
  /\ UNCHANGED <<clockVars, last, rows, trade, orphan, past, early, missed, failed>>

----------------------------------------------------------------------------
LoopSteps ==
  \/ Top \/ Noticed \/ TimedOut \/ Fetch \/ Stamp \/ TurnEnds
  \/ OnBar \/ CloseSent \/ MoveSent \/ Arm \/ Marked

BarNext ==
  \/ Tick \/ Close \/ Reconnected
  \/ LoopSteps \/ TurnFails
  \/ Breakout \/ StopLost \/ Recovered \/ Adopt \/ Cancelled \/ Flat \/ Kill

\* The loop gets its turns and time passes.
BarFairness == WF_barVars(LoopSteps) /\ WF_barVars(Tick) /\ WF_barVars(Close)

----------------------------------------------------------------------------
(* Properties.                                                              *)

\* The bars that closed after the fill and have been handled, but for those
\* before the first mark of a fresh database.
Handled == {b \in Bars : b > trade.fill /\ b >= past.first /\ b <= last}

\* No bar after the fill is left out of the rules of a position that holds, but
\* for those that came while the trade did not know of its fill or was without
\* its stop, and none that closed before the fill is put in, whatever notices,
\* turns or processes were lost; without a failure or a kill no bar is passed
\* over and none is counted twice.
EveryBarCounted ==
  trade.st = "holding" /\ loop \in {"top", "sleep"} =>
    /\ Handled \ past.passed \subseteq ToSet(past.counted)
    /\ \A b \in ToSet(past.counted) : b > trade.fill
    /\ failed = 0 => past.passed = {}
    /\ failed = 0 /\ kills = 0 => Len(past.counted) = Cardinality(ToSet(past.counted))

\* A signal becomes a trade once, and never by a bar whose rules closed a
\* position, also when that bar is handled again.
NoReversal ==
  /\ \A i, j \in DOMAIN past.armed : past.armed[i] = past.armed[j] => i = j
  /\ ~early => \A i \in DOMAIN past.armed : past.armed[i][1] \notin past.left

\* Every bar has its effect on a position once, and a signal on the trade once.
BarsRight == BarTypeOK /\ EveryBarCounted /\ NoReversal

\* When a bar closes while the loop sleeps, the bars before it have been
\* handled, but for those whose notice was lost.
Timely ==
  [][ formed' > formed /\ loop = "sleep" /\ failed = 0 /\ kills = 0 /\ last # None
        => formed - last <= missed ]_barVars

\* A closed bar is handled some day, while bars keep closing.
CaughtUp == \A b \in 1..MaxBars - MaxWoes : formed = b ~> last >= b

\* No bar is late but for a lost notice, and none is left for ever.
InTime == Timely /\ CaughtUp

(* What the comments say and the code does not do.                          *)

\* engine.py:9-12: the close of a bar applies the rules to what is held.  A bar
\* that closes between the fill and the reconcile that finds it is never counted.
EveryBarOfPosition == trade.st = "holding" /\ loop \in {"top", "sleep"} => Handled \subseteq ToSet(past.counted)

\* market_data.py:8-9: no rule is applied to a bar that is still forming.
OnlyFinalBars == ~early

\* engine.py:11-12: a bar that closed a position arms no trade.
NoEntryAtExit ==
  ~early => \A i \in DOMAIN past.armed : past.armed[i][1] \notin past.left \cup past.swept

\* ladder.py:16-17: when a bar reached a target, the stop is moved.
StopFollows == trade.st = "holding" /\ loop = "sleep" => trade.sent = trade.stop
=============================================================================
