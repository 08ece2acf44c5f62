------------------------------ MODULE PaperBook -------------------------------
(***************************************************************************)
(* The paper trades of the Upbit price-action strategy                       *)
(* (naked_strategy.py: Trade, PaperBook and the scan that feeds them) for    *)
(* one ticker: every signal is traded on paper by every exit variant, the    *)
(* results go to a file that the validation reads, the state to another      *)
(* one.  The process may be killed, be off for longer than the candles       *)
(* reach back, or lack the candles of the higher time frame.                 *)
(*                                                                         *)
(* Bars are numbered; a bar has a shape, with the signals it gives.  What is *)
(* left of a trade is in halves.                                             *)
(***************************************************************************)
EXTENDS Integers, Sequences, FiniteSets, SequencesExt

CONSTANTS
  Shapes,      \* [o, h, l, c, sigs, reversal] of a bar
  Signals,     \* pattern -> [entry, stop, targets, soft]; soft 0: none
  ExitModes,   \* EXIT_MODES
  Pad,         \* 0.05 ATR
  Alive,       \* NAKED_ENTRY_VALID_BARS
  Longest,     \* NAKED_MAX_HOLD_BARS
  Window,      \* candles of one fetch
  LastBar,     \* bound: bars
  MaxKills,    \* bound: kills
  MaxBlind     \* bound: bars of scans without the higher time frame

ASSUME PaperAssumption ==
  /\ {Alive, Longest, Window, LastBar} \subseteq Nat \ {0} /\ {Pad, MaxKills, MaxBlind} \subseteq Nat
  /\ ExitModes \subseteq {"zone", "split", "ladder", "three_bar"}
  /\ \A p \in DOMAIN Signals : /\ Signals[p] \in [entry : Int, stop : Int, targets : Seq(Int), soft : Int]
                               /\ Signals[p].stop < Signals[p].entry
  /\ \A s \in Shapes : /\ s \in [o : Int, h : Int, l : Int, c : Int, sigs : SUBSET DOMAIN Signals, reversal : BOOLEAN]
                       /\ {s.o, s.c} \subseteq s.l..s.h

VARIABLES
  market,      \* the bars that have closed
  memory,      \* last_bar and the book of the process; last 0: none
  stateFile,   \* the same in state.json
  unsaved,     \* a scan that handled bars has not saved yet
  results,     \* trades/*.jsonl: the trades that ended in one bar, by the bar
  deaths,      \* kills
  undone,      \* history: the bars of results that a kill took back from the state
  blind        \* history: bars passed over for lack of the higher time frame

bookVars == <<market, memory, stateFile, unsaved, results, deaths, undone, blind>>

Empty == [last |-> 0, book |-> {}]
Over == {"closed", "cancelled"}

PaperTypeOK ==
  /\ \A m \in {memory, stateFile} :
       /\ m.last \in 0..Len(market)
       /\ \A t \in m.book : t.st \in {"pending", "open"} /\ t.left \in {1, 2} /\ t.born <= m.last
  /\ \A k \in DOMAIN results : \A r \in results[k] : r.st \in Over /\ (r.st = "closed" <=> r.left = 0)
  /\ undone \subseteq DOMAIN results

\* From the first bar that gives a signal: before it the book is empty.  No
\* bar: the book is not looked at.
PaperInit(on) ==
  /\ market \in IF on THEN {<<s>> : s \in {x \in Shapes : x.sigs # {}}} ELSE {<<>>}
  /\ memory = Empty /\ stateFile = Empty /\ unsaved = FALSE /\ results = <<>>
  /\ deaths = 0 /\ undone = {} /\ blind = {}

----------------------------------------------------------------------------
(* A trade.                                                                 *)

\* zone and split need a target.
Mode(v, p) == IF v \in {"zone", "split"} /\ Signals[p].targets = <<>> THEN "three_bar" ELSE v

NewTrade(v, p, i) ==
  [v |-> v, p |-> p, mode |-> Mode(v, p), born |-> i, st |-> "pending", stop |-> Signals[p].stop,
   fill |-> 0, held |-> 0, left |-> 2, step |-> 0, fills |-> <<>>, exit |-> 0, why |-> "", seen |-> i]

TargetsOf(t) == Signals[t.p].targets

\* current_target: its place among the targets, 0 for none.
CurrentTarget(t) ==
  LET k == IF t.mode = "zone" \/ (t.mode = "split" /\ t.left = 2) THEN 1 ELSE 2 IN
  IF t.mode \in {"zone", "split"} /\ k <= Len(TargetsOf(t)) THEN k ELSE 0

TargetFraction(t) == IF t.mode = "split" /\ t.left = 2 THEN 1 ELSE t.left

Trailing(t) == t.mode = "three_bar" \/ (t.mode = "split" /\ t.left < 2 /\ Len(TargetsOf(t)) < 2)

Higher(a, b) == IF a > b THEN a ELSE b
Lower(a, b) == IF a < b THEN a ELSE b

\* mark_exit: after the first target of "split" the rest is stopped at the entry.
MarkExit(t, part, px, i, why) ==
  LET left == t.left - part IN
  [t EXCEPT !.fills = Append(@, [bar |-> i, px |-> px]), !.left = left,
            !.stop = IF t.mode = "split" /\ left > 0 /\ why = "target" THEN Higher(@, t.fill) ELSE @,
            !.st = IF left = 0 THEN "closed" ELSE @,
            !.exit = IF left = 0 THEN i ELSE @, !.why = IF left = 0 THEN why ELSE @]

Cancel(t, i, why) == [t EXCEPT !.st = "cancelled", !.exit = i, !.why = why]

\* A bar that opens below the stop is sold at its open.
GapPrice(t, b) == Lower(t.stop, b.o)

\* The next target, if the bar reaches it.
OneTarget(t, b, i) ==
  LET k == CurrentTarget(t) IN
  IF t.st = "closed" \/ k = 0 THEN t
  ELSE IF b.h < TargetsOf(t)[k] THEN t
  ELSE MarkExit(t, TargetFraction(t), Higher(TargetsOf(t)[k], b.o), i, "target")

\* The targets that the bar reaches: three tries.
Targets(t, b, i) == OneTarget(OneTarget(OneTarget(t, b, i), b, i), b, i)

\* The breakout, and a stop in the same bar after it.
FillIn(t, b, i) ==
  LET px == Higher(Signals[t.p].entry, b.o)
      u  == [t EXCEPT !.st = "open", !.fill = px]
  IN IF b.l <= t.stop THEN MarkExit(u, u.left, Lower(t.stop, px), i, "stop") ELSE u

\* on_bar: once for a bar.
OnCandle(t, b, i) ==
  IF i <= t.seen THEN t
  ELSE IF t.st = "pending"
  THEN IF i >= t.born + 1 + Alive THEN Cancel(t, i, "expired")
       ELSE IF b.h >= Signals[t.p].entry THEN FillIn(t, b, i)
       ELSE IF b.l <= t.stop THEN Cancel(t, i, "stop_before_entry") ELSE t
  ELSE IF b.l <= t.stop THEN MarkExit(t, t.left, GapPrice(t, b), i, "stop") ELSE Targets(t, b, i)

\* The stop a step up the ladder, and below the last three bars.
Ratchet(t, bars, i) ==
  LET tg    == TargetsOf(t)
      rungs == IF t.mode = "ladder" THEN {k \in t.step + 1..Len(tg) : bars[i].h >= tg[k]} ELSE {}
      low   == CHOOSE x \in {bars[j].l : j \in i - 2..i} : \A j \in i - 2..i : x <= bars[j].l
      on    == t.held + 1 >= 3 /\ (Trailing(t) \/ (t.mode = "ladder" /\ t.step + Cardinality(rungs) = Len(tg)))
      all   == {t.stop} \cup {IF k = 1 THEN t.fill ELSE tg[k - 1] : k \in rungs} \cup (IF on THEN {low - Pad} ELSE {})
  IN [t EXCEPT !.held = @ + 1, !.seen = i, !.step = @ + Cardinality(rungs), !.stop = CHOOSE x \in all : \A y \in all : y <= x]

\* on_bar_close: a bar of a trade that is open is counted whether or not it has
\* been seen before.
OnClose(t, bars, i) ==
  IF t.st # "open" THEN [t EXCEPT !.seen = IF t.st = "pending" THEN i ELSE @]
  ELSE LET u == Ratchet(t, bars, i)
           b == bars[i]
           why == IF b.c < Signals[t.p].soft THEN "back_in_box"
                  ELSE IF b.reversal         THEN "reversal_signal"
                  ELSE IF u.held >= Longest  THEN "time"
                  ELSE IF b.c <= u.stop      THEN "stop_close"
                  ELSE ""
       IN IF why = "" THEN u ELSE MarkExit(u, u.left, b.c, i, why)

Lived(t, bars, i) == OnClose(OnCandle(t, bars[i], i), bars, i)

----------------------------------------------------------------------------
(* The book.                                                                *)

\* The trades that ended go to the file.
Filed(file, ended) == IF ended = {} THEN file ELSE Append(file, ended)

\* One trade of a variant and a pattern at a time.
Unused(kept, sigs) == {vp \in ExitModes \X sigs : \A t \in kept : <<t.v, t.p>> # vp}

\* PaperBook.process_bar
BookBar(acc, bars, i) ==
  LET lived == {Lived(t, bars, i) : t \in acc.book}
      kept  == {t \in lived : t.st \notin Over}
  IN [book |-> kept \cup {NewTrade(vp[1], vp[2], i) : vp \in Unused(kept, bars[i].sigs)},
      out  |-> Filed(acc.out, lived \ kept)]

Oldest == Higher(1, Len(market) - Window + 1)

\* Mutated form: bars that no fetch returned are passed over in silence.
Behind_Never == FALSE

\* The candles do not reach back to the last bar that was handled.
Behind == Oldest > memory.last + 1

\* The bars to handle: on the first scan the newest one only.
FirstNew == IF memory.last = 0 THEN Len(market) ELSE Higher(Oldest, memory.last + 1)

----------------------------------------------------------------------------
(* Actions.                                                                 *)

\* A bar is much longer than a scan.
MarketBar ==
  /\ ~unsaved /\ Len(market) \in 1..LastBar - 1
  /\ \E s \in Shapes : market' = Append(market, s)
  /\ UNCHANGED <<memory, stateFile, unsaved, results, deaths, undone, blind>>

\* A scan that has the candles of the higher time frame: after a gap the trades
\* are cancelled; the results are written as they come.
ScanPaper ==
  /\ ~unsaved /\ unsaved' = TRUE
  /\ Len(market) > memory.last
  /\ LET lost == IF memory.last > 0 /\ Behind THEN memory.book ELSE {}
         run[i \in FirstNew - 1..Len(market)] ==
           IF i = FirstNew - 1
           THEN [book |-> memory.book \ lost, out |-> Filed(results, {Cancel(t, Oldest, "data_gap") : t \in lost})]
           ELSE BookBar(run[i - 1], market, i)
     IN /\ memory' = [last |-> Len(market), book |-> run[Len(market)].book]
        /\ results' = run[Len(market)].out
  /\ UNCHANGED <<market, stateFile, deaths, undone, blind>>

\* A scan that lacks them: the ticker counts as new, its bars as handled.
ScanBlind ==
  /\ ~unsaved /\ Len(market) > memory.last
  /\ memory' = [memory EXCEPT !.last = Len(market)]
  /\ blind' = blind \cup (memory.last + 1..Len(market)) /\ Cardinality(blind') <= MaxBlind
  /\ UNCHANGED <<market, stateFile, unsaved, results, deaths, undone>>

\* _save, after a scan that handled bars, or for a live trade.
SaveBook ==
  /\ stateFile # memory /\ stateFile' = memory /\ unsaved' = FALSE
  /\ UNCHANGED <<market, memory, results, deaths, undone, blind>>

\* The process is killed; the next one loads the state file.
DieBook ==
  /\ market # <<>> /\ deaths < MaxKills /\ deaths' = deaths + 1
  /\ memory' = stateFile /\ unsaved' = FALSE
  /\ undone' = undone \cup {k \in DOMAIN results : \E r \in results[k] : r.exit > stateFile.last}
  /\ UNCHANGED <<market, stateFile, results, blind>>

PaperNext == MarketBar \/ ScanPaper \/ ScanBlind \/ SaveBook \/ DieBook

----------------------------------------------------------------------------
(* Properties.                                                              *)

\* What a trade comes to by a bar if it sees every bar.
Replay(v, p, born, last) ==
  LET life[i \in born..last] ==
        IF i = born THEN NewTrade(v, p, born)
        ELSE LET u == life[i - 1] IN IF u.st \in Over THEN u ELSE Lived(u, market, i)
  IN life[last]

\* A result that counts for the validation is what the trade comes to on every
\* bar of its life, however late the scans were and whenever the process was
\* killed; the exception is a scan without the higher time frame
\* (naked_strategy.py:450-463).
Trusted ==
  \A k \in DOMAIN results : \A r \in results[k] :
    r.st = "closed" => Replay(r.v, r.p, r.born, r.exit) = r \/ (r.born + 1..r.exit) \cap blind # {}

\* The trades of a variant and a pattern that count follow one another, and
\* each is in the file once, apart from those that a kill before the save made
\* the process trade again (naked_strategy.py:322-340, 436-438).
OneAtATime ==
  \A j, k \in DOMAIN results \ undone : \A a \in results[j], b \in results[k] :
    j <= k /\ <<j, a>> # <<k, b>> /\ a.v = b.v /\ a.p = b.p => a.exit <= b.born

\* Every price of a result was traded in its bar, a gap below the stop and a
\* gap above a target or the entry included (naked_strategy.py:175-197).
Attainable ==
  \A k \in DOMAIN results : \A r \in results[k] : \A n \in DOMAIN r.fills :
    LET f == r.fills[n] IN f.px \in market[f.bar].l..market[f.bar].h

\* What the validation judges is what the rules give on the bars there were.
ResultsRight == PaperTypeOK /\ Trusted /\ OneAtATime /\ Attainable
=============================================================================
