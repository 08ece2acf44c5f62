------------------------------ MODULE Baseline ------------------------------
(***************************************************************************)
(* What the circuit breaker knows of the order book (circuit_breaker.py and *)
(* its callers in main.py): the number of pieces the price ladder falls     *)
(* into, its history as a base line, the count of ticks beyond it, and the  *)
(* file that carries the base line over a restart, written by a thread once *)
(* a minute and once more at the end of the process.                        *)
(*                                                                         *)
(* A ladder is the sequence of its gaps.  One ticker; the file is looked at *)
(* as the history it holds and its age.                                     *)
(***************************************************************************)
EXTENDS Naturals, Sequences, FiniteSets, TLC

CONSTANTS
  Gaps, Levels,  \* sizes of a gap, gaps of a ladder
  GapMultiple,   \* a gap of more than so many medians is a break
  Floor, Margin, \* betti_0_star, betti_margin
  Persist,       \* betti_persist
  Warmup, Keep,  \* warmup, baseline_len
  MaxOld,        \* baseline_max_age_sec, in saves missed
  MaxBirths,     \* starts of the process
  MaxSaves,      \* saves of a process
  MaxLooks       \* ticks, of all processes

ASSUME BaselineAssumption ==
  /\ Gaps \subseteq Nat /\ {GapMultiple, Floor, Margin, MaxOld, MaxBirths, MaxLooks} \subseteq Nat
  /\ {Levels, Persist, Warmup, Keep, MaxSaves} \subseteq Nat \ {0} /\ Warmup <= Keep

VARIABLES
  hist,        \* _betti_hist
  streak,      \* _betti_streak
  apart,       \* history: ticks since the topology fired last
  saver,       \* the thread of save_baseline
  final,       \* the save of _cleanup
  tmp, file,   \* the two files
  clash,       \* history: the processes with two saves at once
  births, saves, looks

diskVars == <<saver, final, tmp, file, clash>>
baseVars == <<hist, streak, apart, diskVars, births, saves, looks>>

NoFile == [st |-> "none", hist |-> <<>>, old |-> 0]
Whole(h) == [st |-> "whole", hist |-> h, old |-> 0]
Torn == [NoFile EXCEPT !.st = "torn"]
NoSave == [at |-> "idle", hist |-> <<>>]

Files == [st : {"none", "whole", "torn"}, hist : Seq(1..Levels + 1), old : 0..MaxOld + 1]
BaselineTypeOK ==
  /\ hist \in Seq(1..Levels + 1) /\ Len(hist) <= Keep
  /\ streak \in 0..Persist - 1 /\ apart \in 0..Persist
  /\ {saver, final} \subseteq [at : {"off", "idle", "open", "written"}, hist : Seq(1..Levels + 1)]
  /\ {tmp, file} \subseteq Files /\ clash \subseteq 1..MaxBirths
  /\ births \in 0..MaxBirths /\ saves \in 0..MaxSaves /\ looks \in 0..MaxLooks

BaselineInit(on) ==
  /\ hist = <<>> /\ streak = 0 /\ apart = Persist
  /\ saver = NoSave /\ final = [NoSave EXCEPT !.at = IF on THEN "idle" ELSE "off"]
  /\ tmp = NoFile /\ file = NoFile /\ clash = {}
  /\ births = (IF on THEN 0 ELSE MaxBirths) /\ saves = MaxSaves /\ looks = 0

----------------------------------------------------------------------------
(* The measure.                                                             *)

\* Twice the median.
Median2(s) ==
  LET sorted == SortSeq(s, LAMBDA a, b : a < b) IN sorted[(Len(s) + 1) \div 2] + sorted[Len(s) \div 2 + 1]

\* compute_betti_0: without a positive gap the ladder is one piece.
Pieces(gaps) ==
  LET wide == SelectSeq(gaps, LAMBDA g : g > 0)
      unit == IF Median2(gaps) > 0 THEN Median2(gaps) ELSE Median2(wide)
  IN IF wide = <<>> THEN 1
     ELSE Cardinality({i \in DOMAIN gaps : 2 * gaps[i] > GapMultiple * unit}) + 1

\* What a ladder may have.
Counts == {Pieces(gaps) : gaps \in [1..Levels -> Gaps]}

\* betti_threshold: twice the greatest value that is still in order.
Threshold2(h) == IF Median2(h) + 2 * Margin > 2 * Floor THEN Median2(h) + 2 * Margin ELSE 2 * Floor

Remembered(h, v) == IF Len(h) < Keep THEN Append(h, v) ELSE Append(Tail(h), v)

\* What is left of the count: nothing once it has fired.
Recount(n) == IF n >= Persist THEN 0 ELSE n

Beyond(h, v) == Len(h) >= Warmup /\ 2 * v > Threshold2(h)

\* evaluate: the value is part of the history it is compared with.
Observe ==
  /\ births > 0 /\ saves < MaxSaves /\ looks < MaxLooks /\ looks' = looks + 1
  /\ \E v \in Counts :
       LET h == Remembered(hist, v)
           n == IF Beyond(h, v) THEN streak + 1 ELSE 0
       IN /\ hist' = h /\ streak' = Recount(n)
          /\ apart' = IF n >= Persist THEN 0 ELSE IF apart < Persist THEN apart + 1 ELSE apart
  /\ UNCHANGED <<diskVars, births, saves>>

----------------------------------------------------------------------------
(* save_baseline: the temporary file is opened, written, and put in place.  *)

Saving(w) == w.at # "idle"

\* Mutated form: the file itself is written.
Opened_InPlace == tmp' = tmp /\ file' = Torn

Opened == tmp' = Torn /\ UNCHANGED file

Begin(h) == [at |-> "open", hist |-> h]

\* Once a minute, by a thread of its own that needs less than a minute.
SaveDue ==
  /\ births > 0 /\ saves < MaxSaves - 1 /\ ~Saving(saver) /\ ~Saving(final)
  /\ saves' = saves + 1 /\ saver' = Begin(hist) /\ Opened
  /\ UNCHANGED <<hist, streak, apart, final, clash, births, looks>>

\* _cleanup: the task is cancelled, which does not stop its thread; then the
\* base line is saved from here, into the same temporary file.
FinalSave ==
  /\ births > 0 /\ saves < MaxSaves /\ ~Saving(final)
  /\ saves' = MaxSaves /\ final' = Begin(hist) /\ Opened
  /\ clash' = IF Saving(saver) THEN clash \cup {births} ELSE clash
  /\ UNCHANGED <<hist, streak, apart, saver, births, looks>>

\* Two writers of one temporary file leave what nobody can read.
Write(w, other) == tmp' = IF other.at = "idle" THEN Whole(w.hist) ELSE Torn

SaverWrites ==
  /\ saver.at = "open" /\ Write(saver, final) /\ saver' = [saver EXCEPT !.at = "written"]
  /\ UNCHANGED <<hist, streak, apart, final, file, clash, births, saves, looks>>

FinalWrites ==
  /\ final.at = "open" /\ Write(final, saver) /\ final' = [final EXCEPT !.at = "written"]
  /\ UNCHANGED <<hist, streak, apart, saver, file, clash, births, saves, looks>>

\* os.replace; it fails when the other one has taken the temporary file away.
Put ==
  /\ tmp' = NoFile
  /\ IF tmp.st # "none" THEN file' = tmp ELSE UNCHANGED file

SaverPuts ==
  /\ saver.at = "written" /\ Put /\ saver' = NoSave
  /\ UNCHANGED <<hist, streak, apart, final, clash, births, saves, looks>>

FinalPuts ==
  /\ final.at = "written" /\ Put /\ final' = NoSave
  /\ UNCHANGED <<hist, streak, apart, saver, clash, births, saves, looks>>

\* _load_baseline: a file that cannot be read, or an old one, is not used.
Usable(f) == f.st = "whole" /\ f.old <= MaxOld

Restored(f) == IF Usable(f) THEN f.hist ELSE <<>>

\* A start, after the end of the process or a kill, some time later.
Birth ==
  /\ births < MaxBirths /\ births' = births + 1
  /\ \E late \in 0..MaxOld + 1 :
       LET f == [file EXCEPT !.old = IF file.st = "whole" THEN late ELSE 0]
       IN file' = f /\ hist' = Restored(f)
  /\ saves' = 0 /\ streak' = 0 /\ apart' = Persist
  /\ saver' = NoSave /\ final' = NoSave
  /\ UNCHANGED <<tmp, clash, looks>>

----------------------------------------------------------------------------
BaselineNext ==
  \/ Observe \/ SaveDue \/ FinalSave
  \/ SaverWrites \/ FinalWrites \/ SaverPuts \/ FinalPuts \/ Birth

----------------------------------------------------------------------------
(* Properties.                                                              *)

\* The count never exceeds the ticks since the topology fired last: it fires
\* again only after Persist more ticks beyond the base line, however long the
\* danger lasts (circuit_breaker.py:255-287).
FiringsApart == streak <= apart

\* A kill in a save leaves the file readable (circuit_breaker.py:187-201).
FileWhole == file.st = "torn" => clash # {}

\* After an orderly end the file holds the history of the process.
LastWins ==
  births > 0 /\ saves = MaxSaves /\ final.at = "idle" /\ ~Saving(saver) /\ births \notin clash
    => file.st = "whole" /\ file.hist = hist

\* What the breaker compares the order book with survives kills and restarts, and
\* it does not fire on every tick of one danger.
BaselineRight == BaselineTypeOK /\ FiringsApart /\ FileWhole /\ LastWins
=============================================================================
