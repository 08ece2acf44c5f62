------------------------------ MODULE Recorder ------------------------------
(***************************************************************************)
(* What the meta model learns from (data_recorder.py, the labels of          *)
(* meta_trainer.py): a price per tick goes into a buffer, the buffer into   *)
(* the CSV of the day of the flush, the CSV of a day into a Parquet file    *)
(* after midnight, and a file past the retention away.  The event loop and  *)
(* the thread of maintain flush at the same time; writes fail, the process  *)
(* is killed between any two of its steps and within a write, and comes     *)
(* back with the same columns or with others.                               *)
(*                                                                         *)
(* A row is its number, which is its time; a file is the set of its rows.   *)
(* A line that a kill tore is read with some price, and the first row       *)
(* written after it ends up in the same line.                               *)
(***************************************************************************)
EXTENDS Integers, Sequences, FiniteSets

CONSTANTS
  Tape,            \* the prices there are to record
  MaxDay,          \* days that pass
  Columns,         \* the versions of PRICE_HEADER
  Retention,       \* retention_days
  Horizon, Barrier, \* of a label: horizon_sec in ticks, the distance of its barriers
  MaxStarts, MaxErrs \* further starts of the process; kills, writes and removals that fail

ASSUME RecorderAssumption ==
  /\ {MaxDay, MaxStarts, MaxErrs} \subseteq Nat
  /\ {Retention, Horizon, Barrier} \subseteq Nat \ {0} /\ Tape \in Seq(Nat) /\ Columns # {}

VARIABLES
  proc,      \* of the process: "off", "down", "up", "stopping"
  header,    \* its PRICE_HEADER
  day,       \* the day of the clock
  current, rolled, \* _current_day, the day before in maintain
  days,      \* history: the days of the rows recorded
  buf,       \* _price_buf
  hand,      \* what the loop and the thread of maintain are doing, and with which rows
  csv, parquet, aside, \* the files of a day: <day>.csv, <day>.parquet, <day>.colsN.csv
  lost, torn, \* history: rows a kill, a failed write or a torn line took, lines torn
  late, cut,  \* history: <<day, row>> written after that day, days with a compaction left half done
  starts, errs

priceFiles == <<csv, parquet, aside>>
fateVars == <<lost, torn, late, cut>>
recVars == <<proc, header, day, current, rolled, days, buf, hand, priceFiles, fateVars, starts, errs>>

Calendar == 0..MaxDay
Row == DOMAIN Tape
Writers == {"loop", "thread"}
NoCsv == [columns |-> "none", rows |-> {}, open |-> FALSE]
Resting == [at |-> "idle", rows |-> {}, day |-> 0]

RecorderTypeOK ==
  /\ proc \in {"off", "down", "up", "stopping"} /\ header \in Columns
  /\ {day, current, rolled} \subseteq Calendar
  /\ days \in Seq(Calendar) /\ Len(days) <= Len(Tape)
  /\ buf \subseteq Row
  /\ hand \in [Writers -> [at : {"idle", "flush", "write", "compact", "remove", "purge"},
                           rows : SUBSET Row, day : Calendar]]
  /\ csv \in [Calendar -> [columns : Columns \union {"none"}, rows : SUBSET Row, open : BOOLEAN]]
  /\ {parquet, aside} \subseteq [Calendar -> SUBSET Row]
  /\ {lost, torn} \subseteq SUBSET Row /\ late \subseteq Calendar \X Row /\ cut \subseteq Calendar
  /\ starts \in 0..MaxStarts /\ errs \in 0..MaxErrs

RecorderInit(on) ==
  /\ proc = (IF on THEN "up" ELSE "off") /\ header = CHOOSE c \in Columns : TRUE
  /\ day = 0 /\ current = 0 /\ rolled = 0 /\ days = <<>> /\ buf = {}
  /\ hand = [w \in Writers |-> Resting]
  /\ csv = [d \in Calendar |-> NoCsv]
  /\ parquet = [d \in Calendar |-> {}] /\ aside = [d \in Calendar |-> {}]
  /\ lost = {} /\ torn = {} /\ late = {} /\ cut = {}
  /\ starts = 0 /\ errs = 0

RunsOn == proc \in {"up", "stopping"}
Fail == errs < MaxErrs /\ errs' = errs + 1

----------------------------------------------------------------------------
(* The files.                                                               *)

Earliest(rows) == CHOOSE r \in rows : \A x \in rows : r <= x

\* _rotate_if_schema_changed: the file has other columns.
Rotates(f) == f.columns \notin {"none", header}

\* Mutated form: the file with other columns is begun anew.
SetAside_Over(f) == {}

\* The rows that go on under another name.
SetAside(f) == IF Rotates(f) THEN f.rows ELSE {}

\* The row that ends up in the torn line.
Swallowed(f, rows) == IF f.open /\ ~Rotates(f) THEN {Earliest(rows)} ELSE {}

\* The file after the rows have been appended; a kill leaves its last line open.
Appended(f, rows, killed) ==
  [columns |-> header, open |-> killed,
   rows    |-> (IF Rotates(f) THEN {} ELSE f.rows) \union (rows \ Swallowed(f, rows))]

\* The writer appends the rows.
WriteRows(w, rows, killed) ==
  LET d == hand[w].day IN
  /\ csv' = [csv EXCEPT ![d] = Appended(@, rows, killed)]
  /\ aside' = [aside EXCEPT ![d] = @ \union SetAside(csv[d])]
  /\ late' = late \union (IF d = day THEN {} ELSE {d} \X rows)
  /\ UNCHANGED parquet

----------------------------------------------------------------------------
(* The loop and the thread.                                                 *)

Do(w, at) == hand' = [hand EXCEPT ![w].at = at]

\* What comes after the flush.
AfterFlush(w) == IF w = "loop" THEN "idle" ELSE "compact"

\* record_prices: the buffer is full, or its time has come, or not.
Record ==
  /\ proc = "up" /\ hand["loop"].at = "idle" /\ Len(days) < Len(Tape)
  /\ days' = Append(days, day)
  /\ buf' = buf \union {Len(days) + 1}
  /\ \E at \in {"idle", "flush"} : Do("loop", at)
  /\ UNCHANGED <<proc, header, day, current, rolled, priceFiles, fateVars, starts, errs>>

\* The buffer after a flush has taken its rows.
Rest(rows) == {}

\* flush: the buffer is exchanged under the lock, then the day is asked for.
Take(w) ==
  /\ hand[w].at = "flush"
  /\ hand' = [hand EXCEPT ![w] = IF buf = {} THEN [@ EXCEPT !.at = AfterFlush(w)]
                                 ELSE [at |-> "write", rows |-> buf, day |-> day]]
  /\ buf' = Rest(buf)
  /\ UNCHANGED <<proc, header, day, current, rolled, days, priceFiles, fateVars, starts, errs>>

Writes(w) ==
  /\ RunsOn /\ hand[w].at = "write" /\ WriteRows(w, hand[w].rows, FALSE)
  /\ hand' = [hand EXCEPT ![w] = [Resting EXCEPT !.at = AfterFlush(w)]]
  /\ lost' = lost \union Swallowed(csv[hand[w].day], hand[w].rows)
  /\ UNCHANGED <<proc, header, day, current, rolled, days, buf, torn, cut, starts, errs>>

\* The failure is logged; the rows have left the buffer.
WriteFails(w) ==
  /\ RunsOn /\ hand[w].at = "write" /\ Fail
  /\ hand' = [hand EXCEPT ![w] = [Resting EXCEPT !.at = AfterFlush(w)]]
  /\ lost' = lost \union hand[w].rows
  /\ UNCHANGED <<proc, header, day, current, rolled, days, buf, priceFiles, torn, late, cut, starts>>

\* maintain, in a thread once an hour: only the day this process began with,
\* or saw last, is a day to roll up.
Maintain ==
  /\ proc = "up" /\ hand["thread"].at = "idle" /\ day # current
  /\ rolled' = current /\ current' = day /\ Do("thread", "flush")
  /\ UNCHANGED <<proc, header, day, days, buf, priceFiles, fateVars, starts, errs>>

\* Mutated form: what has been written since midnight.
RolledUp_Today(d) == csv[day].rows

RolledUp(d) == csv[d].rows

\* _compact: the Parquet file, or nothing for a day without a CSV.
Compact ==
  /\ RunsOn /\ hand["thread"].at = "compact"
  /\ Do("thread", IF csv[rolled].columns = "none" THEN "purge" ELSE "remove")
  /\ parquet' = (IF csv[rolled].columns = "none" THEN parquet
                 ELSE [parquet EXCEPT ![rolled] = RolledUp(rolled)])
  /\ UNCHANGED <<proc, header, day, current, rolled, days, buf, csv, aside, fateVars, starts, errs>>

CompactFails ==
  /\ RunsOn /\ hand["thread"].at = "compact" /\ csv[rolled].columns # "none" /\ Fail
  /\ Do("thread", "purge")
  /\ UNCHANGED <<proc, header, day, current, rolled, days, buf, priceFiles, fateVars, starts>>

RemoveCsv ==
  /\ RunsOn /\ hand["thread"].at = "remove" /\ Do("thread", "purge")
  /\ csv' = [csv EXCEPT ![rolled] = NoCsv]
  /\ UNCHANGED <<proc, header, day, current, rolled, days, buf, parquet, aside, fateVars, starts, errs>>

RemoveFails ==
  /\ RunsOn /\ hand["thread"].at = "remove" /\ Fail /\ Do("thread", "purge")
  /\ cut' = cut \union {rolled}
  /\ UNCHANGED <<proc, header, day, current, rolled, days, buf, priceFiles, lost, torn, late, starts>>

\* Mutated form: the comparison includes the day after.
Outlived_Early(d) == d + Retention <= day + 1

\* A day's files outlive the retention once its first moment has.
Outlived(d) == d + Retention <= day

\* _purge_old
Purge ==
  /\ RunsOn /\ hand["thread"].at = "purge" /\ Do("thread", "idle")
  /\ csv' = [d \in Calendar |-> IF Outlived(d) THEN NoCsv ELSE csv[d]]
  /\ parquet' = [d \in Calendar |-> IF Outlived(d) THEN {} ELSE parquet[d]]
  /\ aside' = [d \in Calendar |-> IF Outlived(d) THEN {} ELSE aside[d]]
  /\ UNCHANGED <<proc, header, day, current, rolled, days, buf, fateVars, starts, errs>>

----------------------------------------------------------------------------
(* The process and the clock.                                               *)

Starts ==
  /\ proc = "down" /\ starts < MaxStarts /\ starts' = starts + 1
  /\ proc' = "up" /\ header' \in Columns /\ current' = day
  /\ UNCHANGED <<day, rolled, days, buf, hand, priceFiles, fateVars, errs>>

\* _cleanup: the last flush; a thread under way is waited for.
LastFlush ==
  /\ proc = "up" /\ hand["loop"].at = "idle"
  /\ proc' = "stopping" /\ Do("loop", "flush")
  /\ UNCHANGED <<header, day, current, rolled, days, buf, priceFiles, fateVars, starts, errs>>

Leave ==
  /\ proc = "stopping" /\ \A w \in Writers : hand[w].at = "idle"
  /\ proc' = "down"
  /\ UNCHANGED <<header, day, current, rolled, days, buf, hand, priceFiles, fateVars, starts, errs>>

\* What a kill leaves of the process.
Dies(written) ==
  /\ proc' = "down" /\ buf' = {} /\ hand' = [w \in Writers |-> Resting]
  /\ lost' = lost \union ((buf \union UNION {hand[w].rows : w \in Writers}) \ written)
  /\ cut' = cut \union (IF hand["thread"].at = "remove" THEN {rolled} ELSE {})
  /\ Fail
  /\ UNCHANGED <<header, day, current, rolled, days, starts>>

Killed == RunsOn /\ Dies({}) /\ UNCHANGED <<priceFiles, torn, late>>

\* Killed within a write: the rows before r are whole, r is not.
KilledTears(w) ==
  /\ RunsOn /\ hand[w].at = "write"
  /\ \E r \in hand[w].rows :
       LET written == {x \in hand[w].rows : x <= r} IN
       /\ WriteRows(w, written, TRUE) /\ torn' = torn \union {r}
       /\ Dies(written \ Swallowed(csv[hand[w].day], written))

\* Only days on which something was recorded are looked at.
DayTurns ==
  /\ proc # "off" /\ \E i \in DOMAIN days : days[i] = day
  /\ day < MaxDay /\ day' = day + 1
  /\ UNCHANGED <<proc, header, current, rolled, days, buf, hand, priceFiles, fateVars, starts, errs>>

RecorderNext ==
  \/ Record \/ Maintain \/ Compact \/ CompactFails \/ RemoveCsv \/ RemoveFails \/ Purge
  \/ Starts \/ LastFlush \/ Leave \/ Killed \/ DayTurns
  \/ \E w \in Writers : Take(w) \/ Writes(w) \/ WriteFails(w) \/ KilledTears(w)

----------------------------------------------------------------------------
(* The trainer.                                                             *)

\* load_prices reads every file there is.
OnDisk == UNION {csv[d].rows \union parquet[d] \union aside[d] : d \in Calendar}

\* The last row has passed the deadline of the signal.
Decided(rows, s) == \E r \in rows : r >= s + Horizon

\* label_signal: the first barrier touched before the deadline, of the signal
\* at the time of row s, in the rows there are; "open" when it cannot be told.
LabelOf(rows, s, side) ==
  LET ahead == {r \in rows : r >= s}
      path  == {r \in ahead : r <= s + Horizon}
      move(r) == side * (Tape[r] - Tape[Earliest(ahead)])
      touch == {r \in path : move(r) >= Barrier \/ move(r) <= -Barrier}
      end   == CHOOSE r \in path : \A x \in path : x <= r
  IN IF Cardinality(ahead) < 2 \/ ~Decided(rows, s) \/ Cardinality(path) < 2 THEN "open"
     ELSE IF touch # {} THEN (IF move(Earliest(touch)) > 0 THEN "pt" ELSE "sl")
     ELSE IF move(end) > 0 THEN "up" ELSE "down"

----------------------------------------------------------------------------
(* Properties.                                                              *)

TooLate == {x[2] : x \in late}
\* In the memory of a process that runs.
InHand == IF RunsOn THEN buf \union UNION {hand[w].rows : w \in Writers} ELSE {}

\* data_recorder.py:10-12: what was recorded stays on the disk until its
\* retention has passed.  A recorded row is in the buffer, on its way or in a
\* file, unless a kill or a failed write took it (or the line torn by one), its
\* day is a retention ago, or the loop had asked for the day before midnight
\* and wrote after it, into a file that may be under compaction.
Accounted ==
  \A r \in DOMAIN days :
    r \in InHand \union OnDisk \union lost \union TooLate
    \/ days[r] + Retention <= day

\* The files of a day that hold the row.
Held(d, r) == {f \in {"csv", "parquet", "aside"} :
                 r \in (CASE f = "csv" -> csv[d].rows [] f = "parquet" -> parquet[d] [] OTHER -> aside[d])}

\* No row is in two files, where the trainer would read it twice, but of a day
\* whose compaction is under way or was cut between the Parquet file and the
\* removal, or that the loop wrote to after midnight.
ReadOnce ==
  \A r \in OnDisk :
    \/ Cardinality({x \in Calendar \X {"csv", "parquet", "aside"} : x[2] \in Held(x[1], r)}) = 1
    \/ \E d \in Calendar : /\ Held(d, r) # {}
                           /\ d \in cut \/ d \in {x[1] : x \in late}
                              \/ (rolled = d /\ hand["thread"].at = "remove")

\* A label, once given, is the right one: after maintain, the label a signal
\* gets from the files is the one its rows give however many come later, so a
\* sample never changes; rows lost are as if never recorded, and a signal with
\* a torn line in its path is left out.
LabelsLast ==
  hand["thread"].at = "idle" =>
    \A s \in DOMAIN days, side \in {1, -1} :
      LET given == LabelOf(OnDisk, s, side)
          kept == OnDisk \union (DOMAIN days \ (lost \union TooLate))
      IN (given # "open" /\ days[s] + Retention > day
            /\ torn \intersect s..(s + Horizon) = {}) =>
           given = LabelOf(kept, s, side)

\* What was recorded is there, once, and what is learnt from it does not change.
RecordKept == RecorderTypeOK /\ Accounted /\ ReadOnce /\ LabelsLast
=============================================================================
