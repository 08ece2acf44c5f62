------------------------- MODULE ProtectExitProofs -------------------------
(***************************************************************************)
(* Proofs about ProtectExit for every value of its constants: the          *)
(* variables stay in their ranges; a trade that calls itself protected has *)
(* a resting stop at its stop price or better; the handlers ask for no     *)
(* transition the table forbids; the best resting stop never gets worse;   *)
(* and a target level is sold at most once.                                *)
(***************************************************************************)
EXTENDS ProtectExit, TLAPS, WellFoundedInduction

USE ProtectAssumption

----------------------------------------------------------------------------
(* Types of the parts, and what the updates of the record keep. *)

BudType == [fault: 0..MaxFaults, reject: 0..MaxRejects, ext: 0..MaxExternal,
            lost: 0..MaxLost, crash: 0..MaxCrashes]

\* What no other invariant speaks about.
Others == /\ tp \in [Targets -> TargetOrder]
          /\ slRow \in [Stops -> RowStatus] /\ tpRow \in [Targets -> RowStatus]
          /\ bud \in BudType

LEMMA TypeParts ==
  TypeOK <=> /\ pos \in 0..Qty /\ sl \in [Stops -> StopOrder] /\ ev \subseteq Event
             /\ t \in TradeRecord /\ pc \in Pc /\ h \in Frame /\ Others
  BY DEF TypeOK, Others, BudType

LEMMA TypePartsNext ==
  ASSUME pos' \in 0..Qty, sl' \in [Stops -> StopOrder], ev' \subseteq Event,
         t' \in TradeRecord, pc' \in Pc, h' \in Frame, Others'
  PROVE  TypeOK'
  BY DEF TypeOK, Others, BudType

LEMMA MaxSlNat == MaxSl \in Nat /\ MaxSl >= 2
  BY DEF MaxSl

LEMMA NoFrameTyped == NoFrame \in Frame /\ NoFrame.job = "none"
  BY MaxSlNat DEF NoFrame, Frame

LEMMA StatusTyped == \A st : Status(st) \in RowStatus
  BY DEF Status, RowStatus, RowPending

LEMMA StateNames ==
  /\ "ENTRY_FILLED" \in TradeState /\ "PROTECTING" \in TradeState
  /\ "PROTECTED" \in TradeState /\ "CLOSING" \in TradeState /\ "CLOSED" \in TradeState
  /\ "ERROR" \in TradeState /\ "RECOVERY_REQUIRED" \in TradeState
  /\ Holding \subseteq TradeState /\ "PROTECTED" \in Holding
  BY DEF TradeState, WithPosition, Holding

\* q is a record like r in what protects the position.
Keeps(q, r) == /\ q \in TradeRecord
               /\ q.stop = r.stop /\ q.stopId = r.stopId
               /\ q.nsl = r.nsl /\ q.ntp = r.ntp

WithSt(r, s)      == [r EXCEPT !.st = s]
WithClosing(r)    == [r EXCEPT !.st = "CLOSING", !.cr = TRUE]
WithLogic(r, lvl) == [r EXCEPT !.logic = lvl]
WithFilled(r, l)  == [r EXCEPT !.filled = @ \union {l}]
WithStopId(r, n)  == [r EXCEPT !.stopId = n]
WithStop(r, lvl)  == [r EXCEPT !.stop = lvl]
WithNsl(r, n)     == [r EXCEPT !.nsl = n]
WithNtp(r, l, n)  == [r EXCEPT !.ntp[l] = n]

LEMMA KeepsItself == ASSUME NEW r \in TradeRecord PROVE Keeps(r, r)
  BY DEF Keeps

LEMMA StUpdate ==
  ASSUME NEW r \in TradeRecord, NEW s \in TradeState
  PROVE  Keeps(WithSt(r, s), r) /\ WithSt(r, s).st = s
  BY DEF Keeps, WithSt, TradeRecord

LEMMA ClosingUpdate ==
  ASSUME NEW r \in TradeRecord
  PROVE  Keeps(WithClosing(r), r) /\ WithClosing(r).st = "CLOSING"
  BY StateNames DEF Keeps, WithClosing, TradeRecord

LEMMA LogicUpdate ==
  ASSUME NEW r \in TradeRecord, NEW lvl \in 0..MaxLvl
  PROVE  Keeps(WithLogic(r, lvl), r) /\ WithLogic(r, lvl).st = r.st
  BY DEF Keeps, WithLogic, TradeRecord

LEMMA FilledUpdate ==
  ASSUME NEW r \in TradeRecord, NEW l \in Levels
  PROVE  Keeps(WithFilled(r, l), r) /\ WithFilled(r, l).st = r.st
  BY DEF Keeps, WithFilled, TradeRecord

LEMMA StopIdUpdate ==
  ASSUME NEW r \in TradeRecord, NEW n \in 0..MaxSl
  PROVE  LET q == WithStopId(r, n) IN
         /\ q \in TradeRecord /\ q.st = r.st /\ q.stop = r.stop /\ q.stopId = n
         /\ q.nsl = r.nsl /\ q.ntp = r.ntp
  BY DEF WithStopId, TradeRecord

LEMMA StopUpdate ==
  ASSUME NEW r \in TradeRecord, NEW lvl \in 0..MaxLvl
  PROVE  LET q == WithStop(r, lvl) IN
         /\ q \in TradeRecord /\ q.st = r.st /\ q.stop = lvl /\ q.stopId = r.stopId
         /\ q.nsl = r.nsl /\ q.ntp = r.ntp
  BY DEF WithStop, TradeRecord

LEMMA NslUpdate ==
  ASSUME NEW r \in TradeRecord, NEW n \in 0..MaxSl
  PROVE  LET q == WithNsl(r, n) IN
         /\ q \in TradeRecord /\ q.st = r.st /\ q.stop = r.stop /\ q.stopId = r.stopId
         /\ q.nsl = n /\ q.ntp = r.ntp
  BY DEF WithNsl, TradeRecord

LEMMA NtpUpdate ==
  ASSUME NEW r \in TradeRecord, NEW l \in Levels, NEW n \in 0..MaxTp
  PROVE  LET q == WithNtp(r, l, n) IN
         /\ q \in TradeRecord /\ q.st = r.st /\ q.stop = r.stop /\ q.stopId = r.stopId
         /\ q.nsl = r.nsl /\ q.ntp = [r.ntp EXCEPT ![l] = n]
  BY DEF WithNtp, TradeRecord

LEMMA LabelHolds == \A r : Label(r) \in Holding
  BY DEF Label, ProgressState, Holding

\* refresh_state only changes the label, and only between holding states.
LEMMA RefreshedUpdate ==
  ASSUME NEW r \in TradeRecord
  PROVE  /\ Keeps(Refreshed(r), r)
         /\ Refreshed(r).st \in Holding <=> r.st \in Holding
         /\ r.st \notin Holding => Refreshed(r).st = r.st
<1>1. \/ Refreshed(r) = r
      \/ r.st \in Holding /\ Refreshed(r) = WithSt(r, Label(r))
  BY Zenon DEF Refreshed, WithSt
<1>2. Label(r) \in TradeState /\ Label(r) \in Holding
  BY LabelHolds, StateNames
<1> QED
  BY <1>1, <1>2, StUpdate, KeepsItself

----------------------------------------------------------------------------
(* What the handlers' common parts do. *)

LEMMA Budget ==
  ASSUME TypeOK, bud' = bud \/ Fault
  PROVE  bud' \in BudType /\ bud'.ext = bud.ext /\ bud'.reject = bud.reject
<1>1. bud \in BudType
  BY DEF TypeOK, BudType
<1>2. CASE Fault
  BY <1>1, <1>2 DEF Fault, BudType
<1> QED
  BY <1>1, <1>2

\* A frame with a new return point, and nothing else.
Returning(f) == f \in Frame /\ f.job = "none"

LEMMA ReturnFrame ==
  ASSUME NEW r \in {"idle", "sweep"}
  PROVE  Returning([NoFrame EXCEPT !.ret = r])
  BY NoFrameTyped DEF Returning, Frame

LEMMA DoneDoes ==
  ASSUME TypeOK, Done
  PROVE  pc' \in {"idle", "sweep"} /\ h' = NoFrame /\ Returning(h')
<1>1. h \in Frame
  BY DEF TypeOK
<1>2. h.ret \in {"idle", "sweep"}
  BY <1>1 DEF Frame
<1> QED
  BY <1>2, NoFrameTyped DEF Done, Returning

LEMMA CloseNowDoes ==
  ASSUME TypeOK, NEW r, Keeps(r, t), CloseNow(r)
  PROVE  Keeps(t', t) /\ t'.st = "CLOSING" /\ pc' = "closetp" /\ Returning(h')
<1>1. h \in Frame
  BY DEF TypeOK
<1>2. h.ret \in {"idle", "sweep"}
  BY <1>1 DEF Frame
<1>3. Returning(h')
  BY <1>2, ReturnFrame DEF CloseNow
<1>4. t' = WithClosing(r) /\ r \in TradeRecord
  BY DEF CloseNow, WithClosing, Keeps
<1> QED
  BY <1>3, <1>4, ClosingUpdate DEF CloseNow, Keeps

LEMMA OnFlatDoes ==
  ASSUME TypeOK, NEW r, Keeps(r, t), OnFlat(r)
  PROVE  Keeps(t', t) /\ t'.st = "CLOSING" /\ pc' = "final" /\ Returning(h')
<1>1. h \in Frame
  BY DEF TypeOK
<1>2. h.ret \in {"idle", "sweep"}
  BY <1>1 DEF Frame
<1>3. Returning(h')
  BY <1>2, ReturnFrame DEF OnFlat
<1>4. t' = WithClosing(r) /\ r \in TradeRecord
  BY DEF OnFlat, WithClosing, Keeps
<1> QED
  BY <1>3, <1>4, ClosingUpdate DEF OnFlat, Keeps

----------------------------------------------------------------------------
(* Initially. *)

LEMMA InitInv == Init => IInv
<1> SUFFICES ASSUME Init PROVE IInv
  OBVIOUS
<1>1. t = [st |-> "ENTRY_FILLED", stop |-> 0, logic |-> 0, stopId |-> 0, nsl |-> 0,
           ntp |-> [l \in Levels |-> 0], filled |-> {}, cr |-> FALSE]
  BY DEF Init
<1>2. t \in TradeRecord /\ t.st = "ENTRY_FILLED" /\ t.stopId = 0 /\ t.nsl = 0
  BY <1>1, StateNames, MaxSlNat DEF TradeRecord
<1>3. /\ pos \in 0..Qty /\ sl \in [Stops -> StopOrder] /\ ev \subseteq Event /\ pc \in Pc
      /\ \A n \in Stops : sl[n].st = "none"
  BY MaxSlNat DEF Init, StopOrder, Pc
<1>4. Others
  <2>1. bud \in BudType
    BY DEF Init, BudType
  <2> QED
    BY <2>1 DEF Init, Others, TargetOrder, RowStatus
<1>5. TypeOK
  BY <1>2, <1>3, <1>4, NoFrameTyped, TypeParts DEF Init
<1>6. StopsInOrder
  BY <1>2, <1>3 DEF StopsInOrder
<1>7. pc = "guard0" /\ h = NoFrame /\ ev = {}
  BY DEF Init
<1>8. FrameOK
  BY <1>7 DEF FrameOK, ClosePc
<1>9. NeverMissed
  BY <1>2, <1>7, NoFrameTyped DEF NeverMissed
<1>10. Covered
  BY <1>2 DEF Covered, Holding
<1> QED
  BY <1>5, <1>6, <1>8, <1>9, <1>10 DEF IInv

----------------------------------------------------------------------------
(* Steps of the exchange: the record and the task stand still. *)

Marked(f, n, s) == [f EXCEPT ![n].st = s]

LEMMA MarkedStop ==
  ASSUME sl \in [Stops -> StopOrder], NEW n \in Stops,
         NEW s \in {"none", "flight", "open", "fired", "gone"}
  PROVE  /\ Marked(sl, n, s) \in [Stops -> StopOrder]
         /\ \A m \in Stops : /\ Marked(sl, n, s)[m].lvl = sl[m].lvl
                             /\ m /= n => Marked(sl, n, s)[m].st = sl[m].st
                             /\ m = n => Marked(sl, n, s)[m].st = s
  BY DEF Marked, StopOrder

\* What such a step must show of the stops: levels stay, an open one stays open
\* or fires, and there are none beyond the numbers drawn.
SoundStops == /\ sl' \in [Stops -> StopOrder]
              /\ \A n \in Stops : /\ sl'[n].lvl = sl[n].lvl
                                  /\ n > t.nsl => sl'[n].st = "none"
                                  /\ sl'[n].st = "flight" => sl[n].st = "flight"
                                  /\ sl'[n].st = "fired" => pos' = 0
TargetsSound == \A i \in Targets : tp'[i] = "flight" => tp[i] = "flight"
StopsStay == \A n \in Stops : sl[n].st \in {"open", "fired"} => sl'[n].st \in {"open", "fired"}

LEMMA HandsOff ==
  ASSUME IInv, UNCHANGED <<t, pc, h>>, pos' \in 0..Qty, pos' <= pos,
         SoundStops, TargetsSound, ev' \subseteq Event, Others',
         Untouched' => /\ Untouched /\ StopsStay
                       /\ \A e \in ev' : e.kind /= "gone"
  PROVE  IInv'
<1>1. /\ TypeOK /\ t' = t /\ pc' = pc /\ h' = h
      /\ t.nsl \in 0..MaxSl /\ t.stopId \in 0..MaxSl /\ h.old \in 0..MaxSl /\ pos \in 0..Qty
      /\ t \in TradeRecord /\ pc \in Pc /\ h \in Frame
  BY DEF IInv, TypeOK, TradeRecord, Frame
<1>2. TypeOK'
  BY <1>1, TypePartsNext DEF SoundStops
<1>3. StopsInOrder'
  BY <1>1 DEF IInv, StopsInOrder, SoundStops
<1>4. FrameOK'
  <2>1. t.stopId < t.nsl => sl'[t.nsl].lvl = sl[t.nsl].lvl
    BY <1>1, MaxSlNat DEF SoundStops, Stops
  <2>2. h.old < t.nsl => sl'[t.nsl].lvl = sl[t.nsl].lvl
    BY <1>1, MaxSlNat DEF SoundStops, Stops
  <2>3. pc = "verify" => sl'[t.nsl].st /= "flight"
    BY <1>1, MaxSlNat DEF IInv, FrameOK, SoundStops, Stops
  <2>4. (pc = "tpsent" /\ tp'[Sent] = "flight") => tp[Sent] = "flight"
    <3> SUFFICES ASSUME pc = "tpsent" PROVE Sent \in Targets
      BY DEF TargetsSound
    <3>1. h.lev \in Levels /\ t.ntp[h.lev] \in 1..MaxTp
      BY <1>1 DEF IInv, FrameOK, TradeRecord
    <3> QED
      BY <3>1 DEF Sent, Targets
  <2>5. Sent' = Sent
    BY <1>1 DEF Sent
  <2> QED
    BY <1>1, <2>1, <2>2, <2>3, <2>4, <2>5 DEF IInv, FrameOK
<1>5. NeverMissed'
  <2> SUFFICES ASSUME Untouched' PROVE NeverMissed'
    BY DEF NeverMissed
  <2>1. Untouched /\ StopsStay /\ \A e \in ev' : e.kind /= "gone"
    OBVIOUS
  <2>2. pc = "moved" => t.nsl \in Stops
    BY <1>1, MaxSlNat DEF IInv, FrameOK, Stops
  <2>3. pos' > 0 => pos > 0
    BY <1>1
  <2> QED
    BY <1>1, <2>1, <2>2, <2>3 DEF IInv, NeverMissed, StopsStay
<1>6. Covered'
  <2> SUFFICES ASSUME Untouched', t.st \in Holding, pos' > 0
               PROVE  \E n \in OpenStops' : sl'[n].lvl >= t.stop
    BY <1>1 DEF Covered
  <2>1. PICK n \in OpenStops : sl[n].lvl >= t.stop
    BY <1>1 DEF IInv, Covered
  <2>2. n \in Stops /\ sl'[n].st \in {"open", "fired"} /\ sl'[n].lvl = sl[n].lvl
    BY DEF OpenStops, StopsStay, SoundStops
  <2>3. sl'[n].st = "open"
    BY <2>2 DEF SoundStops
  <2> QED
    BY <2>1, <2>2, <2>3 DEF OpenStops
<1> QED
  BY <1>2, <1>3, <1>4, <1>5, <1>6 DEF IInv

\* No stop changes.
LEMMA StopsSame ==
  ASSUME IInv, sl' = sl, pos' \in 0..Qty, pos' <= pos
  PROVE  SoundStops /\ StopsStay /\ (OpenStops' = OpenStops)
  BY DEF IInv, TypeOK, StopsInOrder, SoundStops, StopsStay, OpenStops

LEMMA TargetsSame == ASSUME tp' = tp PROVE TargetsSound
  BY DEF TargetsSound

LEMMA NewEvents ==
  ASSUME IInv, NEW E, E \subseteq {[kind |-> "flat"]} \union [kind : {"tp"}, l : Levels],
         ev' \subseteq ev \union E
  PROVE  ev' \subseteq Event /\ (Untouched => \A e \in ev' : e.kind /= "gone")
  BY DEF IInv, TypeOK, NeverMissed, Event

LEMMA FlattenedEvents == \A p : Flattened(p) \subseteq {[kind |-> "flat"]}
  BY DEF Flattened

LEMMA OthersKept ==
  ASSUME IInv, UNCHANGED <<slRow, tpRow, bud>>, tp' \in [Targets -> TargetOrder]
  PROVE  Others' /\ (Untouched' <=> Untouched)
  BY DEF IInv, TypeOK, Others, BudType, Untouched

LEMMA StopLandsInv == ASSUME IInv, NEW n \in Stops, StopLands(n) PROVE IInv'
<1>1. TypeOK /\ sl[n].st = "flight" /\ sl' = Marked(sl, n, "open") /\ sl \in [Stops -> StopOrder]
  BY DEF IInv, TypeOK, StopLands, Marked
<1>2. UNCHANGED <<pos, tp, ev, t, slRow, tpRow, pc, h, bud>>
  BY DEF StopLands, rows
<1>3. SoundStops /\ StopsStay
  <2>1. /\ sl' \in [Stops -> StopOrder]
        /\ \A m \in Stops : /\ sl'[m].lvl = sl[m].lvl
                            /\ m /= n => sl'[m].st = sl[m].st
                            /\ m = n => sl'[m].st = "open"
    BY <1>1, MarkedStop
  <2> QED
    BY <1>1, <1>2, <2>1 DEF IInv, StopsInOrder, SoundStops, StopsStay
<1>4. pos' \in 0..Qty /\ pos' <= pos /\ tp' \in [Targets -> TargetOrder]
  BY <1>1, <1>2 DEF TypeOK
<1>5. ev' \subseteq Event /\ (Untouched => \A e \in ev' : e.kind /= "gone")
  BY <1>2, NewEvents, Zenon
<1> QED
  BY <1>2, <1>3, <1>4, <1>5, HandsOff, OthersKept, TargetsSame

LEMMA StopFiresInv == ASSUME IInv, NEW n \in Stops, StopFires(n) PROVE IInv'
<1>1. TypeOK /\ sl[n].st = "open" /\ sl' = Marked(sl, n, "fired") /\ sl \in [Stops -> StopOrder]
  BY DEF IInv, TypeOK, StopFires, Marked, OpenStops
<1>2. UNCHANGED <<tp, t, slRow, tpRow, pc, h, bud>> /\ pos' = 0 /\ ev' = ev \union Flattened(0)
  BY DEF StopFires, rows
<1>3. SoundStops /\ StopsStay
  <2>1. /\ sl' \in [Stops -> StopOrder]
        /\ \A m \in Stops : /\ sl'[m].lvl = sl[m].lvl
                            /\ m /= n => sl'[m].st = sl[m].st
                            /\ m = n => sl'[m].st = "fired"
    BY <1>1, MarkedStop
  <2> QED
    BY <1>1, <1>2, <2>1 DEF IInv, StopsInOrder, SoundStops, StopsStay
<1>4. pos' \in 0..Qty /\ pos' <= pos /\ tp' \in [Targets -> TargetOrder]
  BY <1>1, <1>2 DEF TypeOK
<1>5. ev' \subseteq Event /\ (Untouched => \A e \in ev' : e.kind /= "gone")
  <2>1. Flattened(0) \subseteq {[kind |-> "flat"]} \union [kind : {"tp"}, l : Levels]
    BY FlattenedEvents
  <2> QED
    BY <1>2, <2>1, NewEvents
<1> QED
  BY <1>2, <1>3, <1>4, <1>5, HandsOff, OthersKept, TargetsSame

\* A sale of one contract, or nothing.
TargetMove(i) == \/ pos' = pos /\ ev' = ev
                 \/ /\ pos > 0 /\ pos' = pos - 1
                    /\ ev' = ev \union {[kind |-> "tp", l |-> i[1]]} \union Flattened(pos')

LEMMA TargetMoveInv ==
  ASSUME IInv, NEW i \in Targets, TargetMove(i), tp' \in [Targets -> TargetOrder],
         TargetsSound,
         UNCHANGED <<sl, t, slRow, tpRow, pc, h, bud>>
  PROVE  IInv'
<1>1. pos \in 0..Qty
  BY DEF IInv, TypeOK
<1>2. pos' \in 0..Qty /\ pos' <= pos
  BY <1>1 DEF TargetMove
<1>3. ev' \subseteq Event /\ (Untouched => \A e \in ev' : e.kind /= "gone")
  <2> DEFINE E == {[kind |-> "tp", l |-> i[1]]} \union Flattened(pos')
  <2>1. i[1] \in Levels
    BY DEF Targets
  <2>2. E \subseteq {[kind |-> "flat"]} \union [kind : {"tp"}, l : Levels]
    BY <2>1, FlattenedEvents
  <2>3. ev' \subseteq ev \union E
    BY DEF TargetMove
  <2> HIDE DEF E
  <2> QED
    BY <2>2, <2>3, NewEvents
<1>4. Others' /\ (Untouched' <=> Untouched)
  BY OthersKept
<1>5. SoundStops /\ StopsStay
  BY <1>2, StopsSame
<1> QED
  BY <1>2, <1>3, <1>4, <1>5, HandsOff

LEMMA TargetMark ==
  ASSUME IInv, NEW i \in Targets, NEW s \in TargetOrder
  PROVE  /\ [tp EXCEPT ![i] = s] \in [Targets -> TargetOrder]
         /\ (s /= "flight" /\ tp' = [tp EXCEPT ![i] = s]) => TargetsSound
  BY DEF IInv, TypeOK, TargetsSound

LEMMA TargetLandsInv == ASSUME IInv, NEW i \in Targets, TargetLands(i) PROVE IInv'
<1>1. \E s \in {"open", "fired", "gone"} : tp' = [tp EXCEPT ![i] = s]
  BY Zenon DEF TargetLands
<1>2. tp' \in [Targets -> TargetOrder] /\ TargetsSound
  BY <1>1, TargetMark, ZenonT(30) DEF TargetOrder
<1>3. TargetMove(i)
  BY DEF TargetLands, TargetMove
<1>4. UNCHANGED <<sl, t, slRow, tpRow, pc, h, bud>>
  BY DEF TargetLands, rows
<1> QED
  BY <1>2, <1>3, <1>4, TargetMoveInv

LEMMA TargetFiresInv == ASSUME IInv, NEW i \in Targets, TargetFires(i) PROVE IInv'
<1>1. tp' = [tp EXCEPT ![i] = "fired"]
  BY DEF TargetFires
<1>2. tp' \in [Targets -> TargetOrder] /\ TargetsSound
  BY <1>1, TargetMark DEF TargetOrder
<1>3. TargetMove(i) /\ UNCHANGED <<sl, t, slRow, tpRow, pc, h, bud>>
  BY DEF TargetFires, TargetMove, rows
<1> QED
  BY <1>2, <1>3, TargetMoveInv

LEMMA RequestDiesInv == ASSUME IInv, RequestDies PROVE IInv'
<1>1. UNCHANGED <<pos, ev, t, slRow, tpRow, pc, h, bud>>
  BY DEF RequestDies, rows
<1>2. pos' \in 0..Qty /\ pos' <= pos
  BY <1>1 DEF IInv, TypeOK
<1>3. ev' \subseteq Event /\ (Untouched => \A e \in ev' : e.kind /= "gone")
  BY <1>1, NewEvents, Zenon
<1>4. CASE \E n \in Stops : sl[n].st = "flight" /\ sl' = [sl EXCEPT ![n].st = "none"]
           /\ UNCHANGED tp
  <2>1. PICK n \in Stops : sl[n].st = "flight" /\ sl' = Marked(sl, n, "none") /\ tp' = tp
    BY <1>4 DEF Marked
  <2>2. /\ sl' \in [Stops -> StopOrder]
        /\ \A m \in Stops : /\ sl'[m].lvl = sl[m].lvl
                            /\ m /= n => sl'[m].st = sl[m].st
                            /\ m = n => sl'[m].st = "none"
    BY <2>1, MarkedStop DEF IInv, TypeOK
  <2>3. SoundStops /\ StopsStay
    BY <1>1, <2>1, <2>2 DEF IInv, StopsInOrder, SoundStops, StopsStay
  <2>4. Others' /\ (Untouched' <=> Untouched)
    BY <1>1, <2>1, OthersKept DEF IInv, TypeOK
  <2> QED
    BY <1>1, <1>2, <1>3, <2>1, <2>3, <2>4, HandsOff, TargetsSame
<1>5. CASE \E i \in Targets : tp' = [tp EXCEPT ![i] = "none"] /\ sl' = sl
  <2>1. PICK i \in Targets : tp' = [tp EXCEPT ![i] = "none"] /\ sl' = sl
    BY <1>5
  <2>2. tp' \in [Targets -> TargetOrder] /\ TargetsSound
    BY <2>1, TargetMark DEF TargetOrder
  <2> QED
    BY <1>1, <2>1, <2>2, TargetMoveInv DEF TargetMove
<1> QED
  BY <1>4, <1>5 DEF RequestDies

LEMMA ExternalInv == ASSUME IInv, External PROVE IInv'
<1>1. UNCHANGED <<t, slRow, tpRow, pc, h>> /\ bud' = [bud EXCEPT !.ext = @ + 1]
      /\ bud.ext < MaxExternal
  BY DEF External, rows
<1>2. bud' \in BudType /\ bud'.ext > 0
  BY <1>1 DEF IInv, TypeOK, BudType
<1>3. ~Untouched'
  BY <1>2 DEF Untouched
<1>4. TypeOK
  BY DEF IInv
<1>5. CASE \E n \in OpenStops : /\ sl' = [sl EXCEPT ![n].st = "gone"]
                                /\ ev' = ev \union {[kind |-> "gone", n |-> n]}
                                /\ UNCHANGED <<pos, tp>>
  <2>1. PICK n \in Stops : /\ sl[n].st = "open" /\ sl' = Marked(sl, n, "gone")
                           /\ ev' = ev \union {[kind |-> "gone", n |-> n]}
                           /\ UNCHANGED <<pos, tp>>
    BY <1>5 DEF OpenStops, Marked
  <2>2. /\ sl' \in [Stops -> StopOrder]
        /\ \A m \in Stops : /\ sl'[m].lvl = sl[m].lvl
                            /\ m /= n => sl'[m].st = sl[m].st
                            /\ m = n => sl'[m].st = "gone"
    BY <1>4, <2>1, MarkedStop DEF TypeOK
  <2>3. SoundStops
    BY <1>1, <2>1, <2>2 DEF IInv, StopsInOrder, SoundStops
  <2>4. Others' /\ pos' \in 0..Qty /\ pos' <= pos
    BY <1>1, <1>2, <1>4, <2>1 DEF TypeOK, Others
  <2>5. ev' \subseteq Event
    BY <1>4, <2>1 DEF TypeOK, Event
  <2> QED
    BY <1>1, <1>3, <2>1, <2>3, <2>4, <2>5, HandsOff, TargetsSame
<1>6. CASE \E i \in OpenTargets : tp' = [tp EXCEPT ![i] = "gone"] /\ UNCHANGED <<pos, sl, ev>>
  <2>1. PICK i \in Targets : tp' = [tp EXCEPT ![i] = "gone"] /\ UNCHANGED <<pos, sl, ev>>
    BY <1>6 DEF OpenTargets
  <2>2. tp' \in [Targets -> TargetOrder] /\ TargetsSound
    BY <2>1, TargetMark DEF TargetOrder
  <2>3. Others' /\ pos' \in 0..Qty /\ pos' <= pos /\ ev' \subseteq Event
    BY <1>1, <1>2, <1>4, <2>1, <2>2 DEF TypeOK, Others
  <2>4. SoundStops
    BY <2>1, <2>3, StopsSame
  <2> QED
    BY <1>1, <1>3, <2>2, <2>3, <2>4, HandsOff
<1>7. CASE pos > 0 /\ pos' = 0 /\ ev' = ev \union Flattened(0) /\ UNCHANGED <<sl, tp>>
  <2>1. Others' /\ pos' \in 0..Qty /\ pos' <= pos
    BY <1>1, <1>2, <1>4, <1>7 DEF TypeOK, Others
  <2>2. ev' \subseteq Event
    BY <1>4, <1>7, FlattenedEvents DEF TypeOK, Event
  <2>3. SoundStops
    BY <1>7, <2>1, StopsSame
  <2> QED
    BY <1>1, <1>3, <1>7, <2>1, <2>2, <2>3, HandsOff, TargetsSame
<1> QED
  BY <1>5, <1>6, <1>7 DEF External

LEMMA EventsLostInv == ASSUME IInv, EventsLost PROVE IInv'
<1>1. /\ UNCHANGED <<pos, sl, tp, t, slRow, tpRow, pc, h>> /\ ev' = {}
      /\ bud.lost < MaxLost /\ bud' = [bud EXCEPT !.lost = @ + 1]
  BY DEF EventsLost, exchange, rows
<1>2. bud' \in BudType /\ (Untouched' <=> Untouched)
  BY <1>1 DEF IInv, TypeOK, BudType, Untouched
<1>3. Others' /\ pos' \in 0..Qty /\ pos' <= pos
  BY <1>1, <1>2 DEF IInv, TypeOK, Others
<1>4. SoundStops /\ StopsStay
  BY <1>1, <1>3, StopsSame
<1> QED
  BY <1>1, <1>2, <1>3, <1>4, HandsOff, TargetsSame

LEMMA ExchangeInv == ASSUME IInv, Exchange PROVE IInv'
  BY StopLandsInv, StopFiresInv, TargetLandsInv, TargetFiresInv, RequestDiesInv,
     ExternalInv, EventsLostInv, Zenon DEF Exchange

----------------------------------------------------------------------------
(* Steps of a handler that leave the record's protection as it is. *)

SameHands == Untouched' => Untouched

\* What such a step must show: the record keeps what protects the position,
\* the trade does not begin to call itself protected, and so on.
QuietRecord == /\ t' \in TradeRecord
               /\ t'.stop = t.stop /\ t'.nsl = t.nsl /\ t'.stopId <= t.nsl
               /\ t'.st \in Holding =>
                    \/ t.st \in Holding
                    \/ Untouched => pos = 0
               /\ t'.st = "RECOVERY_REQUIRED" =>
                    \/ t.st = "RECOVERY_REQUIRED"
                    \/ Untouched => pos = 0

\* ... and that no open stop goes while the trade calls itself protected.
QuietStops == /\ pos' \in 0..Qty /\ pos' <= pos /\ SoundStops
              /\ (Untouched /\ t'.st \in Holding) => StopsStay

LEMMA StillStops == ASSUME IInv, UNCHANGED <<pos, sl>> PROVE QuietStops
<1>1. pos' \in 0..Qty /\ pos' <= pos
  BY DEF IInv, TypeOK
<1> QED
  BY <1>1, StopsSame DEF QuietStops

LEMMA Quiet ==
  ASSUME IInv, QuietStops, QuietRecord, pc' \in Pc, h' \in Frame,
         ev' \subseteq ev, Others', SameHands, FrameOK',
         Untouched' => h'.job /= "replace" /\ pc' \notin {"replace", "moved"}
  PROVE  IInv'
<1>1. TypeOK /\ t \in TradeRecord /\ t' \in TradeRecord
  BY DEF IInv, TypeOK, QuietRecord
<1>2. /\ pos \in 0..Qty /\ pos' \in 0..Qty /\ pos' <= pos /\ SoundStops
      /\ (Untouched /\ t'.st \in Holding) => StopsStay
  BY <1>1 DEF QuietStops, TypeOK
<1>3. /\ t'.stop = t.stop /\ t'.nsl = t.nsl /\ t'.stopId <= t.nsl
      /\ t'.st \in Holding =>
           \/ t.st \in Holding
           \/ Untouched => pos = 0
      /\ t'.st = "RECOVERY_REQUIRED" =>
           \/ t.st = "RECOVERY_REQUIRED"
           \/ Untouched => pos = 0
  BY DEF QuietRecord
<1>4. Untouched' => Untouched
  BY DEF SameHands
<1>5. TypeOK'
  BY <1>1, <1>2, TypePartsNext DEF TypeOK, SoundStops
<1>6. StopsInOrder'
  BY <1>2, <1>3 DEF IInv, StopsInOrder, SoundStops
<1>7. NeverMissed'
  BY <1>2, <1>3, <1>4 DEF IInv, NeverMissed
<1>8. Covered'
  <2> SUFFICES ASSUME Untouched', Untouched, t'.st \in Holding, pos' > 0
               PROVE  \E n \in OpenStops' : sl'[n].lvl >= t.stop
    BY <1>3, <1>4 DEF Covered
  <2>1. PICK n \in OpenStops : sl[n].lvl >= t.stop
    BY <1>2, <1>3 DEF IInv, Covered
  <2>2. n \in Stops /\ sl'[n].st \in {"open", "fired"} /\ sl'[n].lvl = sl[n].lvl
    BY <1>2 DEF OpenStops, StopsStay, SoundStops
  <2>3. sl'[n].st = "open"
    BY <1>2, <2>2 DEF SoundStops
  <2> QED
    BY <2>1, <2>2, <2>3 DEF OpenStops
<1> QED
  BY <1>5, <1>6, <1>7, <1>8 DEF IInv

\* Where FrameOK asks nothing, or only that the trade is closing.
Plain == {"idle", "sweep", "guard0", "rq", "ralgos", "down", "tps", "flat"}

LEMMA PlainFrame ==
  ASSUME \/ pc' \in Plain
         \/ pc' \in ClosePc /\ t'.st = "CLOSING"
  PROVE  FrameOK' /\ pc' \in Pc /\ pc' \notin {"replace", "moved"}
  BY DEF FrameOK, Plain, ClosePc, Pc

LEMMA QuietPlain ==
  ASSUME IInv, QuietStops, QuietRecord, h' \in Frame, h'.job \in {"none", h.job},
         ev' \subseteq ev, Others', SameHands,
         \/ pc' \in Plain
         \/ pc' \in ClosePc /\ t'.st = "CLOSING"
  PROVE  IInv'
<1>1. Untouched' => h'.job /= "replace"
  BY DEF IInv, NeverMissed, SameHands
<1> QED
  BY <1>1, PlainFrame, Quiet

\* The usual ways a handler leaves the record.
LEMMA RecordKept ==
  ASSUME IInv, Keeps(t', t), \/ t'.st \in Holding => t.st \in Holding
                             \/ Untouched => pos = 0,
         \/ t'.st = "RECOVERY_REQUIRED" => t.st = "RECOVERY_REQUIRED"
         \/ Untouched => pos = 0
  PROVE  QuietRecord
<1>1. t.stopId <= t.nsl
  BY DEF IInv, StopsInOrder
<1> QED
  BY <1>1 DEF QuietRecord, Keeps

LEMMA RecordSame == ASSUME IInv, t' = t PROVE QuietRecord
<1>1. Keeps(t', t)
  BY KeepsItself DEF IInv, TypeOK
<1> QED
  BY <1>1, RecordKept

LEMMA RecordSt ==
  ASSUME IInv, NEW s \in TradeState, t' = WithSt(t, s),
         s \notin Holding, s /= "RECOVERY_REQUIRED"
  PROVE  QuietRecord /\ t'.st = s
<1>1. Keeps(t', t) /\ t'.st = s
  BY StUpdate DEF IInv, TypeOK
<1> QED
  BY <1>1, RecordKept

LEMMA RecordRefreshed ==
  ASSUME IInv, NEW r, Keeps(r, t), r.st = t.st, t' = Refreshed(r)
  PROVE  QuietRecord
<1>1. r \in TradeRecord /\ Keeps(t', r)
  BY RefreshedUpdate DEF Keeps
<1>2. Keeps(t', t)
  BY <1>1 DEF Keeps
<1>3. /\ t'.st \in Holding <=> t.st \in Holding
      /\ t.st \notin Holding => t'.st = t.st
  BY <1>1, RefreshedUpdate
<1>4. "RECOVERY_REQUIRED" \notin Holding
  BY DEF Holding
<1> QED
  BY <1>2, <1>3, <1>4, RecordKept

LEMMA RecordClosing ==
  ASSUME IInv, Keeps(t', t), t'.st = "CLOSING"
  PROVE  QuietRecord
<1>1. "CLOSING" \notin Holding
  BY DEF Holding
<1> QED
  BY <1>1, RecordKept

\* Nothing but the task's own variables changes.
LEMMA OthersSame == ASSUME IInv, UNCHANGED <<tp, slRow, tpRow>>, bud' = bud \/ Fault
                    PROVE  Others' /\ SameHands
  BY Budget DEF IInv, TypeOK, Others, SameHands, Untouched

----------------------------------------------------------------------------
(* Frames and rows. *)

\* The frame is kept, but for what FrameOK and NeverMissed do not look at.
SameJob(f, g) == f \in Frame /\ f.job = g.job /\ f.want = g.want

WithAtt(g, n)  == [g EXCEPT !.att = n]
WithTodo(g, s) == [g EXCEPT !.todo = s]
WithQty(g, q)  == [g EXCEPT !.qty = q]
WithLev(g, l)  == [g EXCEPT !.lev = l]

LEMMA AttUpdate == ASSUME NEW g \in Frame, NEW n \in 0..3
                   PROVE  SameJob(WithAtt(g, n), g) /\ WithAtt(g, n).lev = g.lev
  BY DEF SameJob, WithAtt, Frame
LEMMA TodoUpdate == ASSUME NEW g \in Frame, NEW s \in SUBSET Levels
                    PROVE  SameJob(WithTodo(g, s), g) /\ WithTodo(g, s).lev = g.lev
  BY DEF SameJob, WithTodo, Frame
LEMMA QtyUpdate == ASSUME NEW g \in Frame, NEW q \in 0..Qty
                   PROVE  SameJob(WithQty(g, q), g)
  BY DEF SameJob, WithQty, Frame
LEMMA LevUpdate == ASSUME NEW g \in Frame, NEW l \in 0..NT
                   PROVE  SameJob(WithLev(g, l), g) /\ WithLev(g, l).lev = l
  BY DEF SameJob, WithLev, Frame

LEMMA RowMark ==
  ASSUME IInv, NEW n, NEW i, NEW s \in RowStatus
  PROVE  /\ [slRow EXCEPT ![n] = s] \in [Stops -> RowStatus]
         /\ [tpRow EXCEPT ![i] = s] \in [Targets -> RowStatus]
  BY DEF IInv, TypeOK

LEMMA RowNames ==
  /\ "NEW" \in RowStatus /\ "UNKNOWN" \in RowStatus /\ "PENDING_SUBMIT" \in RowStatus
  /\ "REJECTED" \in RowStatus /\ "NOT_PLACED" \in RowStatus /\ "CANCELED" \in RowStatus
  /\ "FINISHED" \in RowStatus
  BY DEF RowStatus, RowPending

LEMMA OthersTyped ==
  ASSUME IInv, bud' = bud \/ Fault, tp' \in [Targets -> TargetOrder],
         slRow' \in [Stops -> RowStatus], tpRow' \in [Targets -> RowStatus]
  PROVE  Others' /\ SameHands
  BY Budget DEF IInv, TypeOK, Others, SameHands, Untouched

LEMMA OldRows ==
  ASSUME IInv
  PROVE  /\ tp \in [Targets -> TargetOrder]
         /\ slRow \in [Stops -> RowStatus] /\ tpRow \in [Targets -> RowStatus]
         /\ h \in Frame /\ ev \subseteq Event /\ pos \in 0..Qty /\ t \in TradeRecord
         /\ sl \in [Stops -> StopOrder] /\ pc \in Pc
         /\ t.ntp \in [Levels -> 0..MaxTp] /\ t.nsl \in 0..MaxSl /\ t.stopId \in 0..MaxSl
  BY DEF IInv, TypeOK, TradeRecord

----------------------------------------------------------------------------
(* The process, and the first part of the recovery. *)

LEMMA CrashInv == ASSUME IInv, Crash PROVE IInv'
<1>1. /\ UNCHANGED <<pos, sl, tp, t, slRow, tpRow>> /\ pc' = "down" /\ h' = NoFrame /\ ev' = {}
      /\ bud.crash < MaxCrashes /\ bud' = [bud EXCEPT !.crash = @ + 1]
  BY DEF Crash, exchange, rows
<1>2. bud' \in BudType /\ SameHands
  BY <1>1 DEF IInv, TypeOK, BudType, Untouched, SameHands
<1>3. Others'
  BY <1>1, <1>2, OldRows DEF Others
<1>4. QuietStops /\ QuietRecord
  BY <1>1, StillStops, RecordSame
<1> QED
  BY <1>1, <1>2, <1>3, <1>4, NoFrameTyped, QuietPlain DEF Plain

LEMMA RestartInv == ASSUME IInv, Restart PROVE IInv'
<1>1. /\ UNCHANGED <<pos, sl, tp, ev, t, slRow, tpRow, bud>> /\ pc' = "rq"
      /\ h' = [NoFrame EXCEPT !.ret = "sweep"]
  BY DEF Restart, exchange, rows
<1>2. Others' /\ SameHands /\ QuietStops /\ QuietRecord
  BY <1>1, OthersSame, StillStops, RecordSame
<1>3. Returning(h')
  BY <1>1, ReturnFrame
<1> QED
  BY <1>1, <1>2, <1>3, QuietPlain DEF Plain, Returning

LEMMA ReconcileInv == ASSUME IInv, Reconcile PROVE IInv'
<1>1. /\ UNCHANGED <<pos, sl, tp, ev, t, slRow, tpRow, bud>> /\ pc' = "rq"
      /\ h' = [NoFrame EXCEPT !.ret = "sweep"]
  BY DEF Reconcile, exchange, rows
<1>2. Others' /\ SameHands /\ QuietStops /\ QuietRecord
  BY <1>1, OthersSame, StillStops, RecordSame
<1>3. Returning(h')
  BY <1>1, ReturnFrame
<1> QED
  BY <1>1, <1>2, <1>3, QuietPlain DEF Plain, Returning

LEMMA QueryPositionInv == ASSUME IInv, QueryPosition PROVE IInv'
<1>1. /\ UNCHANGED <<pos, sl, tp, ev, t, slRow, tpRow>> /\ pc' \in {"ralgos", "idle"}
      /\ h' = WithQty(h, pos) \/ h' = NoFrame
      /\ bud' = bud \/ Fault
  BY DEF QueryPosition, exchange, rows, WithQty
<1>2. Others' /\ SameHands /\ QuietStops /\ QuietRecord
  BY <1>1, OthersSame, StillStops, RecordSame
<1>3. h' \in Frame /\ h'.job \in {"none", h.job}
  BY <1>1, OldRows, QtyUpdate, NoFrameTyped DEF SameJob
<1> QED
  BY <1>1, <1>2, <1>3, QuietPlain DEF Plain

----------------------------------------------------------------------------
(* Placing a stop. *)

WithProtect(g, w) == [g EXCEPT !.job = "protect", !.att = 1, !.want = w]
WithMove(g, w)    == [g EXCEPT !.job = "move", !.want = w]
WithReplace(g)    == [g EXCEPT !.job = "replace"]

LEMMA ProtectUpdate ==
  ASSUME NEW g \in Frame, NEW w \in 0..MaxLvl
  PROVE  LET f == WithProtect(g, w) IN f \in Frame /\ f.job = "protect" /\ f.want = w
<1>1. WithProtect(g, w) = [[[g EXCEPT !.job = "protect"] EXCEPT !.att = 1] EXCEPT !.want = w]
  BY DEF WithProtect, Frame
<1> DEFINE a == [g EXCEPT !.job = "protect"]
           b == [a EXCEPT !.att = 1]
<1>2. a \in Frame /\ a.job = "protect"
  BY DEF Frame
<1> HIDE DEF a
<1>3. b \in Frame /\ b.job = "protect"
  BY <1>2 DEF Frame
<1> HIDE DEF b
<1>4. [b EXCEPT !.want = w] \in Frame /\ [b EXCEPT !.want = w].job = "protect"
      /\ [b EXCEPT !.want = w].want = w
  BY <1>3 DEF Frame
<1> QED
  BY <1>1, <1>4 DEF a, b

LEMMA MoveUpdate ==
  ASSUME NEW g \in Frame, NEW w \in 0..MaxLvl
  PROVE  LET f == WithMove(g, w) IN f \in Frame /\ f.job = "move" /\ f.want = w
  BY DEF WithMove, Frame

LEMMA ReplaceUpdate ==
  ASSUME NEW g \in Frame
  PROVE  WithReplace(g) \in Frame /\ WithReplace(g).job = "replace"
  BY DEF WithReplace, Frame

\* Where the frame may go from here.
LEMMA StopFrame ==
  ASSUME pc' = "stop",
         \/ h'.job = "protect" /\ h'.want = t'.stop
         \/ h'.job \in {"move", "replace"} /\ t'.st \in Holding
  PROVE  FrameOK' /\ pc' \in Pc /\ pc' \notin {"replace", "moved"}
  BY DEF FrameOK, ClosePc, Pc

LEMMA ProtectInv == ASSUME IInv, Protect PROVE IInv'
<1>1. /\ UNCHANGED <<pos, sl, tp, ev, slRow, tpRow, bud>> /\ pc' = "stop"
      /\ t' = WithSt(t, "PROTECTING") /\ h' = WithProtect(h, t.stop)
  BY DEF Protect, exchange, rows, WithSt, WithProtect
<1>2. Others' /\ SameHands /\ QuietStops
  BY <1>1, OthersSame, StillStops
<1>3. QuietRecord
  BY <1>1, RecordSt, StateNames DEF Holding
<1>4. t'.stop = t.stop /\ t.stop \in 0..MaxLvl
  BY <1>1, OldRows, StUpdate, StateNames DEF Keeps, TradeRecord
<1>5. h' \in Frame /\ h'.job = "protect" /\ h'.want = t'.stop
  BY <1>1, <1>4, OldRows, ProtectUpdate
<1> QED
  BY <1>1, <1>2, <1>3, <1>5, StopFrame, Quiet

\* After a failure another attempt is made, the position is closed, or a move
\* is given up.
LEMMA StopFailedDoes ==
  ASSUME IInv, pc \in {"sent", "resolve", "verify"}, SameHands, StopFailed
  PROVE  /\ QuietRecord /\ FrameOK' /\ pc' \in Pc /\ h' \in Frame
         /\ Untouched' => h'.job /= "replace" /\ pc' \notin {"replace", "moved"}
<1>1. TypeOK /\ h \in Frame /\ t \in TradeRecord
  BY DEF IInv, TypeOK
<1>2. CASE h.job = "protect" /\ h.att < 3 /\ pc' = "stop" /\ t' = t
           /\ h' = [h EXCEPT !.att = @ + 1]
  <2>1. h' = WithAtt(h, h.att + 1) /\ h.att + 1 \in 0..3
    BY <1>1, <1>2 DEF WithAtt, Frame
  <2>2. h' \in Frame /\ h'.job = "protect" /\ h'.want = h.want
    BY <1>1, <1>2, <2>1, AttUpdate DEF SameJob
  <2>3. h.want = t.stop
    BY <1>2 DEF IInv, FrameOK
  <2> QED
    BY <1>2, <2>2, <2>3, StopFrame, RecordSame
<1>3. CASE CloseNow(t)
  <2>1. Keeps(t', t) /\ t'.st = "CLOSING" /\ pc' = "closetp" /\ Returning(h')
    BY <1>1, <1>3, KeepsItself, CloseNowDoes
  <2> QED
    BY <2>1, RecordClosing, PlainFrame DEF Returning, ClosePc
<1>4. CASE t' = Refreshed(t) /\ Done
  <2>1. pc' \in {"idle", "sweep"} /\ Returning(h')
    BY <1>1, <1>4, DoneDoes
  <2>2. QuietRecord
    BY <1>1, <1>4, KeepsItself, RecordRefreshed
  <2> QED
    BY <2>1, <2>2, PlainFrame DEF Returning, Plain
<1> QED
  BY <1>2, <1>3, <1>4 DEF StopFailed

LEMMA StopAnsweredInv == ASSUME IInv, StopAnswered PROVE IInv'
<1>1. /\ UNCHANGED <<pos, sl, tp, ev, t, tpRow, h, bud>> /\ pc = "sent" /\ pc' = "verify"
      /\ sl[t.nsl].st /= "flight" /\ slRow' = [slRow EXCEPT ![t.nsl] = "NEW"]
  BY DEF StopAnswered, GoTo, exchange
<1>2. Others' /\ SameHands /\ QuietStops /\ QuietRecord
  BY <1>1, OldRows, RowMark, RowNames, OthersTyped, StillStops, RecordSame
<1>3. FrameOK' /\ pc' \in Pc
  BY <1>1 DEF IInv, FrameOK, ClosePc, Pc
<1> QED
  BY <1>1, <1>2, <1>3, OldRows, Quiet DEF IInv, NeverMissed, SameHands

LEMMA StopUnknownInv == ASSUME IInv, StopUnknown PROVE IInv'
<1>1. /\ UNCHANGED <<pos, sl, tp, ev, t, tpRow, h>> /\ pc = "sent" /\ pc' = "resolve"
      /\ slRow' = [slRow EXCEPT ![t.nsl] = "UNKNOWN"] /\ Fault
  BY DEF StopUnknown, GoTo, exchange
<1>2. Others' /\ SameHands /\ QuietStops /\ QuietRecord
  BY <1>1, OldRows, RowMark, RowNames, OthersTyped, StillStops, RecordSame
<1>3. FrameOK' /\ pc' \in Pc
  BY <1>1 DEF IInv, FrameOK, ClosePc, Pc
<1> QED
  BY <1>1, <1>2, <1>3, OldRows, Quiet DEF IInv, NeverMissed, SameHands

\* The refused request leaves no stop.
LEMMA NotTaken ==
  ASSUME IInv, NEW s \in RowStatus, StopNotTaken(s), bud' = bud \/ Fault
  PROVE  QuietStops /\ Others' /\ SameHands /\ ev' = ev /\ pc = "sent" /\ h \in Frame
<1>1. /\ UNCHANGED <<pos, tp, ev, tpRow>> /\ pc = "sent" /\ sl[t.nsl].st = "flight"
      /\ sl' = Marked(sl, t.nsl, "none") /\ slRow' = [slRow EXCEPT ![t.nsl] = s]
  BY DEF StopNotTaken, Marked
<1>2. t.nsl \in Stops
  BY <1>1, OldRows, MaxSlNat DEF IInv, FrameOK, Stops
<1>3. /\ sl' \in [Stops -> StopOrder]
      /\ \A m \in Stops : /\ sl'[m].lvl = sl[m].lvl
                          /\ m /= t.nsl => sl'[m].st = sl[m].st
                          /\ m = t.nsl => sl'[m].st = "none"
  BY <1>1, <1>2, OldRows, MarkedStop
<1>4. SoundStops /\ StopsStay
  BY <1>1, <1>2, <1>3 DEF IInv, StopsInOrder, SoundStops, StopsStay
<1>5. QuietStops
  BY <1>1, <1>4, OldRows DEF QuietStops
<1> QED
  BY <1>1, <1>5, OldRows, RowMark, OthersTyped

LEMMA StopImmediateInv == ASSUME IInv, StopImmediate PROVE IInv'
<1>1. StopNotTaken("REJECTED") /\ CloseNow(t) /\ bud' = bud
  BY DEF StopImmediate
<1>2. QuietStops /\ Others' /\ SameHands /\ ev' = ev
  BY <1>1, NotTaken, RowNames
<1>3. Keeps(t', t) /\ t'.st = "CLOSING" /\ pc' = "closetp" /\ Returning(h')
  BY <1>1, OldRows, KeepsItself, CloseNowDoes DEF IInv
<1>4. QuietRecord
  BY <1>3, RecordClosing
<1> QED
  BY <1>2, <1>3, <1>4, QuietPlain DEF Returning, ClosePc

LEMMA StopBlockedInv == ASSUME IInv, StopBlocked PROVE IInv'
<1>1. StopNotTaken("NOT_PLACED") /\ StopFailed /\ Fault
  BY DEF StopBlocked
<1>2. QuietStops /\ Others' /\ SameHands /\ ev' = ev /\ pc = "sent"
  BY <1>1, NotTaken, RowNames
<1> QED
  BY <1>1, <1>2, StopFailedDoes, Quiet

LEMMA StopRejectedInv == ASSUME IInv, StopRejected PROVE IInv'
<1>1. /\ StopNotTaken("REJECTED") /\ bud.reject < MaxRejects
      /\ bud' = [bud EXCEPT !.reject = @ + 1]
      /\ \/ h.job = "move" /\ pc' = "replace" /\ h' = h /\ t' = t
         \/ StopFailed
  BY DEF StopRejected, GoTo
<1>2. bud' \in BudType /\ ~Untouched'
  BY <1>1 DEF IInv, TypeOK, BudType, Untouched
<1>3. /\ UNCHANGED <<pos, tp, ev, tpRow>> /\ pc = "sent" /\ sl[t.nsl].st = "flight"
      /\ sl' = Marked(sl, t.nsl, "none") /\ slRow' = [slRow EXCEPT ![t.nsl] = "REJECTED"]
  BY <1>1 DEF StopNotTaken, Marked
<1>4. t.nsl \in Stops
  BY <1>3, OldRows, MaxSlNat DEF IInv, FrameOK, Stops
<1>5. /\ sl' \in [Stops -> StopOrder]
      /\ \A m \in Stops : /\ sl'[m].lvl = sl[m].lvl
                          /\ m /= t.nsl => sl'[m].st = sl[m].st
                          /\ m = t.nsl => sl'[m].st = "none"
  BY <1>3, <1>4, OldRows, MarkedStop
<1>6. SoundStops /\ StopsStay
  BY <1>3, <1>4, <1>5 DEF IInv, StopsInOrder, SoundStops, StopsStay
<1>7. QuietStops /\ SameHands
  BY <1>2, <1>3, <1>6, OldRows DEF QuietStops, SameHands
<1>8. Others'
  BY <1>2, <1>3, OldRows, RowMark, RowNames DEF Others
<1>9. CASE StopFailed
  BY <1>3, <1>7, <1>8, <1>9, StopFailedDoes, Quiet
<1>10. CASE h.job = "move" /\ pc' = "replace" /\ h' = h /\ t' = t
  <2>1. FrameOK' /\ pc' \in Pc
    BY <1>3, <1>10 DEF IInv, FrameOK, ClosePc, Pc
  <2> QED
    BY <1>2, <1>3, <1>7, <1>8, <1>10, <2>1, OldRows, RecordSame, Quiet
<1> QED
  BY <1>1, <1>9, <1>10

LEMMA StopUnresolvedInv == ASSUME IInv, StopUnresolved PROVE IInv'
<1>1. UNCHANGED <<pos, sl, tp, ev, slRow, tpRow>> /\ pc = "resolve" /\ StopFailed /\ Fault
  BY DEF StopUnresolved, exchange, rows
<1>2. Others' /\ SameHands /\ QuietStops
  BY <1>1, OthersSame, StillStops
<1> QED
  BY <1>1, <1>2, StopFailedDoes, Quiet

LEMMA VerifyFailsInv == ASSUME IInv, VerifyFails PROVE IInv'
<1>1. UNCHANGED <<pos, sl, tp, ev, slRow, tpRow>> /\ pc = "verify" /\ StopFailed /\ Fault
  BY DEF VerifyFails, exchange, rows
<1>2. Others' /\ SameHands /\ QuietStops
  BY <1>1, OthersSame, StillStops
<1> QED
  BY <1>1, <1>2, StopFailedDoes, Quiet

LEMMA StopResolvedInv == ASSUME IInv, StopResolved PROVE IInv'
<1>1. /\ UNCHANGED <<pos, sl, tp, ev, tpRow, bud>> /\ pc = "resolve"
      /\ sl[t.nsl].st /= "flight"
      /\ slRow' = [slRow EXCEPT ![t.nsl] = Status(sl[t.nsl].st)]
      /\ \/ StopFailed
         \/ pc' = "verify" /\ h' = h /\ t' = t
  BY DEF StopResolved, exchange, GoTo
<1>2. Others' /\ SameHands /\ QuietStops
  BY <1>1, OldRows, RowMark, StatusTyped, OthersTyped, StillStops
<1>3. CASE StopFailed
  BY <1>1, <1>2, <1>3, StopFailedDoes, Quiet
<1>4. CASE pc' = "verify" /\ h' = h /\ t' = t
  <2>1. FrameOK' /\ pc' \in Pc
    BY <1>1, <1>4 DEF IInv, FrameOK, ClosePc, Pc
  <2> QED
    BY <1>1, <1>2, <1>4, <2>1, OldRows, RecordSame, Quiet DEF IInv, NeverMissed, SameHands
<1> QED
  BY <1>1, <1>3, <1>4

\* The new stop is there: the record changes over to it.
Adopted == /\ pos' = pos /\ sl' = sl /\ ev' = ev
           /\ t.nsl \in Stops /\ t.stopId < t.nsl
           /\ sl[t.nsl].st \in {"open", "fired"} /\ sl[t.nsl].lvl = h.want
           /\ t' \in TradeRecord /\ t'.stopId = t.nsl /\ t'.nsl = t.nsl /\ t'.stop = h.want
           /\ t'.st /= "RECOVERY_REQUIRED" \/ ~Untouched

LEMMA AdoptedInv ==
  ASSUME IInv, Adopted, Others', SameHands, pc' \in Pc, h' \in Frame, FrameOK',
         Untouched => h'.job /= "replace" /\ pc' /= "replace"
  PROVE  IInv'
<1>1. TypeOK /\ pos \in 0..Qty /\ sl \in [Stops -> StopOrder] /\ ev \subseteq Event
  BY DEF IInv, TypeOK
<1>2. TypeOK'
  BY <1>1, TypePartsNext DEF Adopted
<1>3. StopsInOrder'
  BY <1>1, OldRows DEF IInv, StopsInOrder, Adopted
<1>4. NeverMissed'
  BY DEF IInv, NeverMissed, Adopted, SameHands
<1>5. Covered'
  <2> SUFFICES ASSUME pos > 0 PROVE \E n \in OpenStops' : sl'[n].lvl >= t'.stop
    BY DEF Covered, Adopted
  <2>1. sl[t.nsl].st = "open"
    BY DEF IInv, StopsInOrder, Adopted
  <2>2. t'.stop \in 0..MaxLvl
    BY DEF Adopted, TradeRecord
  <2> QED
    BY <2>1, <2>2 DEF OpenStops, Adopted
<1> QED
  BY <1>2, <1>3, <1>4, <1>5 DEF IInv

LEMMA StopConfirmedInv ==
  ASSUME IInv, pc = "verify", sl[t.nsl].st \notin {"none", "gone"}, StopConfirmed,
         UNCHANGED <<pos, sl, ev>>, Others', SameHands
  PROVE  IInv'
<1>1. /\ t \in TradeRecord /\ h \in Frame /\ t.nsl \in 0..MaxSl /\ t.stopId \in 0..MaxSl
      /\ h.want \in 0..MaxLvl /\ sl \in [Stops -> StopOrder]
  BY OldRows DEF Frame
<1>2. t.stopId < t.nsl /\ sl[t.nsl].lvl = h.want /\ sl[t.nsl].st /= "flight"
  BY DEF IInv, FrameOK
<1>3. t.nsl \in Stops
  BY <1>1, <1>2, MaxSlNat DEF Stops
<1>4. sl[t.nsl].st \in {"open", "fired"}
  BY <1>1, <1>2, <1>3 DEF StopOrder
<1> DEFINE r == WithStopId(t, t.nsl)
           m == WithStop(r, h.want)
<1>5. /\ r \in TradeRecord /\ r.st = t.st /\ r.stop = t.stop /\ r.stopId = t.nsl
      /\ r.nsl = t.nsl
  BY <1>1, StopIdUpdate
<1>6. m \in TradeRecord /\ m.st = t.st /\ m.stop = h.want /\ m.stopId = t.nsl /\ m.nsl = t.nsl
  <2> HIDE DEF r
  <2> QED
    BY <1>1, <1>5, StopUpdate
<1>7. CASE /\ h.job = "protect"
           /\ t' = [[t EXCEPT !.stopId = t.nsl] EXCEPT !.st = "PROTECTED"]
           /\ pc' = "tps" /\ h' = [h EXCEPT !.todo = Levels]
  <2>1. t' = WithSt(r, "PROTECTED") /\ h' = WithTodo(h, Levels)
    BY <1>7 DEF WithSt, WithStopId, WithTodo
  <2>2. /\ t' \in TradeRecord /\ t'.st = "PROTECTED" /\ t'.stop = t.stop
        /\ t'.stopId = t.nsl /\ t'.nsl = t.nsl
    <3> HIDE DEF r
    <3> QED
      BY <1>5, <2>1, StUpdate, StateNames DEF Keeps
  <2>3. h' \in Frame /\ h'.job = "protect"
    BY <1>1, <1>7, <2>1, TodoUpdate DEF SameJob
  <2>4. h.want = t.stop
    BY <1>7 DEF IInv, FrameOK
  <2>5. Adopted
    BY <1>2, <1>3, <1>4, <2>2, <2>4 DEF Adopted
  <2>6. FrameOK' /\ pc' \in Pc
    BY <1>7, PlainFrame DEF Plain
  <2> QED
    BY <1>7, <2>3, <2>5, <2>6, AdoptedInv
<1>8. CASE /\ h.job = "move"
           /\ t' = [[t EXCEPT !.stopId = t.nsl] EXCEPT !.stop = h.want]
           /\ pc' = "moved" /\ h' = [h EXCEPT !.old = t.stopId]
  <2>1. t' = m
    BY <1>8 DEF WithStop, WithStopId
  <2>2. h' \in Frame /\ h'.job = "move" /\ h'.old = t.stopId
    BY <1>1, <1>8 DEF Frame
  <2>3. t.st \in Holding
    BY <1>8 DEF IInv, FrameOK
  <2> HIDE DEF m
  <2>4. Adopted
    BY <1>2, <1>3, <1>4, <1>6, <2>1, <2>3 DEF Adopted, Holding
  <2>5. FrameOK' /\ pc' \in Pc
    BY <1>2, <1>6, <1>8, <2>1, <2>2, <2>3 DEF FrameOK, ClosePc, Pc
  <2> QED
    BY <1>8, <2>2, <2>4, <2>5, AdoptedInv
<1>9. CASE /\ h.job = "replace"
           /\ t' = Refreshed([[t EXCEPT !.stopId = t.nsl] EXCEPT !.stop = h.want])
           /\ Done
  <2>1. t' = Refreshed(m)
    BY <1>9 DEF WithStop, WithStopId
  <2> HIDE DEF m
  <2>2. t' \in TradeRecord /\ t'.stop = h.want /\ t'.stopId = t.nsl /\ t'.nsl = t.nsl
    BY <1>6, <2>1, RefreshedUpdate DEF Keeps
  <2>3. ~Untouched
    BY <1>9 DEF IInv, NeverMissed
  <2>4. Adopted
    BY <1>2, <1>3, <1>4, <2>2, <2>3 DEF Adopted
  <2>5. pc' \in {"idle", "sweep"} /\ Returning(h')
    BY <1>9, DoneDoes DEF IInv
  <2>6. FrameOK' /\ pc' \in Pc
    BY <2>5, PlainFrame DEF Plain
  <2> QED
    BY <2>3, <2>4, <2>5, <2>6, AdoptedInv DEF Returning
<1> QED
  BY <1>7, <1>8, <1>9 DEF StopConfirmed

LEMMA VerifyInv == ASSUME IInv, Verify PROVE IInv'
<1>1. /\ UNCHANGED <<pos, sl, tp, ev, tpRow, bud>> /\ pc = "verify"
      /\ slRow' = [slRow EXCEPT ![t.nsl] = Status(sl[t.nsl].st)]
      /\ \/ StopFailed
         \/ sl[t.nsl].st \notin {"none", "gone"} /\ StopConfirmed
  BY DEF Verify, exchange
<1>2. Others' /\ SameHands /\ QuietStops
  BY <1>1, OldRows, RowMark, StatusTyped, OthersTyped, StillStops
<1>3. CASE StopFailed
  BY <1>1, <1>2, <1>3, StopFailedDoes, Quiet
<1>4. CASE sl[t.nsl].st \notin {"none", "gone"} /\ StopConfirmed
  BY <1>1, <1>2, <1>4, StopConfirmedInv
<1> QED
  BY <1>1, <1>3, <1>4

LEMMA StopSendInv == ASSUME IInv, StopSend PROVE IInv'
<1> DEFINE k == t.nsl + 1
           new == [st |-> "flight", lvl |-> h.want]
<1>1. /\ UNCHANGED <<pos, tp, ev, tpRow, h, bud>> /\ pc = "stop" /\ pc' = "sent" /\ t.nsl < MaxSl
      /\ t' = WithNsl(t, k) /\ slRow' = [slRow EXCEPT ![k] = "PENDING_SUBMIT"]
      /\ sl' = [sl EXCEPT ![k] = new]
  BY DEF StopSend, GoTo, WithNsl
<1>2. /\ t \in TradeRecord /\ h \in Frame /\ t.nsl \in 0..MaxSl /\ t.stopId \in 0..MaxSl
      /\ h.want \in 0..MaxLvl /\ sl \in [Stops -> StopOrder] /\ pos \in 0..Qty
      /\ ev \subseteq Event
  BY OldRows DEF Frame
<1>3. k \in Stops /\ k \in 0..MaxSl /\ new \in StopOrder
  BY <1>1, <1>2, MaxSlNat DEF Stops, StopOrder
<1>4. /\ sl' \in [Stops -> StopOrder]
      /\ sl'[k] = new /\ \A n \in Stops : n /= k => sl'[n] = sl[n]
  BY <1>1, <1>2, <1>3
<1>5. /\ t' \in TradeRecord /\ t'.st = t.st /\ t'.stop = t.stop /\ t'.stopId = t.stopId
      /\ t'.nsl = k
  BY <1>1, <1>2, <1>3, NslUpdate
<1>6. new.st = "flight" /\ new.lvl = h.want
  OBVIOUS
<1> HIDE DEF new
<1>7. Others' /\ (Untouched' => Untouched)
  BY <1>1, OldRows, RowMark, RowNames, OthersTyped DEF SameHands
<1>8. TypeOK'
  BY <1>1, <1>2, <1>4, <1>5, <1>7, TypePartsNext DEF Pc
<1>9. StopsInOrder'
  BY <1>1, <1>2, <1>3, <1>4, <1>5, <1>6 DEF IInv, StopsInOrder, Stops
<1>10. FrameOK'
  <2>1. t'.stopId < t'.nsl /\ sl'[t'.nsl].lvl = h'.want
    BY <1>1, <1>2, <1>4, <1>5, <1>6 DEF IInv, StopsInOrder
  <2>2. \/ h'.job = "protect" /\ h'.want = t'.stop
        \/ h'.job \in {"move", "replace"} /\ t'.st \in Holding
    BY <1>1, <1>5 DEF IInv, FrameOK
  <2> QED
    BY <1>1, <2>1, <2>2 DEF FrameOK, ClosePc
<1>11. NeverMissed'
  BY <1>1, <1>5, <1>7 DEF IInv, NeverMissed
<1>12. Covered'
  <2> SUFFICES ASSUME Untouched, t.st \in Holding, pos > 0
               PROVE  \E n \in OpenStops' : sl'[n].lvl >= t.stop
    BY <1>1, <1>5, <1>7 DEF Covered
  <2>1. PICK n \in OpenStops : sl[n].lvl >= t.stop
    BY DEF IInv, Covered
  <2>2. n \in Stops /\ sl[n].st = "open" /\ n /= k
    BY <1>2 DEF OpenStops, IInv, StopsInOrder
  <2> QED
    BY <1>4, <2>1, <2>2 DEF OpenStops
<1> QED
  BY <1>8, <1>9, <1>10, <1>11, <1>12 DEF IInv

\* Cancelling one stop.
LEMMA OneGone ==
  ASSUME IInv, NEW o, pos' = pos,
         sl' = IF o \in OpenStops THEN Marked(sl, o, "gone") ELSE sl
  PROVE  /\ SoundStops
         /\ \A n \in Stops : n /= o => sl'[n] = sl[n]
<1>1. CASE o \in OpenStops
  <2>1. o \in Stops /\ sl \in [Stops -> StopOrder]
    BY <1>1, OldRows DEF OpenStops
  <2>2. /\ Marked(sl, o, "gone") \in [Stops -> StopOrder]
        /\ \A m \in Stops : /\ Marked(sl, o, "gone")[m].lvl = sl[m].lvl
                            /\ m /= o => Marked(sl, o, "gone")[m].st = sl[m].st
                            /\ m = o => Marked(sl, o, "gone")[m].st = "gone"
    BY <2>1, MarkedStop
  <2>3. SoundStops
    BY <1>1, <2>2 DEF IInv, StopsInOrder, SoundStops, OpenStops
  <2>4. \A n \in Stops : n /= o => sl'[n] = sl[n]
    BY <1>1, <2>1 DEF Marked
  <2> QED
    BY <2>3, <2>4
<1>2. CASE sl' = sl
  <2>1. SoundStops
    BY <1>2, OldRows, StopsSame
  <2> QED
    BY <1>2, <2>1
<1> QED
  BY <1>1, <1>2

LEMMA CancelOldInv == ASSUME IInv, CancelOld PROVE IInv'
<1>1. /\ UNCHANGED <<pos, tp, ev, tpRow>> /\ pc = "moved" /\ t' = Refreshed(t) /\ Done
      /\ \/ /\ sl' = IF h.old \in OpenStops THEN Marked(sl, h.old, "gone") ELSE sl
            /\ \/ slRow' = slRow
               \/ slRow' = [slRow EXCEPT ![h.old] = Status(sl'[h.old].st)]
            /\ bud' = bud
         \/ Fault /\ UNCHANGED <<sl, slRow>>
  BY DEF CancelOld, Marked
<1>2. slRow' \in [Stops -> RowStatus] /\ (bud' = bud \/ Fault)
  BY <1>1, OldRows, RowMark, StatusTyped
<1>3. Others' /\ SameHands
  BY <1>1, <1>2, OldRows, OthersTyped
<1>4. SoundStops /\ \A n \in Stops : n /= h.old => sl'[n] = sl[n]
  <2>1. CASE sl' = sl
    BY <1>1, <2>1, OldRows, StopsSame
  <2>2. CASE sl' = IF h.old \in OpenStops THEN Marked(sl, h.old, "gone") ELSE sl
    BY <1>1, <2>2, OneGone
  <2> QED
    BY <1>1, <2>1, <2>2
<1>5. pc' \in {"idle", "sweep"} /\ Returning(h')
  BY <1>1, DoneDoes DEF IInv
<1>6. /\ t \in TradeRecord /\ t' \in TradeRecord /\ t'.stop = t.stop /\ t'.nsl = t.nsl
      /\ t'.stopId = t.stopId /\ t'.st \in Holding /\ t.st \in Holding
  BY <1>1, OldRows, RefreshedUpdate DEF IInv, FrameOK, Keeps
<1>7. h.old < t.nsl /\ sl[t.nsl].lvl = t.stop /\ t.nsl \in Stops /\ h.old \in 0..MaxSl
  BY <1>1, OldRows, MaxSlNat DEF IInv, FrameOK, Frame, Stops
<1>8. sl'[t.nsl] = sl[t.nsl]
  BY <1>4, <1>7, MaxSlNat DEF Stops
<1>9. TypeOK'
  BY <1>1, <1>3, <1>4, <1>5, <1>6, OldRows, TypePartsNext DEF SoundStops, Returning, Pc
<1>10. StopsInOrder'
  BY <1>1, <1>4, <1>6 DEF IInv, StopsInOrder, SoundStops
<1>11. FrameOK'
  BY <1>5, PlainFrame DEF Plain
<1>12. NeverMissed'
  BY <1>1, <1>3, <1>5, <1>6 DEF IInv, NeverMissed, Returning, SameHands, Holding
<1>13. Covered'
  <2> SUFFICES ASSUME Untouched, pos > 0
               PROVE  \E n \in OpenStops' : sl'[n].lvl >= t.stop
    BY <1>1, <1>3, <1>6 DEF Covered, SameHands
  <2>1. sl[t.nsl].st = "open"
    BY <1>1, <1>7 DEF IInv, NeverMissed, StopsInOrder
  <2>2. t.stop \in 0..MaxLvl
    BY <1>6 DEF TradeRecord
  <2> QED
    BY <1>7, <1>8, <2>1, <2>2 DEF OpenStops
<1> QED
  BY <1>9, <1>10, <1>11, <1>12, <1>13 DEF IInv

LEMMA CancelFirstInv == ASSUME IInv, CancelFirst PROVE IInv'
<1>1. /\ UNCHANGED <<pos, tp, ev, t, tpRow>> /\ pc = "replace" /\ pc' = "stop"
      /\ h' = WithReplace(h)
      /\ \/ /\ sl' = IF t.stopId \in OpenStops THEN Marked(sl, t.stopId, "gone") ELSE sl
            /\ slRow' = [slRow EXCEPT ![t.stopId] = Status(sl'[t.stopId].st)]
            /\ bud' = bud
         \/ Fault /\ UNCHANGED <<sl, slRow>>
  BY DEF CancelFirst, WithReplace, Marked
<1>2. slRow' \in [Stops -> RowStatus] /\ (bud' = bud \/ Fault)
  BY <1>1, OldRows, RowMark, StatusTyped
<1>3. Others' /\ SameHands
  BY <1>1, <1>2, OldRows, OthersTyped
<1>4. ~Untouched /\ t.st \in Holding
  BY <1>1 DEF IInv, NeverMissed, FrameOK
<1>5. QuietStops
  BY <1>1, <1>4, OldRows, OneGone, StopsSame DEF QuietStops
<1>6. h' \in Frame /\ h'.job = "replace"
  BY <1>1, OldRows, ReplaceUpdate
<1>7. FrameOK' /\ pc' \in Pc
  BY <1>1, <1>4, <1>6, StopFrame
<1> QED
  BY <1>1, <1>3, <1>4, <1>5, <1>6, <1>7, RecordSame, Quiet DEF SameHands

LEMMA PlacingInv == ASSUME IInv, Placing PROVE IInv'
  BY ProtectInv, StopSendInv, StopAnsweredInv, StopUnknownInv, StopImmediateInv,
     StopRejectedInv, StopBlockedInv, StopResolvedInv, StopUnresolvedInv,
     VerifyInv, VerifyFailsInv, CancelOldInv, CancelFirstInv, Zenon DEF Placing

----------------------------------------------------------------------------
(* The targets. *)

LEMMA LeastLevel ==
  ASSUME NEW S \in SUBSET Levels, S /= {}
  PROVE  \E k \in S : \A m \in S : k <= m
<1>1. S \subseteq {1, 2, 3}
  BY DEF Levels
<1>2. CASE 1 \in S
  BY <1>1, <1>2
<1>3. CASE 1 \notin S /\ 2 \in S
  BY <1>1, <1>3
<1>4. CASE 1 \notin S /\ 2 \notin S
  <2>1. PICK k \in S : TRUE
    OBVIOUS
  <2>2. \A m \in S : m = 3
    BY <1>1, <1>4
  <2> QED
    BY <2>1, <2>2
<1> QED
  BY <1>2, <1>3, <1>4

\* A target order is sent: its number is drawn, saved and put in a row.
LEMMA TargetSent ==
  ASSUME IInv, NEW l \in Levels, NEW n \in 1..MaxTp, NEW s \in {"flight", "mflight"},
         t' = WithNtp(t, l, n), tpRow' = [tpRow EXCEPT ![<<l, n>>] = "PENDING_SUBMIT"],
         tp' = [tp EXCEPT ![<<l, n>>] = s], s = "flight" => n < MaxTp,
         UNCHANGED <<pos, sl, ev, slRow, bud>>, pc' = "tpsent",
         h' \in Frame, h'.lev = l, h'.job = h.job
  PROVE  IInv'
<1>1. n \in 0..MaxTp /\ n > 0 /\ <<l, n>> \in Targets /\ t \in TradeRecord
  BY OldRows DEF Targets
<1>2. tp' \in [Targets -> TargetOrder] /\ tp'[<<l, n>>] = s
  BY <1>1, OldRows DEF TargetOrder
<1>3. Others' /\ SameHands
  BY <1>2, OldRows, RowMark, RowNames, OthersTyped
<1>4. /\ t' \in TradeRecord /\ t'.st = t.st /\ t'.stop = t.stop /\ t'.stopId = t.stopId
      /\ t'.nsl = t.nsl /\ t'.ntp = [t.ntp EXCEPT ![l] = n]
  BY <1>1, NtpUpdate
<1>5. t'.ntp[l] = n
  BY <1>4, OldRows
<1>6. QuietRecord
  BY <1>4 DEF QuietRecord, IInv, StopsInOrder
<1>7. FrameOK' /\ pc' \in Pc
  <2>1. Sent' = <<l, n>>
    BY <1>5 DEF Sent
  <2> QED
    BY <1>1, <1>2, <1>5, <2>1 DEF FrameOK, ClosePc, Pc
<1>8. Untouched' => h'.job /= "replace" /\ pc' \notin {"replace", "moved"}
  BY <1>3 DEF IInv, NeverMissed, SameHands
<1>9. QuietStops
  BY StillStops
<1> QED
  BY <1>3, <1>6, <1>7, <1>8, <1>9, Quiet

LEMMA NextTargetInv == ASSUME IInv, NextTarget PROVE IInv'
<1> DEFINE l == CHOOSE k \in h.todo : \A m \in h.todo : k <= m
           n == t.ntp[l] + 1
<1>1. /\ UNCHANGED <<pos, sl, ev, slRow, bud>> /\ pc = "tps" /\ h.todo /= {}
      /\ \/ h' = WithTodo(h, h.todo \ {l}) /\ UNCHANGED <<t, tpRow, tp, pc>>
         \/ /\ ~(n >= MaxTp)
            /\ h' = WithLev(WithTodo(h, h.todo \ {l}), l)
            /\ t' = WithNtp(t, l, n)
            /\ tpRow' = [tpRow EXCEPT ![<<l, n>>] = "PENDING_SUBMIT"]
            /\ tp' = [tp EXCEPT ![<<l, n>>] = "flight"]
            /\ pc' = "tpsent"
  BY DEF NextTarget, WithTodo, WithLev, WithNtp
<1>2. h \in Frame /\ h.todo \in SUBSET Levels /\ h.todo \ {l} \in SUBSET Levels
  BY OldRows DEF Frame
<1>3. l \in Levels
  BY <1>1, <1>2, LeastLevel
<1> HIDE DEF l
<1>4. n \in 1..(MaxTp + 1)
  BY <1>3, OldRows
<1>5. CASE h' = WithTodo(h, h.todo \ {l}) /\ UNCHANGED <<t, tpRow, tp, pc>>
  <2>1. h' \in Frame /\ h'.job = h.job
    BY <1>2, <1>5, TodoUpdate DEF SameJob
  <2>2. Others' /\ SameHands /\ QuietStops /\ QuietRecord
    BY <1>1, <1>5, OthersSame, StillStops, RecordSame
  <2> QED
    BY <1>1, <1>5, <2>1, <2>2, QuietPlain DEF Plain
<1>6. CASE /\ ~(n >= MaxTp)
           /\ h' = WithLev(WithTodo(h, h.todo \ {l}), l)
           /\ t' = WithNtp(t, l, n)
           /\ tpRow' = [tpRow EXCEPT ![<<l, n>>] = "PENDING_SUBMIT"]
           /\ tp' = [tp EXCEPT ![<<l, n>>] = "flight"]
           /\ pc' = "tpsent"
  <2>1. l \in 0..NT
    BY <1>3 DEF Levels
  <2>2. SameJob(WithTodo(h, h.todo \ {l}), h)
    BY <1>2, TodoUpdate
  <2>3. h' \in Frame /\ h'.lev = l /\ h'.job = h.job
    BY <1>6, <2>1, <2>2, LevUpdate DEF SameJob
  <2>4. n \in 1..MaxTp /\ n < MaxTp
    BY <1>4, <1>6
  <2> HIDE DEF n
  <2> QED
    BY <1>1, <1>3, <1>6, <2>3, <2>4, TargetSent
<1> QED
  BY <1>1, <1>5, <1>6

\* An answer changes rows and orders of the targets, nothing else.
LEMMA TargetStep ==
  ASSUME IInv, UNCHANGED <<pos, sl, ev, t, slRow, h>>, bud' = bud \/ Fault,
         tp' \in [Targets -> TargetOrder], tpRow' \in [Targets -> RowStatus],
         pc' \in Plain
  PROVE  IInv'
<1>1. Others' /\ SameHands
  BY OldRows, OthersTyped
<1>2. QuietStops /\ QuietRecord
  BY StillStops, RecordSame
<1> QED
  BY <1>1, <1>2, OldRows, QuietPlain

LEMMA TargetAnsweredInv == ASSUME IInv, TargetAnswered PROVE IInv'
<1>1. /\ UNCHANGED <<pos, sl, tp, ev, t, slRow, h, bud>> /\ pc' = "tps"
      /\ \E st : tpRow' = [tpRow EXCEPT ![Sent] = Status(st)]
  BY Zenon DEF TargetAnswered, GoTo, exchange
<1>2. tpRow' \in [Targets -> RowStatus]
  BY <1>1, RowMark, StatusTyped
<1> QED
  BY <1>1, <1>2, OldRows, TargetStep DEF Plain

LEMMA TargetResolvedInv == ASSUME IInv, TargetResolved PROVE IInv'
<1>1. /\ UNCHANGED <<pos, sl, tp, ev, t, slRow, h>> /\ pc' = "tps"
      /\ \/ tpRow' = [tpRow EXCEPT ![Sent] = Status(tp[Sent])] /\ bud' = bud
         \/ Fault /\ tpRow' = tpRow
  BY DEF TargetResolved, GoTo, exchange
<1>2. tpRow' \in [Targets -> RowStatus]
  BY <1>1, OldRows, RowMark, StatusTyped
<1> QED
  BY <1>1, <1>2, OldRows, TargetStep DEF Plain

LEMMA TargetRefusedInv == ASSUME IInv, TargetRefused PROVE IInv'
<1>1. /\ UNCHANGED <<pos, sl, ev, t, slRow, h>> /\ pc' = "tps" /\ Fault
      /\ tp' = [tp EXCEPT ![Sent] = "none"] /\ tpRow' = [tpRow EXCEPT ![Sent] = "REJECTED"]
  BY DEF TargetRefused, TargetNotTaken, GoTo
<1>2. tp' \in [Targets -> TargetOrder] /\ tpRow' \in [Targets -> RowStatus]
  BY <1>1, OldRows, RowMark, RowNames DEF TargetOrder
<1> QED
  BY <1>1, <1>2, TargetStep DEF Plain

LEMMA TargetUnknownInv == ASSUME IInv, TargetUnknown PROVE IInv'
<1>1. /\ UNCHANGED <<pos, sl, tp, ev, t, slRow, h>> /\ pc = "tpsent" /\ pc' = "tpresolve"
      /\ tpRow' = [tpRow EXCEPT ![Sent] = "UNKNOWN"] /\ Fault
  BY DEF TargetUnknown, GoTo, exchange
<1>2. Others' /\ SameHands /\ QuietStops /\ QuietRecord
  BY <1>1, OldRows, RowMark, RowNames, OthersTyped, StillStops, RecordSame
<1>3. FrameOK' /\ pc' \in Pc
  BY <1>1 DEF IInv, FrameOK, ClosePc, Pc
<1> QED
  BY <1>1, <1>2, <1>3, OldRows, Quiet DEF IInv, NeverMissed, SameHands

LEMMA TargetImmediateInv == ASSUME IInv, TargetImmediate PROVE IInv'
<1>1. /\ UNCHANGED <<pos, sl, ev, t, slRow, h, bud>> /\ pc = "tpsent" /\ pc' = "now"
      /\ tp[Sent] = "flight"
      /\ tp' = [tp EXCEPT ![Sent] = "none"] /\ tpRow' = [tpRow EXCEPT ![Sent] = "REJECTED"]
  BY DEF TargetImmediate, TargetNotTaken, GoTo
<1>2. tp' \in [Targets -> TargetOrder] /\ tpRow' \in [Targets -> RowStatus]
  BY <1>1, OldRows, RowMark, RowNames DEF TargetOrder
<1>3. Others' /\ SameHands /\ QuietStops /\ QuietRecord
  BY <1>1, <1>2, OldRows, OthersTyped, StillStops, RecordSame
<1>4. FrameOK' /\ pc' \in Pc
  BY <1>1 DEF IInv, FrameOK, ClosePc, Pc
<1> QED
  BY <1>1, <1>3, <1>4, OldRows, Quiet DEF IInv, NeverMissed, SameHands

LEMMA PartialNowInv == ASSUME IInv, PartialNow PROVE IInv'
<1> DEFINE n == t.ntp[h.lev] + 1
<1>1. /\ UNCHANGED <<pos, sl, ev, slRow, h>> /\ pc = "now" /\ (bud' = bud \/ Fault)
      /\ \/ /\ t' = WithNtp(t, h.lev, n)
            /\ tpRow' = [tpRow EXCEPT ![<<h.lev, n>>] = "PENDING_SUBMIT"]
            /\ tp' = [tp EXCEPT ![<<h.lev, n>>] = "mflight"]
            /\ pc' = "tpsent" /\ bud' = bud
         \/ pc' = "tps" /\ UNCHANGED <<t, tp, tpRow>>
  BY DEF PartialNow, GoTo, WithNtp
<1>2. h \in Frame /\ h.lev \in Levels /\ n \in 1..MaxTp
  BY <1>1, OldRows DEF IInv, FrameOK
<1> HIDE DEF n
<1>3. CASE pc' = "tps" /\ UNCHANGED <<t, tp, tpRow>>
  BY <1>1, <1>3, OldRows, TargetStep DEF Plain
<1>4. CASE /\ t' = WithNtp(t, h.lev, n)
           /\ tpRow' = [tpRow EXCEPT ![<<h.lev, n>>] = "PENDING_SUBMIT"]
           /\ tp' = [tp EXCEPT ![<<h.lev, n>>] = "mflight"]
           /\ pc' = "tpsent" /\ bud' = bud
  BY <1>1, <1>2, <1>4, TargetSent
<1> QED
  BY <1>1, <1>3, <1>4

LEMMA TargetsPlacedInv == ASSUME IInv, TargetsPlaced PROVE IInv'
<1>1. UNCHANGED <<pos, sl, tp, ev, slRow, tpRow, bud>> /\ (t' = t \/ t' = Refreshed(t)) /\ Done
  BY DEF TargetsPlaced, exchange, rows
<1>2. Others' /\ SameHands /\ QuietStops
  BY <1>1, OthersSame, StillStops
<1>3. QuietRecord
  BY <1>1, OldRows, KeepsItself, RecordSame, RecordRefreshed
<1>4. pc' \in {"idle", "sweep"} /\ Returning(h')
  BY <1>1, DoneDoes DEF IInv
<1> QED
  BY <1>1, <1>2, <1>3, <1>4, QuietPlain DEF Plain, Returning

LEMMA TargetingInv == ASSUME IInv, Targeting PROVE IInv'
  BY NextTargetInv, TargetAnsweredInv, TargetUnknownInv, TargetResolvedInv,
     TargetRefusedInv, TargetImmediateInv, PartialNowInv, TargetsPlacedInv, Zenon
  DEF Targeting

----------------------------------------------------------------------------
(* Closing. *)

LEMMA CancelledDoes ==
  ASSUME IInv, NEW S \in SUBSET OpenStops, Cancelled(S, OpenTargets)
  PROVE  /\ Others' /\ SameHands /\ ev' = ev /\ pos' = pos /\ SoundStops
         /\ S = {} => StopsStay
<1>1. PICK ns \in SUBSET S, is \in SUBSET OpenTargets :
         /\ bud' = bud \/ Fault
         /\ sl' = StopsWithout(ns)
         /\ tp' = TargetsWithout(is)
         /\ slRow' = [n \in Stops |-> IF n \in ns THEN "CANCELED" ELSE slRow[n]]
         /\ tpRow' = [i \in Targets |-> IF i \in is THEN "CANCELED" ELSE tpRow[i]]
         /\ UNCHANGED <<pos, ev>>
  BY Zenon DEF Cancelled
<1>2. tp' \in [Targets -> TargetOrder] /\ slRow' \in [Stops -> RowStatus]
      /\ tpRow' \in [Targets -> RowStatus]
  BY <1>1, OldRows, RowNames DEF TargetOrder, TargetsWithout
<1>3. Others' /\ SameHands
  BY <1>1, <1>2, OthersTyped
<1>4. \A n \in Stops : [sl[n] EXCEPT !.st = "gone"] \in StopOrder
                    /\ [sl[n] EXCEPT !.st = "gone"].st = "gone"
                    /\ [sl[n] EXCEPT !.st = "gone"].lvl = sl[n].lvl
  BY OldRows DEF StopOrder
<1>5. /\ sl' \in [Stops -> StopOrder]
      /\ \A n \in Stops : /\ sl'[n].lvl = sl[n].lvl
                          /\ n \in ns => sl'[n].st = "gone"
                          /\ n \notin ns => sl'[n] = sl[n]
  BY <1>1, <1>4, OldRows DEF StopsWithout
<1>6. \A n \in ns : sl[n].st = "open"
  BY DEF OpenStops
<1>7. SoundStops
  BY <1>1, <1>5, <1>6 DEF IInv, StopsInOrder, SoundStops
<1>8. S = {} => StopsStay
  BY <1>5 DEF StopsStay
<1> QED
  BY <1>1, <1>3, <1>7, <1>8

LEMMA CloseTargetsInv == ASSUME IInv, CloseTargets PROVE IInv'
<1>1. /\ pc = "closetp" /\ Cancelled({}, OpenTargets) /\ t' = t
      /\ pc' = "closeq" /\ h' = WithAtt(h, 1)
  BY DEF CloseTargets, WithAtt
<1>2. Others' /\ SameHands /\ ev' = ev /\ pos' = pos /\ SoundStops /\ StopsStay
  BY <1>1, CancelledDoes
<1>3. QuietStops /\ QuietRecord
  BY <1>1, <1>2, OldRows, RecordSame DEF QuietStops
<1>4. h' \in Frame /\ h'.job = h.job
  BY <1>1, OldRows, AttUpdate DEF SameJob
<1>5. t'.st = "CLOSING"
  BY <1>1 DEF IInv, FrameOK, ClosePc
<1> QED
  BY <1>1, <1>2, <1>3, <1>4, <1>5, QuietPlain DEF ClosePc

\* A step of close() or finalize() that moves on while the trade is closing.
LEMMA ClosingStep ==
  ASSUME IInv, pc \in ClosePc, pos' \in 0..Qty, pos' <= pos, bud' = bud \/ Fault,
         UNCHANGED <<sl, tp, ev, t, slRow, tpRow>>, pc' \in ClosePc,
         h' \in Frame, h'.job = h.job
  PROVE  IInv'
<1>1. Others' /\ SameHands /\ SoundStops /\ StopsStay /\ QuietRecord
  BY OthersSame, StopsSame, RecordSame
<1>2. QuietStops
  BY <1>1 DEF QuietStops
<1>3. t'.st = "CLOSING"
  BY DEF IInv, FrameOK
<1> QED
  BY <1>1, <1>2, <1>3, QuietPlain

LEMMA NextAttemptDoes ==
  ASSUME IInv, NextAttempt
  PROVE  pc' \in ClosePc /\ h' \in Frame /\ h'.job = h.job
<1>1. CASE h.att < 3 /\ pc' = "closeq" /\ h' = [h EXCEPT !.att = @ + 1]
  <2>1. h' = WithAtt(h, h.att + 1) /\ h.att + 1 \in 0..3 /\ h \in Frame
    BY <1>1, OldRows DEF WithAtt, Frame
  <2> QED
    BY <1>1, <2>1, AttUpdate DEF SameJob, ClosePc
<1>2. CASE pc' = "closeend" /\ h' = h
  BY <1>2, OldRows DEF ClosePc
<1> QED
  BY <1>1, <1>2 DEF NextAttempt, GoTo

LEMMA CloseQueryInv == ASSUME IInv, CloseQuery PROVE IInv'
<1>1. /\ UNCHANGED <<pos, sl, tp, ev, t, slRow, tpRow>> /\ pc = "closeq"
      /\ bud' = bud \/ Fault
      /\ \/ pc' \in {"closeend", "closesend"} /\ h' = h
         \/ NextAttempt
  BY DEF CloseQuery, GoTo, exchange, rows
<1>2. pc' \in ClosePc /\ h' \in Frame /\ h'.job = h.job
  BY <1>1, OldRows, NextAttemptDoes DEF ClosePc
<1> QED
  BY <1>1, <1>2, OldRows, ClosingStep DEF ClosePc

LEMMA CloseSendInv == ASSUME IInv, CloseSend PROVE IInv'
<1>1. /\ UNCHANGED <<sl, tp, ev, t, slRow, tpRow>> /\ pc = "closesend"
      /\ bud' = bud \/ Fault
      /\ \/ pos' \in 0..(IF pos = 0 THEN 0 ELSE pos - 1)
         \/ pos' \in 0..pos
      /\ NextAttempt
  BY DEF CloseSend, rows
<1>2. pos' \in 0..Qty /\ pos' <= pos
  BY <1>1, OldRows
<1>3. pc' \in ClosePc /\ h' \in Frame /\ h'.job = h.job
  BY <1>1, NextAttemptDoes
<1> QED
  BY <1>1, <1>2, <1>3, ClosingStep DEF ClosePc

LEMMA CloseEndInv == ASSUME IInv, CloseEnd PROVE IInv'
<1>1. /\ UNCHANGED <<pos, sl, tp, ev, slRow, tpRow>> /\ pc = "closeend"
      /\ bud' = bud \/ Fault
      /\ \/ t' = WithSt(t, "ERROR") /\ Done
         \/ t' = t /\ pc' = "final" /\ h' = h
  BY DEF CloseEnd, GoTo, exchange, rows, WithSt
<1>2. CASE t' = t /\ pc' = "final" /\ h' = h
  BY <1>1, <1>2, OldRows, ClosingStep DEF ClosePc
<1>3. CASE t' = WithSt(t, "ERROR") /\ Done
  <2>1. Others' /\ SameHands /\ QuietStops
    BY <1>1, OthersSame, StillStops
  <2>2. QuietRecord
    BY <1>3, RecordSt, StateNames DEF Holding
  <2>3. pc' \in {"idle", "sweep"} /\ Returning(h')
    BY <1>3, DoneDoes DEF IInv
  <2> QED
    BY <1>1, <2>1, <2>2, <2>3, QuietPlain DEF Plain, Returning
<1> QED
  BY <1>1, <1>2, <1>3

LEMMA FinalCancelInv == ASSUME IInv, FinalCancel PROVE IInv'
<1>1. pc = "final" /\ Cancelled(OpenStops, OpenTargets) /\ t' = t /\ pc' = "final2" /\ h' = h
  BY DEF FinalCancel, GoTo
<1>2. Others' /\ SameHands /\ ev' = ev /\ pos' = pos /\ SoundStops
  BY <1>1, CancelledDoes
<1>3. t'.st = "CLOSING" /\ t'.st \notin Holding
  BY <1>1 DEF IInv, FrameOK, ClosePc, Holding
<1>4. QuietStops /\ QuietRecord
  BY <1>1, <1>2, <1>3, OldRows, RecordSame DEF QuietStops
<1> QED
  BY <1>1, <1>2, <1>3, <1>4, OldRows, QuietPlain DEF ClosePc

LEMMA FinalClosedInv == ASSUME IInv, FinalClosed PROVE IInv'
<1>1. /\ UNCHANGED <<pos, sl, tp, ev, slRow, tpRow, bud>> /\ t' = WithSt(t, "CLOSED") /\ Done
  BY DEF FinalClosed, exchange, rows, WithSt
<1>2. Others' /\ SameHands /\ QuietStops
  BY <1>1, OthersSame, StillStops
<1>3. QuietRecord
  BY <1>1, RecordSt, StateNames DEF Holding
<1>4. pc' \in {"idle", "sweep"} /\ Returning(h')
  BY <1>1, DoneDoes DEF IInv
<1> QED
  BY <1>1, <1>2, <1>3, <1>4, QuietPlain DEF Plain, Returning

LEMMA ClosingInv == ASSUME IInv, Closing PROVE IInv'
  BY CloseTargetsInv, CloseQueryInv, CloseSendInv, CloseEndInv, FinalCancelInv,
     FinalClosedInv, Zenon DEF Closing

----------------------------------------------------------------------------
(* User events, checks and bars. *)

\* close() or on_flat() takes over from a record like t.
LEMMA ClosingStarts ==
  ASSUME IInv, UNCHANGED <<pos, sl, tp, ev, slRow, tpRow>>, bud' = bud \/ Fault,
         NEW r, Keeps(r, t), CloseNow(r) \/ OnFlat(r)
  PROVE  IInv'
<1>1. Keeps(t', t) /\ t'.st = "CLOSING" /\ pc' \in {"closetp", "final"} /\ Returning(h')
  BY CloseNowDoes, OnFlatDoes DEF IInv
<1>2. Others' /\ SameHands /\ QuietStops /\ QuietRecord
  BY <1>1, OthersSame, StillStops, RecordClosing
<1> QED
  BY <1>1, <1>2, QuietPlain DEF ClosePc, Returning

\* The handler returns with the record relabelled at most.
LEMMA HandlerReturns ==
  ASSUME IInv, UNCHANGED <<pos, sl, tp, ev, slRow, tpRow>>, bud' = bud \/ Fault,
         QuietRecord, Done
  PROVE  IInv'
<1>1. pc' \in {"idle", "sweep"} /\ Returning(h')
  BY DoneDoes DEF IInv
<1>2. Others' /\ SameHands /\ QuietStops
  BY OthersSame, StillStops
<1> QED
  BY <1>1, <1>2, QuietPlain DEF Plain, Returning

\* The task goes on elsewhere.
LEMMA HandlerGoesOn ==
  ASSUME IInv, UNCHANGED <<pos, sl, tp, ev, slRow, tpRow>>, bud' = bud \/ Fault,
         QuietRecord, pc' \in Plain, h' \in Frame, h'.job \in {"none", h.job}
  PROVE  IInv'
<1>1. Others' /\ SameHands /\ QuietStops
  BY OthersSame, StillStops
<1> QED
  BY <1>1, QuietPlain

LEMMA CheckFlatInv == ASSUME IInv, CheckFlat PROVE IInv'
<1>1. /\ UNCHANGED <<pos, sl, tp, ev, slRow, tpRow>> /\ (bud' = bud \/ Fault)
      /\ OnFlat(t) \/ (Done /\ t' = t)
  BY DEF CheckFlat, exchange, rows
<1> QED
  BY <1>1, OldRows, KeepsItself, ClosingStarts, RecordSame, HandlerReturns

LEMMA MarkFilledInv == ASSUME IInv, MarkFilled PROVE IInv'
<1> DEFINE r == WithFilled(t, h.lev)
<1>1. /\ UNCHANGED <<pos, sl, tp, ev, slRow, tpRow>> /\ (bud' = bud \/ Fault) /\ pc = "mark"
      /\ OnFlat(r) \/ (Done /\ t' = Refreshed(r))
  BY DEF MarkFilled, exchange, rows, WithFilled
<1>2. h.lev \in Levels
  BY <1>1 DEF IInv, FrameOK
<1>3. Keeps(r, t) /\ r.st = t.st
  BY <1>2, OldRows, FilledUpdate
<1> HIDE DEF r
<1> QED
  BY <1>1, <1>3, ClosingStarts, RecordRefreshed, HandlerReturns

\* A record that names another resting stop.
LEMMA Renamed ==
  ASSUME IInv, NEW n \in OpenStops
  PROVE  LET r == WithStopId(t, n) IN
         /\ r \in TradeRecord /\ r.st = t.st /\ r.stop = t.stop /\ r.nsl = t.nsl
         /\ r.stopId = n /\ n <= t.nsl
<1>1. n \in Stops /\ sl[n].st = "open"
  BY DEF OpenStops
<1>2. n \in 0..MaxSl /\ n <= t.nsl
  BY <1>1, OldRows, MaxSlNat DEF Stops, IInv, StopsInOrder
<1> QED
  BY <1>2, OldRows, StopIdUpdate

LEMMA EnsureStopInv == ASSUME IInv, EnsureStop PROVE IInv'
<1>1. /\ UNCHANGED <<pos, sl, tp, ev, slRow, tpRow>> /\ (bud' = bud \/ Fault) /\ pc = "ensure"
      /\ \/ (\E n \in OpenStops : t' = WithStopId(t, n)) /\ Done
         \/ OpenStops = {} /\ t' = WithSt(t, "RECOVERY_REQUIRED") /\ pc' = "guard0" /\ h' = h
         \/ Done /\ t' = t
  BY DEF EnsureStop, GoTo, exchange, rows, WithStopId, WithSt
<1>2. t.st \in Holding
  BY <1>1 DEF IInv, FrameOK
<1>3. CASE (\E n \in OpenStops : t' = WithStopId(t, n)) /\ Done
  <2>1. QuietRecord
    BY <1>2, <1>3, Renamed DEF QuietRecord, Holding
  <2> QED
    BY <1>1, <1>3, <2>1, HandlerReturns
<1>4. CASE OpenStops = {} /\ t' = WithSt(t, "RECOVERY_REQUIRED") /\ pc' = "guard0" /\ h' = h
  <2>1. Untouched => pos = 0
    BY <1>2, <1>4, OldRows DEF IInv, Covered
  <2>2. Keeps(t', t)
    BY <1>4, OldRows, StUpdate, StateNames
  <2>3. QuietRecord
    BY <2>1, <2>2, RecordKept
  <2> QED
    BY <1>1, <1>4, <2>3, OldRows, HandlerGoesOn DEF Plain
<1>5. CASE Done /\ t' = t
  BY <1>1, <1>5, RecordSame, HandlerReturns
<1> QED
  BY <1>1, <1>3, <1>4, <1>5

LEMMA CheckingInv == ASSUME IInv, Checking PROVE IInv'
  BY CheckFlatInv, MarkFilledInv, EnsureStopInv, Zenon DEF Checking

LEMMA FlatEventInv == ASSUME IInv, FlatEvent PROVE IInv'
<1>1. /\ UNCHANGED <<pos, sl, tp, t, slRow, tpRow, h, bud>> /\ ev' \subseteq ev
      /\ pc' \in {"idle", "flat"}
  BY DEF FlatEvent, Take, GoTo, exchange, rows
<1>2. Others' /\ SameHands /\ QuietStops /\ QuietRecord
  BY <1>1, OthersSame, StillStops, RecordSame
<1> QED
  BY <1>1, <1>2, OldRows, QuietPlain DEF Plain

LEMMA TargetEventInv == ASSUME IInv, NEW l \in Levels, TargetEvent(l) PROVE IInv'
<1>1. /\ UNCHANGED <<pos, sl, tp, t, slRow, bud>> /\ ev' \subseteq ev
      /\ tpRow' = [i \in Targets |-> IF i[1] = l /\ tp[i] = "fired" THEN "FINISHED" ELSE tpRow[i]]
      /\ \/ pc' = "idle" /\ h' = h
         \/ pc' = "mark" /\ h' = WithLev(h, l)
  BY DEF TargetEvent, Take, GoTo, exchange, WithLev
<1>2. tpRow' \in [Targets -> RowStatus]
  BY <1>1, OldRows, RowNames
<1>3. Others' /\ SameHands /\ QuietStops /\ QuietRecord
  BY <1>1, <1>2, OldRows, OthersTyped, StillStops, RecordSame
<1>4. CASE pc' = "idle" /\ h' = h
  BY <1>1, <1>3, <1>4, OldRows, QuietPlain DEF Plain
<1>5. CASE pc' = "mark" /\ h' = WithLev(h, l)
  <2>1. l \in 0..NT
    BY DEF Levels
  <2>2. h' \in Frame /\ h'.job = h.job /\ h'.lev = l
    BY <1>5, <2>1, OldRows, LevUpdate DEF SameJob
  <2>3. FrameOK' /\ pc' \in Pc
    BY <1>5, <2>2 DEF FrameOK, ClosePc, Pc
  <2> QED
    BY <1>1, <1>3, <1>5, <2>2, <2>3, Quiet DEF IInv, NeverMissed, SameHands
<1> QED
  BY <1>1, <1>4, <1>5

LEMMA GoneEventInv == ASSUME IInv, NEW n \in Stops, GoneEvent(n) PROVE IInv'
<1>1. /\ UNCHANGED <<pos, sl, tp, t, tpRow, h, bud>> /\ ev' \subseteq ev
      /\ slRow' = [slRow EXCEPT ![n] = "CANCELED"]
      /\ \/ pc' = "idle"
         \/ pc' = "ensure" /\ t.st \in Holding
  BY DEF GoneEvent, Take, GoTo, exchange
<1>2. Others' /\ SameHands /\ QuietStops /\ QuietRecord
  BY <1>1, OldRows, RowMark, RowNames, OthersTyped, StillStops, RecordSame
<1>3. CASE pc' = "idle"
  BY <1>1, <1>2, <1>3, OldRows, QuietPlain DEF Plain
<1>4. CASE pc' = "ensure" /\ t.st \in Holding
  <2>1. FrameOK' /\ pc' \in Pc
    BY <1>1, <1>4 DEF FrameOK, ClosePc, Pc
  <2> QED
    BY <1>1, <1>2, <1>4, <2>1, OldRows, Quiet DEF IInv, NeverMissed, SameHands
<1> QED
  BY <1>1, <1>3, <1>4

LEMMA BarCloseInv == ASSUME IInv, NEW lvl \in 0..MaxLvl, BarClose(lvl) PROVE IInv'
<1> DEFINE r == WithLogic(t, lvl)
<1>1. /\ UNCHANGED <<pos, sl, tp, ev, slRow, tpRow, bud>> /\ pc = "idle" /\ t.st \in Holding
      /\ \/ CloseNow(r)
         \/ t' = Refreshed(r) /\ Done
         \/ t' = r /\ pc' = "stop" /\ h' = WithMove(h, lvl)
  <2>1. UNCHANGED <<pos, sl, tp, ev, slRow, tpRow, bud>> /\ pc = "idle" /\ t.st \in Holding
    BY DEF BarClose, exchange, rows
  <2>2. \/ CloseNow([t EXCEPT !.logic = lvl])
        \/ t' = Refreshed([t EXCEPT !.logic = lvl]) /\ Done
        \/ /\ t' = [t EXCEPT !.logic = lvl] /\ pc' = "stop"
           /\ h' = [h EXCEPT !.job = "move", !.want = lvl]
    BY Zenon DEF BarClose
  <2> QED
    BY <2>1, <2>2, Zenon DEF WithLogic, WithMove
<1>2. Keeps(r, t) /\ r.st = t.st
  BY OldRows, LogicUpdate
<1> HIDE DEF r
<1>3. CASE CloseNow(r)
  BY <1>1, <1>2, <1>3, ClosingStarts
<1>4. CASE t' = Refreshed(r) /\ Done
  BY <1>1, <1>2, <1>4, RecordRefreshed, HandlerReturns
<1>5. CASE t' = r /\ pc' = "stop" /\ h' = WithMove(h, lvl)
  <2>1. h' \in Frame /\ h'.job = "move"
    BY <1>5, OldRows, MoveUpdate
  <2>2. FrameOK' /\ pc' \in Pc /\ pc' \notin {"replace", "moved"}
    BY <1>1, <1>2, <1>5, <2>1, StopFrame
  <2>3. QuietRecord
    BY <1>1, <1>2, <1>5, RecordKept DEF Holding
  <2>4. Others' /\ SameHands /\ QuietStops
    BY <1>1, OthersSame, StillStops
  <2> QED
    BY <1>1, <2>1, <2>2, <2>3, <2>4, Quiet
<1> QED
  BY <1>1, <1>3, <1>4, <1>5

LEMMA UserEventInv == ASSUME IInv, UserEvent PROVE IInv'
  BY FlatEventInv, TargetEventInv, GoneEventInv, Zenon DEF UserEvent

----------------------------------------------------------------------------
(* The recovery. *)

LEMMA CompareInv ==
  ASSUME IInv, ResumeClose \/ ProtectAgain \/ ClosedOffline \/ NoTrade
  PROVE  IInv'
<1>1. /\ UNCHANGED <<pos, sl, tp, ev, slRow, tpRow, bud>>
      /\ \/ CloseNow(t) \/ OnFlat(t)
         \/ pc' \in {"guard0", "sweep"} /\ h' = h /\ t' = t
  BY DEF ResumeClose, ProtectAgain, ClosedOffline, NoTrade, Compare, GoTo, exchange, rows
<1> QED
  BY <1>1, OldRows, KeepsItself, ClosingStarts, RecordSame, HandlerGoesOn DEF Plain

LEMMA StopMissingInv == ASSUME IInv, StopMissing PROVE IInv'
<1>1. /\ UNCHANGED <<pos, sl, tp, ev, slRow, tpRow, bud>> /\ pc' = "guard0" /\ h' = h
      /\ t.st \in Holding \union {"RECOVERY_REQUIRED"} /\ OpenStops = {}
      /\ t' = WithSt(t, "RECOVERY_REQUIRED")
  BY DEF StopMissing, Compare, GoTo, exchange, rows, WithSt
<1>2. t.st = "RECOVERY_REQUIRED" \/ (Untouched => pos = 0)
  BY <1>1, OldRows DEF IInv, Covered
<1>3. Keeps(t', t) /\ t'.st = "RECOVERY_REQUIRED"
  BY <1>1, OldRows, StUpdate, StateNames
<1>4. QuietRecord
  BY <1>2, <1>3, RecordKept DEF Holding
<1> QED
  BY <1>1, <1>4, OldRows, HandlerGoesOn DEF Plain

LEMMA StopThereInv == ASSUME IInv, StopThere PROVE IInv'
<1>1. /\ UNCHANGED <<pos, sl, tp, ev, slRow, tpRow, bud>> /\ pc' = "tps"
      /\ h' = WithTodo(h, Levels)
      /\ t.st \in Holding \union {"RECOVERY_REQUIRED"}
      /\ \E n \in OpenStops :
           LET r == WithStopId(t, n) IN
           t' = IF t.st \in Holding THEN r ELSE Refreshed(WithSt(r, "PROTECTED"))
  BY Zenon DEF StopThere, Compare, exchange, rows, WithSt, WithStopId, WithTodo
<1>2. PICK n \in OpenStops :
        t' = IF t.st \in Holding THEN WithStopId(t, n)
             ELSE Refreshed(WithSt(WithStopId(t, n), "PROTECTED"))
  BY <1>1
<1> DEFINE r == WithStopId(t, n)
<1>3. /\ r \in TradeRecord /\ r.st = t.st /\ r.stop = t.stop /\ r.nsl = t.nsl
      /\ r.stopId = n /\ n <= t.nsl
  BY Renamed
<1> HIDE DEF r
<1>4. CASE t.st \in Holding
  <2>1. t' = r
    BY <1>2, <1>4 DEF r
  <2>2. QuietRecord
    BY <1>3, <1>4, <2>1 DEF QuietRecord, Holding
  <2>3. h' \in Frame /\ h'.job = h.job
    BY <1>1, OldRows, TodoUpdate DEF SameJob
  <2> QED
    BY <1>1, <2>2, <2>3, HandlerGoesOn DEF Plain
<1>5. CASE t.st \notin Holding
  <2> DEFINE q == WithSt(r, "PROTECTED")
  <2>1. t' = Refreshed(q)
    BY <1>2, <1>5 DEF r
  <2>2. q \in TradeRecord /\ Keeps(q, r) /\ q.st = "PROTECTED"
    BY <1>3, StUpdate, StateNames DEF Keeps
  <2> HIDE DEF q
  <2>3. Keeps(t', q) /\ t'.st \in Holding
    BY <2>1, <2>2, RefreshedUpdate, StateNames
  <2>4. Untouched => pos = 0
    BY <1>1, <1>5, OldRows DEF IInv, NeverMissed
  <2>5. QuietRecord
    BY <1>3, <2>2, <2>3, <2>4 DEF QuietRecord, Keeps, Holding
  <2>6. h' \in Frame /\ h'.job = h.job
    BY <1>1, OldRows, TodoUpdate DEF SameJob
  <2> QED
    BY <1>1, <2>5, <2>6, HandlerGoesOn DEF Plain
<1> QED
  BY <1>4, <1>5

LEMMA SweepInv == ASSUME IInv, Sweep PROVE IInv'
<1>1. PICK ns \in SUBSET Strays(OpenStops), is \in SUBSET Strays(OpenTargets),
           looked \in SUBSET {"stop", "tp"} :
         /\ UNCHANGED bud \/ Fault
         /\ sl' = StopsWithout(ns) /\ tp' = TargetsWithout(is)
         /\ slRow' = StopRows(ns \union IF "stop" \in looked
                                        THEN {n \in Stops : slRow[n] \in RowPending} ELSE {})
         /\ tpRow' = TargetRows(is \union IF "tp" \in looked
                                          THEN {i \in Targets : tpRow[i] \in RowPending} ELSE {})
  BY Zenon DEF Sweep
<1>2. UNCHANGED <<pos, ev, t>> /\ pc' = "idle" /\ h' = NoFrame
  BY DEF Sweep
<1>3. tp' \in [Targets -> TargetOrder]
  BY <1>1, OldRows DEF TargetOrder, TargetsWithout
<1>4. slRow' \in [Stops -> RowStatus] /\ tpRow' \in [Targets -> RowStatus]
  BY <1>1, OldRows, StatusTyped DEF StopRows, TargetRows
<1>5. Others' /\ SameHands
  BY <1>1, <1>3, <1>4, OthersTyped
<1>6. \A n \in Stops : [sl[n] EXCEPT !.st = "gone"] \in StopOrder
                    /\ [sl[n] EXCEPT !.st = "gone"].st = "gone"
                    /\ [sl[n] EXCEPT !.st = "gone"].lvl = sl[n].lvl
  BY OldRows DEF StopOrder
<1>7. /\ sl' \in [Stops -> StopOrder]
      /\ \A n \in Stops : /\ sl'[n].lvl = sl[n].lvl
                          /\ n \in ns => sl'[n].st = "gone"
                          /\ n \notin ns => sl'[n] = sl[n]
  BY <1>1, <1>6, OldRows DEF StopsWithout
<1>8. \A n \in ns : sl[n].st = "open"
  BY DEF Strays, OpenStops
<1>9. SoundStops
  BY <1>2, <1>7, <1>8 DEF IInv, StopsInOrder, SoundStops
<1>10. t.st \in Holding => StopsStay
  <2> SUFFICES ASSUME t.st \in Holding PROVE StopsStay
    OBVIOUS
  <2>1. t.st /= "CLOSED"
    BY DEF Holding
  <2>2. ns = {}
    BY <2>1 DEF Strays
  <2> QED
    BY <1>7, <2>2 DEF StopsStay
<1>11. QuietStops /\ QuietRecord
  BY <1>2, <1>9, <1>10, OldRows, RecordSame DEF QuietStops
<1> QED
  BY <1>2, <1>5, <1>11, NoFrameTyped, QuietPlain DEF Plain

LEMMA RecoveryInv == ASSUME IInv, Recovery PROVE IInv'
  BY QueryPositionInv, CompareInv, StopMissingInv, StopThereInv, SweepInv, Zenon DEF Recovery

----------------------------------------------------------------------------
(* The theorems. *)

LEMMA StepInv == IInv /\ [Next]_vars => IInv'
<1> SUFFICES ASSUME IInv, [Next]_vars PROVE IInv'
  OBVIOUS
<1>1. CASE Next
  <2>1. CASE Handlers
    BY <2>1, PlacingInv, TargetingInv, ClosingInv, CheckingInv, RecoveryInv, Zenon DEF Handlers
  <2> QED
    BY <1>1, <2>1, ExchangeInv, UserEventInv, BarCloseInv, ReconcileInv, CrashInv, RestartInv,
       Zenon DEF Next
<1>2. CASE UNCHANGED vars
  <2>1. UNCHANGED <<pos, sl, tp, ev, t, slRow, tpRow, pc, h, bud>>
    BY <1>2 DEF vars
  <2>2. OpenStops' = OpenStops /\ (Untouched' <=> Untouched) /\ Sent' = Sent
    BY <2>1 DEF OpenStops, Untouched, Sent
  <2>3. TypeOK' /\ StopsInOrder' /\ FrameOK'
    BY <2>1, <2>2 DEF IInv, TypeOK, StopsInOrder, FrameOK
  <2>4. NeverMissed' /\ Covered'
    BY <2>1, <2>2 DEF IInv, NeverMissed, Covered
  <2> QED
    BY <2>3, <2>4 DEF IInv
<1> QED
  BY <1>1, <1>2

\* Whatever the bounds, the record, the orders, the frame and the budgets stay
\* where the handlers expect them, and what a handler knows at its await is
\* still so when it goes on.
THEOREM Invariant == Spec => []IInv
  BY InitInv, StepInv, PTL DEF Spec

\* Every variable stays in its range: no order number runs over its bound.
THEOREM TypeCorrect == Spec => []TypeOK
<1>1. IInv => TypeOK
  BY DEF IInv
<1> QED
  BY <1>1, Invariant, PTL

\* For any number of contracts, targets, stop levels, failures and crashes: a
\* trade in a protected state whose position is open has a resting stop at the
\* recorded stop price or better, between any two steps of placing, moving and
\* cancelling stops, as long as nobody else touches the orders.
THEOREM StopCovers == Spec => []Covered
<1>1. IInv => Covered
  BY DEF IInv
<1> QED
  BY <1>1, Invariant, PTL

----------------------------------------------------------------------------
(* No handler asks for a transition that the table forbids.                *)

LEMMA TableFacts ==
  /\ \A s \in TradeState : CanMove(s, s)
  /\ \A s \in TradeState : s \notin {"IDLE", "SIGNAL_DETECTED", "ENTRY_PENDING", "CLOSED"}
                             => CanMove(s, "CLOSING")
  /\ \A s \in Holding : CanMove(s, "RECOVERY_REQUIRED") /\ CanMove("RECOVERY_REQUIRED", s)
  /\ \A s \in {"ENTRY_FILLED", "PROTECTING", "RECOVERY_REQUIRED"} : CanMove(s, "PROTECTING")
  /\ CanMove("PROTECTING", "PROTECTED")
  /\ CanMove("CLOSING", "ERROR") /\ CanMove("CLOSING", "CLOSED")
<1>1. \A s \in TradeState : s \notin {"IDLE", "SIGNAL_DETECTED", "ENTRY_PENDING", "CLOSED"}
                             => CanMove(s, "CLOSING")
  BY DEF CanMove, Allowed, IsForward, TradeState, WithPosition, Holding
<1>2. \A s \in Holding : CanMove(s, "RECOVERY_REQUIRED")
  BY DEF CanMove, Allowed, IsForward, Holding
<1>3. \A s \in Holding : CanMove("RECOVERY_REQUIRED", s)
  BY DEF CanMove, Allowed, IsForward, Holding, WithPosition
<1> QED
  BY <1>1, <1>2, <1>3 DEF CanMove, Allowed, IsForward, Holding, WithPosition

\* refresh_state advances the label along the table.
LEMMA ForwardAllowed ==
  ASSUME NEW from \in Holding, NEW to \in Holding, IsForward(from, to)
  PROVE  CanMove(from, to)
  BY DEF CanMove, IsForward, Allowed, Progress, Holding

LEMMA RefreshMoves ==
  ASSUME NEW r \in TradeRecord
  PROVE  CanMove(r.st, Refreshed(r).st)
<1>1. \/ Refreshed(r) = r
      \/ r.st \in Holding /\ IsForward(r.st, Label(r)) /\ Refreshed(r) = WithSt(r, Label(r))
  BY Zenon DEF Refreshed, WithSt
<1>2. Label(r) \in TradeState /\ Label(r) \in Holding
  BY LabelHolds, StateNames
<1>3. CASE Refreshed(r) = r
  BY <1>3 DEF CanMove
<1>4. CASE /\ r.st \in Holding /\ IsForward(r.st, Label(r))
           /\ Refreshed(r) = WithSt(r, Label(r))
  BY <1>2, <1>4, StUpdate, ForwardAllowed
<1> QED
  BY <1>1, <1>3, <1>4

\* What a step must show.
Moves == StateKnown' /\ CanMove(t.st, t'.st)

LEMMA KnownState == ASSUME IInv PROVE t \in TradeRecord /\ t.st \in TradeState
  BY DEF IInv, TypeOK, TradeRecord

\* Places at which nothing is asked of the state.
Free == Pc \ {"guard0", "stop", "sent", "resolve", "verify", "flat", "mark"}

LEMMA MovesFreely ==
  ASSUME IInv, StateKnown, pc' \in Free, CanMove(t.st, t'.st),
         t'.st \notin {"IDLE", "SIGNAL_DETECTED", "ENTRY_PENDING"}
  PROVE  Moves
  BY DEF Moves, StateKnown, Free

LEMMA StaysThere ==
  ASSUME IInv, StateKnown, t'.st = t.st, pc' \in Free \/ (pc' = pc /\ h'.job = h.job)
  PROVE  Moves
  BY KnownState, TableFacts DEF Moves, StateKnown, Free

LEMMA MovesClosing ==
  ASSUME IInv, StateKnown, t.st /= "CLOSED", t'.st = "CLOSING", pc' \in Free
  PROVE  Moves
  BY KnownState, TableFacts, MovesFreely DEF StateKnown

LEMMA FreeStates == {"idle", "sweep", "closetp", "final", "tps", "moved", "replace"} \subseteq Free
  BY DEF Free, Pc

LEMMA CloseNowMoves ==
  ASSUME IInv, StateKnown, NEW r, Keeps(r, t), t.st /= "CLOSED", CloseNow(r) \/ OnFlat(r)
  PROVE  Moves
  BY CloseNowDoes, OnFlatDoes, MovesClosing, FreeStates DEF IInv

LEMMA RefreshedMoves ==
  ASSUME IInv, StateKnown, NEW r \in TradeRecord, r.st = t.st, t' = Refreshed(r), pc' \in Free
  PROVE  Moves
<1>1. t'.st \notin {"IDLE", "SIGNAL_DETECTED", "ENTRY_PENDING"}
  BY RefreshedUpdate DEF StateKnown, Holding
<1> QED
  BY <1>1, RefreshMoves, MovesFreely

LEMMA DoneFree == ASSUME IInv, Done PROVE pc' \in Free /\ h'.job = "none"
  BY DoneDoes, FreeStates, NoFrameTyped DEF IInv

LEMMA HoldingOpen == "CLOSED" \notin Holding /\ "PROTECTING" \notin Holding
  BY DEF Holding

\* A stop that could not be placed.
LEMMA StopFailedMoves ==
  ASSUME IInv, StateKnown, pc \in {"sent", "resolve", "verify"}, StopFailed
  PROVE  Moves
<1>1. t \in TradeRecord /\ h \in Frame
  BY OldRows
<1>2. t.st /= "CLOSED"
  BY HoldingOpen DEF IInv, FrameOK, StateKnown
<1>3. CASE h.job = "protect" /\ pc' = "stop" /\ t' = t /\ h' = [h EXCEPT !.att = @ + 1]
  <2>1. h'.job = h.job
    BY <1>1, <1>3 DEF Frame
  <2> QED
    BY <1>3, <2>1, KnownState, TableFacts DEF Moves, StateKnown
<1>4. CASE CloseNow(t)
  BY <1>1, <1>2, <1>4, KeepsItself, CloseNowMoves
<1>5. CASE t' = Refreshed(t) /\ Done
  BY <1>1, <1>5, DoneFree, RefreshedMoves
<1> QED
  BY <1>3, <1>4, <1>5 DEF StopFailed

LEMMA StopConfirmedMoves ==
  ASSUME IInv, StateKnown, pc = "verify", StopConfirmed
  PROVE  Moves
<1> DEFINE r == WithStopId(t, t.nsl)
           m == WithStop(r, h.want)
<1>1. t \in TradeRecord /\ h \in Frame /\ t.nsl \in 0..MaxSl /\ h.want \in 0..MaxLvl
  BY OldRows DEF Frame
<1>2. r \in TradeRecord /\ r.st = t.st
  BY <1>1, StopIdUpdate
<1>3. m \in TradeRecord /\ m.st = t.st
  BY <1>1, <1>2, StopUpdate
<1>4. \/ h.job = "protect" /\ t' = WithSt(r, "PROTECTED") /\ pc' = "tps"
      \/ h.job = "move" /\ t' = m /\ pc' = "moved"
      \/ h.job = "replace" /\ t' = Refreshed(m) /\ Done
  BY DEF StopConfirmed, WithStopId, WithStop, WithSt
<1> HIDE DEF r, m
<1>5. CASE h.job = "protect" /\ t' = WithSt(r, "PROTECTED") /\ pc' = "tps"
  <2>1. t'.st = "PROTECTED"
    BY <1>2, <1>5, StUpdate, StateNames
  <2>2. t.st = "PROTECTING"
    BY <1>5 DEF StateKnown
  <2> QED
    BY <1>5, <2>1, <2>2, TableFacts, MovesFreely, FreeStates
<1>6. CASE h.job = "move" /\ t' = m /\ pc' = "moved"
  BY <1>3, <1>6, StaysThere, FreeStates
<1>7. CASE t' = Refreshed(m) /\ Done
  BY <1>3, <1>7, DoneFree, RefreshedMoves
<1> QED
  BY <1>4, <1>5, <1>6, <1>7

LEMMA PlacingMoves == ASSUME IInv, StateKnown, Placing PROVE Moves
<1>1. t \in TradeRecord /\ h \in Frame /\ t.nsl \in 0..MaxSl /\ t.st \in TradeState
  BY OldRows, KnownState
<1>2. CASE Protect
  <2>1. t' = WithSt(t, "PROTECTING") /\ pc' = "stop" /\ pc = "guard0"
    BY <1>2 DEF Protect, WithSt
  <2>2. t'.st = "PROTECTING"
    BY <1>1, <2>1, StUpdate, StateNames
  <2> QED
    BY <2>1, <2>2, TableFacts DEF StateKnown, Moves
<1>3. CASE StopSend
  <2>1. t' = WithNsl(t, t.nsl + 1) /\ pc' = "sent" /\ pc = "stop" /\ h' = h
        /\ t.nsl + 1 \in 0..MaxSl
    BY <1>1, <1>3, MaxSlNat DEF StopSend, WithNsl, GoTo
  <2>2. t'.st = t.st
    BY <1>1, <2>1, NslUpdate
  <2> QED
    BY <1>1, <2>1, <2>2, TableFacts DEF StateKnown, Moves
<1>4. CASE StopAnswered \/ StopUnknown
  <2>1. t' = t /\ h' = h /\ pc = "sent" /\ pc' \in {"verify", "resolve"}
    BY <1>4 DEF StopAnswered, StopUnknown, GoTo
  <2> QED
    BY <1>1, <2>1, TableFacts DEF StateKnown, Moves
<1>5. CASE StopImmediate
  <2>1. pc = "sent" /\ CloseNow(t)
    BY <1>5 DEF StopImmediate, StopNotTaken
  <2>2. t.st /= "CLOSED"
    BY <2>1, HoldingOpen DEF IInv, FrameOK, StateKnown
  <2> QED
    BY <1>1, <2>1, <2>2, KeepsItself, CloseNowMoves
<1>6. CASE StopRejected
  <2>1. pc = "sent" /\ (StopFailed \/ (pc' = "replace" /\ t' = t))
    BY <1>6 DEF StopRejected, StopNotTaken, GoTo
  <2> QED
    BY <2>1, StopFailedMoves, StaysThere, FreeStates
<1>7. CASE StopBlocked \/ StopUnresolved \/ VerifyFails
  BY <1>7, StopFailedMoves DEF StopBlocked, StopNotTaken, StopUnresolved, VerifyFails
<1>8. CASE StopResolved
  <2>1. pc = "resolve" /\ (StopFailed \/ (pc' = "verify" /\ t' = t /\ h' = h))
    BY <1>8 DEF StopResolved, GoTo
  <2>2. CASE pc' = "verify" /\ t' = t /\ h' = h
    BY <1>1, <2>1, <2>2, TableFacts DEF StateKnown, Moves
  <2> QED
    BY <2>1, <2>2, StopFailedMoves
<1>9. CASE Verify
  BY <1>9, StopFailedMoves, StopConfirmedMoves DEF Verify
<1>10. CASE CancelOld
  BY <1>1, <1>10, DoneFree, RefreshedMoves DEF CancelOld
<1>11. CASE CancelFirst
  <2>1. t' = t /\ pc' = "stop" /\ h' = WithReplace(h)
    BY <1>11 DEF CancelFirst, WithReplace
  <2>2. h'.job = "replace"
    BY <1>1, <2>1, ReplaceUpdate
  <2> QED
    BY <1>1, <2>1, <2>2, TableFacts DEF StateKnown, Moves
<1> QED
  BY <1>2, <1>3, <1>4, <1>5, <1>6, <1>7, <1>8, <1>9, <1>10, <1>11, Zenon DEF Placing

LEMMA TargetingMoves == ASSUME IInv, StateKnown, Targeting PROVE Moves
<1>1. t \in TradeRecord /\ h \in Frame /\ t.st \in TradeState
  BY OldRows, KnownState
<1>2. {"tps", "tpsent", "tpresolve", "now"} \subseteq Free
  BY DEF Free, Pc
<1>3. CASE t' = t /\ pc' \in {"tps", "tpsent", "tpresolve", "now"}
  BY <1>2, <1>3, StaysThere
<1>4. CASE NextTarget
  <2>1. pc' \in {"tps", "tpsent"} /\ (t' = t \/ t'.st = t.st)
    <3> DEFINE l == CHOOSE k \in h.todo : \A m \in h.todo : k <= m
    <3>1. t' = t \/ t' = [t EXCEPT !.ntp[l] = t.ntp[l] + 1]
      BY <1>4 DEF NextTarget
    <3> HIDE DEF l
    <3>2. [t EXCEPT !.ntp[l] = t.ntp[l] + 1].st = t.st
      BY <1>1 DEF TradeRecord
    <3>3. pc' \in {"tps", "tpsent"}
      BY <1>4 DEF NextTarget
    <3> QED
      BY <3>1, <3>2, <3>3
  <2> QED
    BY <1>2, <2>1, StaysThere
<1>5. CASE PartialNow
  <2>1. pc' \in {"tps", "tpsent"} /\ (t' = t \/ t' = [t EXCEPT !.ntp[h.lev] = t.ntp[h.lev] + 1])
    BY <1>5 DEF PartialNow, GoTo
  <2>2. [t EXCEPT !.ntp[h.lev] = t.ntp[h.lev] + 1].st = t.st
    BY <1>1 DEF TradeRecord
  <2> QED
    BY <1>2, <2>1, <2>2, StaysThere
<1>6. CASE TargetsPlaced
  BY <1>1, <1>6, DoneFree, RefreshedMoves, StaysThere DEF TargetsPlaced
<1> QED
  BY <1>3, <1>4, <1>5, <1>6
     DEF Targeting, TargetAnswered, TargetUnknown, TargetResolved, TargetRefused,
         TargetImmediate, TargetNotTaken, GoTo

LEMMA ClosingMoves == ASSUME IInv, StateKnown, Closing PROVE Moves
<1>1. t \in TradeRecord /\ t.st \in TradeState
  BY OldRows, KnownState
<1>2. pc \in ClosePc /\ t.st = "CLOSING"
  BY DEF Closing, CloseTargets, CloseQuery, CloseSend, CloseEnd, FinalCancel, FinalClosed,
         ClosePc, IInv, FrameOK
<1>3. ClosePc \subseteq Free
  BY DEF ClosePc, Free, Pc
<1>4. CASE t' = t /\ pc' \in ClosePc
  BY <1>3, <1>4, StaysThere
<1>5. CASE t' = WithSt(t, "ERROR") /\ Done
  <2>1. t'.st = "ERROR"
    BY <1>1, <1>5, StUpdate, StateNames
  <2> QED
    BY <1>2, <1>5, <2>1, DoneFree, TableFacts, MovesFreely
<1>6. CASE t' = WithSt(t, "CLOSED") /\ Done
  <2>1. t'.st = "CLOSED"
    BY <1>1, <1>6, StUpdate, StateNames
  <2> QED
    BY <1>2, <1>6, <2>1, DoneFree, TableFacts, MovesFreely
<1>7. CASE CloseTargets \/ CloseQuery \/ CloseSend \/ FinalCancel
  BY <1>4, <1>7 DEF CloseTargets, CloseQuery, CloseSend, FinalCancel, NextAttempt, GoTo, ClosePc
<1>8. CASE CloseEnd
  BY <1>4, <1>5, <1>8 DEF CloseEnd, WithSt, GoTo, ClosePc
<1>9. CASE FinalClosed
  BY <1>6, <1>9 DEF FinalClosed, WithSt
<1> QED
  BY <1>7, <1>8, <1>9 DEF Closing

LEMMA CheckingMoves == ASSUME IInv, StateKnown, Checking PROVE Moves
<1>1. t \in TradeRecord /\ t.st \in TradeState
  BY OldRows, KnownState
<1>2. CASE CheckFlat
  BY <1>1, <1>2, KeepsItself, CloseNowMoves, DoneFree, StaysThere DEF CheckFlat, StateKnown
<1>3. CASE MarkFilled
  <2> DEFINE r == WithFilled(t, h.lev)
  <2>1. pc = "mark" /\ (OnFlat(r) \/ (t' = Refreshed(r) /\ Done))
    BY <1>3 DEF MarkFilled, WithFilled
  <2>2. h.lev \in Levels
    BY <2>1 DEF IInv, FrameOK
  <2>3. Keeps(r, t) /\ r.st = t.st
    BY <1>1, <2>2, FilledUpdate
  <2> HIDE DEF r
  <2> QED
    BY <2>1, <2>3, CloseNowMoves, DoneFree, RefreshedMoves DEF Keeps, StateKnown
<1>4. CASE EnsureStop
  <2>1. pc = "ensure" /\ t.st \in Holding
    BY <1>4 DEF EnsureStop, IInv, FrameOK
  <2>2. CASE (\E n \in OpenStops : t' = WithStopId(t, n)) /\ Done
    <3>1. PICK n \in OpenStops : t' = WithStopId(t, n)
      BY <2>2
    <3>2. n \in 0..MaxSl
      BY MaxSlNat DEF OpenStops, Stops
    <3>3. t'.st = t.st
      BY <1>1, <3>1, <3>2, StopIdUpdate
    <3> QED
      BY <2>2, <3>3, DoneFree, StaysThere
  <2>3. CASE t' = WithSt(t, "RECOVERY_REQUIRED") /\ pc' = "guard0"
    <3>1. t'.st = "RECOVERY_REQUIRED"
      BY <1>1, <2>3, StUpdate, StateNames
    <3> QED
      BY <2>1, <2>3, <3>1, TableFacts DEF Moves, StateKnown
  <2>4. CASE t' = t /\ Done
    BY <2>4, DoneFree, StaysThere
  <2> QED
    BY <1>4, <2>2, <2>3, <2>4 DEF EnsureStop, WithStopId, WithSt, GoTo
<1> QED
  BY <1>2, <1>3, <1>4 DEF Checking

LEMMA RecoveryMoves == ASSUME IInv, StateKnown, Recovery PROVE Moves
<1>1. t \in TradeRecord /\ h \in Frame /\ t.st \in TradeState
  BY OldRows, KnownState
<1>2. {"ralgos", "idle", "sweep", "tps"} \subseteq Free
  BY DEF Free, Pc
<1>3. CASE QueryPosition \/ NoTrade \/ Sweep
  <2>1. t' = t /\ pc' \in {"ralgos", "idle", "sweep"}
    BY <1>3 DEF QueryPosition, NoTrade, Sweep, GoTo
  <2> QED
    BY <1>2, <2>1, StaysThere
<1>4. CASE ResumeClose \/ ClosedOffline
  BY <1>1, <1>4, KeepsItself, CloseNowMoves DEF ResumeClose, ClosedOffline
<1>5. CASE ProtectAgain
  BY <1>1, <1>5, TableFacts DEF ProtectAgain, GoTo, Moves, StateKnown
<1>6. CASE StopMissing
  <2>1. t.st \in Holding \union {"RECOVERY_REQUIRED"} /\ pc' = "guard0"
        /\ t' = WithSt(t, "RECOVERY_REQUIRED")
    BY <1>6 DEF StopMissing, GoTo, WithSt
  <2>2. t'.st = "RECOVERY_REQUIRED"
    BY <1>1, <2>1, StUpdate, StateNames
  <2> QED
    BY <1>1, <2>1, <2>2, TableFacts DEF Moves, StateKnown
<1>7. CASE StopThere
  <2>1. PICK n \in OpenStops :
          t' = IF t.st \in Holding THEN WithStopId(t, n)
               ELSE Refreshed(WithSt(WithStopId(t, n), "PROTECTED"))
    BY <1>7 DEF StopThere, WithStopId, WithSt
  <2>2. t.st \in Holding \/ t.st = "RECOVERY_REQUIRED"
    BY <1>7 DEF StopThere
  <2>3. n \in 0..MaxSl
    BY MaxSlNat DEF OpenStops, Stops
  <2>4. WithStopId(t, n) \in TradeRecord /\ WithStopId(t, n).st = t.st
    BY <1>1, <2>3, StopIdUpdate
  <2>5. pc' = "tps"
    BY <1>7 DEF StopThere
  <2>6. CASE t.st \in Holding
    BY <1>2, <2>1, <2>4, <2>5, <2>6, StaysThere
  <2>7. CASE t.st = "RECOVERY_REQUIRED" /\ t.st \notin Holding
    <3> DEFINE q == WithSt(WithStopId(t, n), "PROTECTED")
    <3>1. q \in TradeRecord /\ q.st = "PROTECTED"
      BY <2>4, StUpdate, StateNames DEF Keeps
    <3>2. t' = Refreshed(q)
      BY <2>1, <2>7
    <3> HIDE DEF q
    <3>3. t'.st \in Holding
      BY <3>1, <3>2, RefreshedUpdate, StateNames
    <3>4. CanMove(t.st, t'.st)
      BY <2>7, <3>3, TableFacts
    <3> QED
      BY <1>2, <2>5, <3>3, <3>4, MovesFreely DEF Holding
  <2> QED
    BY <2>2, <2>6, <2>7
<1> QED
  BY <1>3, <1>4, <1>5, <1>6, <1>7, Zenon DEF Recovery

LEMMA EventMoves ==
  ASSUME IInv, StateKnown, UserEvent \/ (\E lvl \in 0..MaxLvl : BarClose(lvl))
  PROVE  Moves
<1>1. t \in TradeRecord /\ h \in Frame /\ t.st \in TradeState
  BY OldRows, KnownState
<1>2. CASE UserEvent
  <2>1. t' = t /\ (pc' \in {"idle", "ensure"} \/ (pc' \in {"flat", "mark"} /\ t.st /= "CLOSED"))
    BY <1>2 DEF UserEvent, FlatEvent, TargetEvent, GoneEvent, GoTo
  <2>2. "idle" \in Free /\ "ensure" \in Free
    BY DEF Free, Pc
  <2>3. CASE pc' \in {"flat", "mark"} /\ t.st /= "CLOSED"
    BY <1>1, <2>1, <2>3, TableFacts DEF Moves, StateKnown
  <2> QED
    BY <2>1, <2>2, <2>3, StaysThere
<1>3. CASE \E lvl \in 0..MaxLvl : BarClose(lvl)
  <2>1. PICK lvl \in 0..MaxLvl : BarClose(lvl)
    BY <1>3
  <2> DEFINE r == WithLogic(t, lvl)
  <2>2. /\ t.st \in Holding
        /\ \/ CloseNow(r)
           \/ t' = Refreshed(r) /\ Done
           \/ t' = r /\ pc' = "stop" /\ h' = WithMove(h, lvl)
    BY <2>1 DEF BarClose, WithLogic, WithMove
  <2>3. Keeps(r, t) /\ r.st = t.st /\ r \in TradeRecord
    BY <1>1, LogicUpdate DEF Keeps
  <2> HIDE DEF r
  <2>4. CASE t' = r /\ pc' = "stop" /\ h' = WithMove(h, lvl)
    <3>1. h'.job = "move"
      BY <1>1, <2>4, MoveUpdate
    <3> QED
      BY <1>1, <2>3, <2>4, <3>1, TableFacts DEF Moves, StateKnown
  <2> QED
    BY <2>2, <2>3, <2>4, CloseNowMoves, DoneFree, RefreshedMoves, HoldingOpen
<1> QED
  BY <1>2, <1>3

LEMMA StepMoves == ASSUME IInv, StateKnown, [Next]_vars PROVE Moves
<1>1. CASE Exchange \/ UNCHANGED vars
  <2>1. t' = t /\ pc' = pc /\ h' = h
    BY <1>1 DEF Exchange, StopLands, StopFires, TargetLands, TargetFires, RequestDies, External,
            EventsLost, vars
  <2> QED
    BY <2>1, StaysThere
<1>2. CASE Reconcile \/ Crash \/ Restart
  <2>1. t' = t /\ pc' \in {"rq", "down"}
    BY <1>2 DEF Reconcile, Crash, Restart
  <2>2. {"rq", "down"} \subseteq Free
    BY DEF Free, Pc
  <2> QED
    BY <2>1, <2>2, StaysThere
<1> QED
  BY <1>1, <1>2, PlacingMoves, TargetingMoves, ClosingMoves, CheckingMoves, RecoveryMoves,
     EventMoves, Zenon DEF Next, Handlers

LEMMA StateKnownInit == Init => StateKnown
  BY DEF Init, StateKnown

\* Whatever the order of the handlers, the events and the failures, the record
\* never makes a transition that _ALLOWED forbids, so transition() raises in none
\* of them.
THEOREM MovesLegal == Spec => LegalMoves
<1>1. IInv /\ StateKnown /\ [Next]_vars => StateKnown' /\ [CanMove(t.st, t'.st)]_vars
  BY StepMoves DEF Moves
<1> QED
  BY <1>1, InitInv, StepInv, StateKnownInit, PTL DEF Spec, LegalMoves

----------------------------------------------------------------------------
(* What the steps do to the rest of the record: the ladder's stop, the     *)
(* target orders drawn and the levels filled.                              *)

SameNotes(q, r) == q.ntp = r.ntp /\ q.logic = r.logic /\ q.filled = r.filled

LEMMA NotesKept ==
  ASSUME NEW r \in TradeRecord
  PROVE  /\ \A s : SameNotes(WithSt(r, s), r) /\ WithSt(r, s).stop = r.stop
         /\ \A n : SameNotes(WithStopId(r, n), r) /\ WithStopId(r, n).st = r.st
         /\ \A n : SameNotes(WithNsl(r, n), r) /\ WithNsl(r, n).st = r.st
         /\ \A v : SameNotes(WithStop(r, v), r) /\ WithStop(r, v).st = r.st
         /\ SameNotes(WithClosing(r), r)
<1>1. \A s : SameNotes(WithSt(r, s), r) /\ WithSt(r, s).stop = r.stop
  BY DEF SameNotes, WithSt, TradeRecord
<1>2. \A n : SameNotes(WithStopId(r, n), r) /\ WithStopId(r, n).st = r.st
  BY DEF SameNotes, WithStopId, TradeRecord
<1>3. \A n : SameNotes(WithNsl(r, n), r) /\ WithNsl(r, n).st = r.st
  BY DEF SameNotes, WithNsl, TradeRecord
<1>4. \A v : SameNotes(WithStop(r, v), r) /\ WithStop(r, v).st = r.st
  BY DEF SameNotes, WithStop, TradeRecord
<1>5. SameNotes(WithClosing(r), r)
  BY DEF SameNotes, WithClosing, TradeRecord
<1> QED
  BY <1>1, <1>2, <1>3, <1>4, <1>5

LEMMA NotesRefreshed ==
  ASSUME NEW r \in TradeRecord
  PROVE  SameNotes(Refreshed(r), r) /\ (Refreshed(r).st = "CLOSED" => r.st = "CLOSED")
<1>1. Refreshed(r) = r \/ Refreshed(r) = WithSt(r, Label(r))
  BY Zenon DEF Refreshed, WithSt
<1>2. SameNotes(Refreshed(r), r)
  BY <1>1, NotesKept DEF SameNotes
<1>3. Refreshed(r).st = "CLOSED" => r.st = "CLOSED"
  BY RefreshedUpdate, HoldingOpen
<1> QED
  BY <1>2, <1>3

LEMMA NotesTrans ==
  ASSUME NEW p, NEW q, NEW r, SameNotes(p, q), SameNotes(q, r)
  PROVE  SameNotes(p, r)
  BY DEF SameNotes

LEMMA NotesSame == \A r : SameNotes(r, r)
  BY DEF SameNotes

\* The handlers' record, but for target orders, fills and bars.
Unnoted == SameNotes(t', t) /\ (t'.st = "CLOSED" => t.st = "CLOSED")

LEMMA UnnotedSame == ASSUME t' = t PROVE Unnoted
  BY NotesSame DEF Unnoted

LEMMA UnnotedRefreshed ==
  ASSUME NEW r \in TradeRecord, SameNotes(r, t), r.st = t.st, t' = Refreshed(r)
  PROVE  Unnoted
  BY NotesRefreshed, NotesTrans DEF Unnoted

LEMMA UnnotedClosing ==
  ASSUME TypeOK, NEW r \in TradeRecord, CloseNow(r) \/ OnFlat(r)
  PROVE  SameNotes(t', r) /\ t'.st = "CLOSING"
<1>1. t' = WithClosing(r)
  BY DEF CloseNow, OnFlat, WithClosing
<1> QED
  BY <1>1, NotesKept, ClosingUpdate

LEMMA StopFailedUnnoted == ASSUME IInv, StopFailed PROVE Unnoted
<1>1. t \in TradeRecord /\ TypeOK
  BY OldRows DEF IInv
<1>2. t' = t \/ CloseNow(t) \/ t' = Refreshed(t)
  BY DEF StopFailed
<1> QED
  BY <1>1, <1>2, UnnotedSame, UnnotedRefreshed, UnnotedClosing, NotesSame DEF Unnoted

LEMMA StopConfirmedDoes ==
  ASSUME IInv, StopConfirmed
  PROVE  /\ Unnoted /\ t'.nsl = t.nsl
         /\ \/ /\ h.job = "protect" /\ pc' = "tps" /\ h' = WithTodo(h, Levels)
               /\ t'.stop = t.stop
            \/ h.job = "move" /\ pc' = "moved" /\ t'.stop = h.want /\ h'.job = "move"
               /\ h'.want = h.want
            \/ h.job = "replace" /\ Done /\ t'.stop = h.want
<1> DEFINE r == WithStopId(t, t.nsl)
           m == WithStop(r, h.want)
           p == WithSt(r, "PROTECTED")
<1>1. t \in TradeRecord /\ h \in Frame /\ t.nsl \in 0..MaxSl /\ h.want \in 0..MaxLvl
  BY OldRows DEF Frame
<1>2. r \in TradeRecord /\ r.st = t.st /\ SameNotes(r, t) /\ r.stop = t.stop /\ r.nsl = t.nsl
  BY <1>1, StopIdUpdate, NotesKept
<1>3. m \in TradeRecord /\ m.st = t.st /\ SameNotes(m, t) /\ m.stop = h.want /\ m.nsl = t.nsl
  BY <1>1, <1>2, StopUpdate, NotesKept, NotesTrans
<1>4. p.st = "PROTECTED" /\ SameNotes(p, t) /\ p.stop = t.stop /\ p.nsl = t.nsl
  BY <1>2, StUpdate, StateNames, NotesKept, NotesTrans DEF Keeps
<1>5. \/ h.job = "protect" /\ t' = p /\ pc' = "tps" /\ h' = WithTodo(h, Levels)
      \/ h.job = "move" /\ t' = m /\ pc' = "moved" /\ h' = [h EXCEPT !.old = t.stopId]
      \/ h.job = "replace" /\ t' = Refreshed(m) /\ Done
  BY DEF StopConfirmed, WithStopId, WithStop, WithSt, WithTodo
<1> HIDE DEF r, m, p
<1>6. CASE h.job = "protect" /\ t' = p /\ pc' = "tps" /\ h' = WithTodo(h, Levels)
  BY <1>4, <1>6 DEF Unnoted
<1>7. CASE h.job = "move" /\ t' = m /\ pc' = "moved" /\ h' = [h EXCEPT !.old = t.stopId]
  <2>1. h'.job = "move" /\ h'.want = h.want
    BY <1>1, <1>7 DEF Frame
  <2> QED
    BY <1>3, <1>7, <2>1 DEF Unnoted
<1>8. CASE h.job = "replace" /\ t' = Refreshed(m) /\ Done
  <2>1. Unnoted
    BY <1>3, <1>8, UnnotedRefreshed
  <2>2. t'.stop = h.want /\ t'.nsl = t.nsl
    BY <1>3, <1>8, RefreshedUpdate DEF Keeps
  <2> QED
    BY <1>8, <2>1, <2>2
<1> QED
  BY <1>5, <1>6, <1>7, <1>8

LEMMA PlacingUnnoted == ASSUME IInv, Placing PROVE Unnoted
<1>1. t \in TradeRecord /\ TypeOK
  BY OldRows DEF IInv
<1>2. CASE Protect
  <2>1. t' = WithSt(t, "PROTECTING")
    BY <1>2 DEF Protect, WithSt
  <2>2. t'.st = "PROTECTING"
    BY <1>1, <2>1, StUpdate, StateNames
  <2> QED
    BY <1>1, <2>1, <2>2, NotesKept DEF Unnoted
<1>3. CASE StopSend
  <2>1. t' = WithNsl(t, t.nsl + 1)
    BY <1>3 DEF StopSend, WithNsl
  <2> QED
    BY <1>1, <2>1, NotesKept DEF Unnoted
<1>4. CASE StopAnswered \/ StopUnknown \/ CancelFirst
  BY <1>4, UnnotedSame DEF StopAnswered, StopUnknown, CancelFirst
<1>5. CASE StopImmediate
  BY <1>1, <1>5, UnnotedClosing DEF StopImmediate, Unnoted
<1>6. CASE StopRejected \/ StopBlocked \/ StopResolved \/ StopUnresolved \/ VerifyFails
  BY <1>6, StopFailedUnnoted, UnnotedSame
     DEF StopRejected, StopBlocked, StopResolved, StopUnresolved, VerifyFails
<1>7. CASE Verify
  BY <1>7, StopFailedUnnoted, StopConfirmedDoes DEF Verify
<1>8. CASE CancelOld
  BY <1>1, <1>8, NotesSame, UnnotedRefreshed DEF CancelOld
<1> QED
  BY <1>2, <1>3, <1>4, <1>5, <1>6, <1>7, <1>8 DEF Placing

\* The targets: a number is drawn, or the label is refreshed.
LEMMA TargetingNotes ==
  ASSUME IInv, Targeting
  PROVE  /\ t'.logic = t.logic /\ t'.filled = t.filled
         /\ t'.st = "CLOSED" => t.st = "CLOSED"
         /\ t'.stop = t.stop
<1>1. t \in TradeRecord
  BY OldRows
<1>2. \A l, n : /\ WithNtp(t, l, n).st = t.st /\ WithNtp(t, l, n).logic = t.logic
                /\ WithNtp(t, l, n).filled = t.filled /\ WithNtp(t, l, n).stop = t.stop
  BY <1>1 DEF TradeRecord, WithNtp
<1>3. CASE NextTarget
  <2> DEFINE l == CHOOSE k \in h.todo : \A m \in h.todo : k <= m
  <2>1. t' = t \/ t' = WithNtp(t, l, t.ntp[l] + 1)
    BY <1>3 DEF NextTarget, WithNtp
  <2> HIDE DEF l
  <2> QED
    BY <1>2, <2>1
<1>4. CASE PartialNow
  <2>1. t' = t \/ t' = WithNtp(t, h.lev, t.ntp[h.lev] + 1)
    BY <1>4 DEF PartialNow, WithNtp
  <2> QED
    BY <1>2, <2>1
<1>5. CASE TargetsPlaced
  <2>1. t' = t \/ t' = Refreshed(t)
    BY <1>5 DEF TargetsPlaced
  <2> QED
    BY <1>1, <2>1, NotesRefreshed, RefreshedUpdate DEF SameNotes, Keeps
<1> QED
  BY <1>3, <1>4, <1>5
     DEF Targeting, TargetAnswered, TargetUnknown, TargetResolved, TargetRefused,
         TargetImmediate, TargetNotTaken

LEMMA RecoveryUnnoted == ASSUME IInv, Recovery PROVE Unnoted /\ t'.stop = t.stop
<1>1. t \in TradeRecord /\ TypeOK
  BY OldRows DEF IInv
<1>2. CASE QueryPosition \/ NoTrade \/ Sweep \/ ProtectAgain
  BY <1>2, UnnotedSame DEF QueryPosition, NoTrade, Sweep, ProtectAgain
<1>3. CASE ResumeClose \/ ClosedOffline
  <2>1. CloseNow(t) \/ OnFlat(t)
    BY <1>3 DEF ResumeClose, ClosedOffline
  <2> QED
    BY <1>1, <2>1, UnnotedClosing, CloseNowDoes, OnFlatDoes, KeepsItself DEF Unnoted, Keeps
<1>4. CASE StopMissing
  <2>1. t' = WithSt(t, "RECOVERY_REQUIRED")
    BY <1>4 DEF StopMissing, WithSt
  <2>2. t'.st = "RECOVERY_REQUIRED"
    BY <1>1, <2>1, StUpdate, StateNames
  <2> QED
    BY <1>1, <2>1, <2>2, NotesKept DEF Unnoted
<1>5. CASE StopThere
  <2>1. PICK n \in OpenStops :
          t' = IF t.st \in Holding THEN WithStopId(t, n)
               ELSE Refreshed(WithSt(WithStopId(t, n), "PROTECTED"))
    BY <1>5 DEF StopThere, WithStopId, WithSt
  <2>2. n \in 0..MaxSl
    BY MaxSlNat DEF OpenStops, Stops
  <2> DEFINE q == WithStopId(t, n)
             p == WithSt(q, "PROTECTED")
  <2>3. q \in TradeRecord /\ q.st = t.st /\ SameNotes(q, t) /\ q.stop = t.stop
    BY <1>1, <2>2, StopIdUpdate, NotesKept
  <2>4. p \in TradeRecord /\ p.st = "PROTECTED" /\ SameNotes(p, t) /\ p.stop = t.stop
    BY <2>3, StUpdate, StateNames, NotesKept, NotesTrans DEF Keeps
  <2> HIDE DEF q, p
  <2>5. CASE t' = q
    BY <2>3, <2>5 DEF Unnoted
  <2>6. CASE t' = Refreshed(p)
    <3>1. SameNotes(t', t) /\ t'.st /= "CLOSED"
      BY <2>4, <2>6, NotesRefreshed, NotesTrans
    <3>2. t'.stop = t.stop
      BY <2>4, <2>6, RefreshedUpdate DEF Keeps
    <3> QED
      BY <3>1, <3>2 DEF Unnoted
  <2> QED
    BY <2>1, <2>5, <2>6 DEF q, p
<1> QED
  BY <1>2, <1>3, <1>4, <1>5 DEF Recovery

----------------------------------------------------------------------------
(* No step leaves a position with a worse stop.  First: the best of the    *)
(* open stops.                                                             *)

OpenIn(f) == {n \in Stops : f[n].st = "open"}
BestOf(f) == LET lvls == {f[n].lvl : n \in OpenIn(f)} IN
             IF lvls = {} THEN -1 ELSE CHOOSE m \in lvls : \A k \in lvls : k <= m

LEMMA TopLevel ==
  ASSUME NEW T, T \subseteq 0..MaxLvl, T /= {}
  PROVE  \E m \in T : \A k \in T : k <= m
<1> DEFINE U == {MaxLvl - k : k \in T}
<1>1. U \subseteq Nat /\ U /= {}
  <2>1. \A k \in T : MaxLvl - k \in Nat
    OBVIOUS
  <2>2. U \subseteq Nat
    BY <2>1
  <2>3. PICK k \in T : TRUE
    OBVIOUS
  <2>4. MaxLvl - k \in U
    OBVIOUS
  <2> QED
    BY <2>2, <2>4
<1>2. PICK u \in U : \A v \in U : ~(<<v, u>> \in OpToRel(<, Nat))
  BY <1>1, NatLessThanWellFounded, WFMin
<1>3. \A v \in U : ~(v < u)
  BY <1>1, <1>2 DEF OpToRel
<1>4. PICK m \in T : u = MaxLvl - m
  OBVIOUS
<1>5. \A k \in T : MaxLvl - k \in U
  OBVIOUS
<1>6. \A k \in T : k <= m
  BY <1>3, <1>4, <1>5
<1> QED
  BY <1>6

LEMMA BestIs ==
  ASSUME NEW f \in [Stops -> StopOrder]
  PROVE  /\ OpenIn(f) = {} => BestOf(f) = -1
         /\ OpenIn(f) /= {} => /\ \E n \in OpenIn(f) : BestOf(f) = f[n].lvl
                               /\ \A n \in OpenIn(f) : f[n].lvl <= BestOf(f)
<1> DEFINE lvls == {f[n].lvl : n \in OpenIn(f)}
<1>1. lvls \subseteq 0..MaxLvl
  BY DEF OpenIn, StopOrder
<1>2. lvls = {} <=> OpenIn(f) = {}
  OBVIOUS
<1>3. ASSUME lvls /= {}
      PROVE  BestOf(f) \in lvls /\ \A k \in lvls : k <= BestOf(f)
  <2>1. \E m \in lvls : \A k \in lvls : k <= m
    BY <1>1, <1>3, TopLevel
  <2>2. BestOf(f) = CHOOSE m \in lvls : \A k \in lvls : k <= m
    BY <1>3 DEF BestOf
  <2> HIDE DEF lvls
  <2> QED
    BY <2>1, <2>2
<1>4. lvls = {} => BestOf(f) = -1
  BY DEF BestOf
<1> QED
  BY <1>2, <1>3, <1>4

LEMMA BestAtLeast ==
  ASSUME NEW f \in [Stops -> StopOrder], NEW g \in [Stops -> StopOrder],
         \A n \in OpenIn(f) : \E m \in OpenIn(g) : f[n].lvl <= g[m].lvl
  PROVE  BestOf(g) >= BestOf(f)
<1>1. \A n \in OpenIn(f) : f[n].lvl \in 0..MaxLvl
  BY DEF OpenIn, StopOrder
<1>2. \A n \in OpenIn(g) : g[n].lvl \in 0..MaxLvl
  BY DEF OpenIn, StopOrder
<1>3. CASE OpenIn(f) = {} /\ OpenIn(g) = {}
  BY <1>3, BestIs
<1>4. CASE OpenIn(f) = {} /\ OpenIn(g) /= {}
  <2>1. BestOf(f) = -1
    BY <1>4, BestIs
  <2>2. PICK n \in OpenIn(g) : BestOf(g) = g[n].lvl
    BY <1>4, BestIs
  <2> QED
    BY <1>2, <2>1, <2>2
<1>5. CASE OpenIn(f) /= {}
  <2>1. PICK n \in OpenIn(f) : BestOf(f) = f[n].lvl
    BY <1>5, BestIs
  <2>2. PICK m \in OpenIn(g) : f[n].lvl <= g[m].lvl
    OBVIOUS
  <2>3. PICK k \in OpenIn(g) : BestOf(g) = g[k].lvl
    BY <2>2, BestIs
  <2>4. g[m].lvl <= BestOf(g)
    BY <2>2, BestIs
  <2> QED
    BY <1>1, <1>2, <2>1, <2>2, <2>3, <2>4
<1> QED
  BY <1>3, <1>4, <1>5

\* The levels stay, and so do the open stops.
LevelsStay == \A n \in Stops : sl'[n].lvl = sl[n].lvl
OpenStay   == \A n \in OpenStops : n \in OpenStops' /\ sl'[n].lvl = sl[n].lvl

LEMMA NotWorse ==
  ASSUME IInv, IInv', \A n \in OpenStops : \E m \in OpenStops' : sl'[m].lvl >= sl[n].lvl
  PROVE  Best' >= Best
<1>1. sl \in [Stops -> StopOrder] /\ sl' \in [Stops -> StopOrder]
  BY DEF IInv, TypeOK
<1>2. Best = BestOf(sl) /\ Best' = BestOf(sl')
  BY DEF Best, BestOf, OpenStops, OpenIn
<1>3. \A n \in OpenIn(sl) : \E m \in OpenIn(sl') : sl[n].lvl <= sl'[m].lvl
  <2> SUFFICES ASSUME NEW n \in OpenIn(sl)
               PROVE  \E m \in OpenIn(sl') : sl[n].lvl <= sl'[m].lvl
    OBVIOUS
  <2>1. PICK m \in OpenStops' : sl'[m].lvl >= sl[n].lvl
    BY DEF OpenStops, OpenIn
  <2>2. m \in OpenIn(sl') /\ sl[n].lvl \in 0..MaxLvl /\ sl'[m].lvl \in 0..MaxLvl
    BY <1>1 DEF OpenStops, OpenIn, StopOrder
  <2> QED
    BY <2>1, <2>2
<1> QED
  BY <1>1, <1>2, <1>3, BestAtLeast

LEMMA StaysGood == ASSUME IInv, IInv', OpenStay PROVE Best' >= Best
<1>1. \A n \in OpenStops : \E m \in OpenStops' : sl'[m].lvl >= sl[n].lvl
  <2> SUFFICES ASSUME NEW n \in OpenStops
               PROVE  \E m \in OpenStops' : sl'[m].lvl >= sl[n].lvl
    OBVIOUS
  <2>1. sl[n].lvl \in 0..MaxLvl
    BY DEF IInv, TypeOK, OpenStops, StopOrder
  <2> QED
    BY <2>1 DEF OpenStay
<1> QED
  BY <1>1, NotWorse

----------------------------------------------------------------------------
(* The ladder and the flat position, step by step. *)

\* What every step shows: the invariant again, and no worse stop.
BestKept == pos' > 0 /\ bud'.ext = 0 /\ pc /= "replace" => Best' >= Best
Flatter  == /\ pos' <= pos
            /\ pc' \in {"final", "final2"} => pos' = 0
            /\ t'.st = "CLOSED" => t.st = "CLOSED" \/ pos' = 0
            /\ pc' = "ralgos" => pos' <= h'.qty

Placed == {"stop", "sent", "resolve", "verify", "replace", "moved"}

LEMMA Numbers ==
  ASSUME IInv
  PROVE  /\ t.stop \in 0..MaxLvl /\ t.logic \in 0..MaxLvl /\ h.want \in 0..MaxLvl
         /\ \A n \in Stops : sl[n].lvl \in 0..MaxLvl
  BY DEF IInv, TypeOK, TradeRecord, Frame, StopOrder

\* Away from the placing of stops.
LEMMA LadderAway ==
  ASSUME LadderKnown, LevelsStay, t'.stop = t.stop, t'.logic = t.logic,
         pc' \notin Placed \/ (pc' = "stop" /\ h'.job = "protect")
  PROVE  LadderKnown'
  BY DEF LadderKnown, LevelsStay, Placed

LEMMA LadderSame ==
  ASSUME LadderKnown, LevelsStay, t'.stop = t.stop, t'.logic = t.logic, t'.nsl = t.nsl,
         \/ pc' = pc
         \/ pc' \in {"sent", "resolve", "verify"} /\ pc \in {"stop", "sent", "resolve"},
         h'.job = h.job, h'.want = h.want,
         bud'.ext = 0 => bud.ext = 0,
         (bud'.ext = 0 /\ pc = "moved" /\ sl[t.nsl].st \in {"open", "fired"}) =>
            sl'[t.nsl].st \in {"open", "fired"}
  PROVE  LadderKnown'
  BY DEF LadderKnown, LevelsStay

LEMMA LevelsOf ==
  ASSUME IInv, sl' = sl
  PROVE  LevelsStay /\ OpenStay
  BY DEF LevelsStay, OpenStay, OpenStops

LEMMA MarkedLevels ==
  ASSUME IInv, NEW n \in Stops, NEW s \in {"none", "flight", "open", "fired", "gone"},
         sl' = Marked(sl, n, s)
  PROVE  /\ LevelsStay /\ (sl[n].st /= "open" => OpenStay)
         /\ \A m \in Stops : m /= n => sl'[m].st = sl[m].st
         /\ sl'[n].st = s
<1>1. /\ \A m \in Stops : /\ sl'[m].lvl = sl[m].lvl
                          /\ m /= n => sl'[m].st = sl[m].st
                          /\ m = n => sl'[m].st = s
  BY MarkedStop DEF IInv, TypeOK
<1> QED
  BY <1>1 DEF LevelsStay, OpenStay, OpenStops

LEMMA ExchangeStops ==
  ASSUME IInv, Exchange
  PROVE  /\ LevelsStay /\ pos' <= pos /\ (bud'.ext = 0 => bud.ext = 0)
         /\ (bud'.ext = 0 => StopsStay)
         /\ (bud'.ext = 0 /\ pos' > 0 => OpenStay)
<1>1. pos \in 0..Qty
  BY OldRows
<1>2. CASE \E n \in Stops : StopLands(n)
  <2>1. PICK n \in Stops : sl[n].st = "flight" /\ sl' = Marked(sl, n, "open")
                           /\ pos' = pos /\ bud' = bud
    BY <1>2 DEF StopLands, Marked
  <2> QED
    BY <1>1, <2>1, MarkedLevels DEF StopsStay
<1>3. CASE \E n \in Stops : StopFires(n)
  <2>1. PICK n \in Stops : sl[n].st = "open" /\ sl' = Marked(sl, n, "fired")
                           /\ pos' = 0 /\ bud' = bud
    BY <1>3 DEF StopFires, Marked, OpenStops
  <2>2. /\ LevelsStay /\ sl'[n].st = "fired"
        /\ \A m \in Stops : m /= n => sl'[m].st = sl[m].st
    BY <2>1, MarkedLevels
  <2>3. StopsStay
    BY <2>2 DEF StopsStay
  <2> QED
    BY <1>1, <2>1, <2>2, <2>3
<1>4. CASE \/ \E i \in Targets : TargetLands(i) \/ TargetFires(i)
           \/ EventsLost
  <2>1. sl' = sl /\ pos' <= pos /\ bud'.ext = bud.ext
    <3>1. bud \in BudType
      BY DEF IInv, TypeOK, BudType
    <3> QED
      BY <1>1, <1>4, <3>1 DEF TargetLands, TargetFires, EventsLost, exchange, BudType
  <2> QED
    BY <2>1, LevelsOf DEF StopsStay
<1>5. CASE RequestDies
  <2>1. pos' = pos /\ bud' = bud
    BY <1>5 DEF RequestDies
  <2>2. CASE sl' = sl
    BY <1>1, <2>1, <2>2, LevelsOf DEF StopsStay
  <2>3. CASE \E n \in Stops : sl[n].st = "flight" /\ sl' = [sl EXCEPT ![n].st = "none"]
    <3>1. PICK n \in Stops : sl[n].st = "flight" /\ sl' = Marked(sl, n, "none")
      BY <2>3 DEF Marked
    <3> QED
      BY <1>1, <2>1, <3>1, MarkedLevels DEF StopsStay
  <2> QED
    BY <1>5, <2>2, <2>3 DEF RequestDies
<1>6. CASE External
  <2>1. bud'.ext > 0
    BY <1>6 DEF External, IInv, TypeOK
  <2>2. CASE \E n \in OpenStops : sl' = [sl EXCEPT ![n].st = "gone"]
    <3>1. PICK n \in Stops : sl' = Marked(sl, n, "gone")
      BY <2>2 DEF Marked, OpenStops
    <3> QED
      BY <1>1, <1>6, <2>1, <3>1, MarkedLevels DEF External
  <2>3. pos' <= pos
    BY <1>1, <1>6 DEF External
  <2>4. CASE sl' = sl
    BY <2>1, <2>3, <2>4, LevelsOf
  <2> QED
    BY <1>6, <2>1, <2>2, <2>3, <2>4 DEF External
<1> QED
  BY <1>2, <1>3, <1>4, <1>5, <1>6 DEF Exchange

LEMMA ExchangeWorse ==
  ASSUME IInv, IInv', WorseInv, Exchange \/ UNCHANGED vars
  PROVE  WorseInv' /\ BestKept
<1>1. t' = t /\ pc' = pc /\ h' = h
  BY DEF Exchange, StopLands, StopFires, TargetLands, TargetFires, RequestDies, External,
         EventsLost, vars
<1>2. /\ LevelsStay /\ pos' <= pos /\ (bud'.ext = 0 => bud.ext = 0)
      /\ (bud'.ext = 0 => StopsStay)
      /\ (bud'.ext = 0 /\ pos' > 0 => OpenStay)
  <2>1. CASE UNCHANGED vars
    <3>1. sl' = sl /\ pos' = pos /\ bud' = bud /\ pos \in 0..Qty
      BY <2>1, OldRows DEF vars
    <3> QED
      BY <3>1, LevelsOf DEF StopsStay
  <2> QED
    BY <2>1, ExchangeStops
<1>3. pos \in 0..Qty /\ pos' \in 0..Qty /\ h.qty \in 0..Qty
  BY DEF IInv, TypeOK, Frame
<1>4. FlatKnown'
  BY <1>1, <1>2, <1>3 DEF WorseInv, FlatKnown
<1>5. pc = "moved" => t.nsl \in Stops
  <2>1. h.old \in 0..MaxSl /\ t.nsl \in 0..MaxSl
    BY OldRows DEF Frame
  <2> QED
    BY <2>1, MaxSlNat DEF IInv, FrameOK, Stops
<1>6. LadderKnown'
  <2>1. (bud'.ext = 0 /\ pc = "moved" /\ sl[t.nsl].st \in {"open", "fired"}) =>
            sl'[t.nsl].st \in {"open", "fired"}
    BY <1>2, <1>5 DEF StopsStay
  <2> QED
    BY <1>1, <1>2, <2>1, LadderSame DEF WorseInv
<1>7. BestKept
  BY <1>2, StaysGood DEF BestKept
<1> QED
  BY <1>4, <1>6, <1>7 DEF WorseInv


\* Steps that leave the stops alone.
LEMMA StillGood == ASSUME IInv, IInv', sl' = sl PROVE BestKept
  BY LevelsOf, StaysGood DEF BestKept

LEMMA StopFailedPlaces ==
  ASSUME IInv, StopFailed
  PROVE  /\ t'.stop = t.stop
         /\ \/ pc' \notin Placed \union {"final", "final2", "ralgos"}
            \/ pc' = "stop" /\ h'.job = "protect"
<1>1. t \in TradeRecord /\ h \in Frame /\ TypeOK
  BY OldRows DEF IInv
<1>2. CASE h.job = "protect" /\ pc' = "stop" /\ t' = t /\ h' = [h EXCEPT !.att = @ + 1]
  <2>1. h'.job = h.job
    BY <1>1, <1>2 DEF Frame
  <2> QED
    BY <1>2, <2>1
<1>3. CASE CloseNow(t)
  BY <1>1, <1>3, CloseNowDoes, KeepsItself DEF Keeps, Placed
<1>4. CASE t' = Refreshed(t) /\ Done
  BY <1>1, <1>4, RefreshedUpdate, DoneDoes DEF Keeps, Placed
<1> QED
  BY <1>2, <1>3, <1>4 DEF StopFailed

\* A request that is refused leaves the levels and the open stops.
LEMMA NotTakenLevels ==
  ASSUME IInv, NEW s, StopNotTaken(s)
  PROVE  LevelsStay /\ OpenStay /\ pos' = pos /\ pc = "sent"
<1>1. pc = "sent" /\ sl[t.nsl].st = "flight" /\ pos' = pos /\ sl' = Marked(sl, t.nsl, "none")
  BY DEF StopNotTaken, Marked
<1>2. t.nsl \in Stops
  BY <1>1, OldRows, MaxSlNat DEF IInv, FrameOK, Stops
<1> QED
  BY <1>1, <1>2, MarkedLevels

LEMMA PlacingPlaces ==
  ASSUME IInv, Placing
  PROVE  pos' = pos /\ pc' \notin {"final", "final2", "ralgos"}
<1>1. CASE StopRejected
  <2>1. StopFailed \/ pc' = "replace"
    BY <1>1 DEF StopRejected, GoTo
  <2> QED
    BY <1>1, <2>1, StopFailedPlaces, NotTakenLevels DEF StopRejected, Placed
<1>2. CASE StopBlocked \/ StopUnresolved \/ VerifyFails
  BY <1>2, StopFailedPlaces DEF StopBlocked, StopNotTaken, StopUnresolved, VerifyFails, exchange,
     Placed
<1>3. CASE StopImmediate
  BY <1>3, OldRows, CloseNowDoes, KeepsItself DEF StopImmediate, StopNotTaken, IInv
<1>4. CASE StopResolved
  BY <1>4, StopFailedPlaces DEF StopResolved, exchange, GoTo, Placed
<1>5. CASE Verify
  BY <1>5, StopFailedPlaces, StopConfirmedDoes, DoneDoes DEF Verify, exchange, Placed, IInv
<1>6. CASE CancelOld
  BY <1>6, DoneDoes DEF CancelOld, IInv
<1> QED
  BY <1>1, <1>2, <1>3, <1>4, <1>5, <1>6
     DEF Placing, Protect, StopSend, StopAnswered, StopUnknown, CancelFirst, GoTo, exchange

\* Confirmed by verify.
LEMMA VerifyLadder ==
  ASSUME IInv, LadderKnown, pc = "verify", UNCHANGED <<sl, bud>>,
         sl[t.nsl].st \notin {"none", "gone"}, StopConfirmed
  PROVE  LadderKnown'
<1>1. pc = "verify" /\ sl' = sl /\ bud' = bud
  OBVIOUS
<1>2. t.stopId < t.nsl /\ sl[t.nsl].st /= "flight"
  BY <1>1 DEF IInv, FrameOK
<1>3. t.nsl \in Stops
  BY <1>2, OldRows, MaxSlNat DEF Stops
<1>4. Unnoted /\ t'.nsl = t.nsl
  BY StopConfirmedDoes
<1>5. LevelsStay /\ t'.logic = t.logic
  BY <1>1, <1>4, LevelsOf DEF Unnoted, SameNotes
<1>6. CASE h.job = "protect" /\ pc' = "tps" /\ t'.stop = t.stop
  BY <1>5, <1>6, LadderAway DEF Placed
<1>7. CASE h.job = "move" /\ pc' = "moved" /\ t'.stop = h.want
  <2>1. sl[t.nsl].st \in {"open", "fired"}
    <3>1. sl[t.nsl].st \in {"none", "flight", "open", "fired", "gone"}
      BY <1>3 DEF IInv, TypeOK, StopOrder
    <3> QED
      BY <1>2, <3>1
  <2>2. h.want = t.logic
    BY <1>1, <1>7 DEF LadderKnown
  <2>3. t.logic <= t.logic
    BY Numbers
  <2> QED
    BY <1>1, <1>4, <1>5, <1>7, <2>1, <2>2, <2>3 DEF LadderKnown, LevelsStay
<1>8. CASE h.job = "replace" /\ Done /\ t'.stop = h.want
  <2>1. h.want = t.logic /\ t.logic <= t.logic
    BY <1>1, <1>8, Numbers DEF LadderKnown
  <2>2. pc' \in {"idle", "sweep"}
    BY <1>8, DoneDoes DEF IInv
  <2> QED
    BY <1>5, <1>8, <2>1, <2>2 DEF LadderKnown, LevelsStay
<1> QED
  BY <1>6, <1>7, <1>8, StopConfirmedDoes


LEMMA StopFailedLadder ==
  ASSUME IInv, LadderKnown, LevelsStay, StopFailed
  PROVE  LadderKnown'
<1>1. t'.logic = t.logic
  BY StopFailedUnnoted DEF Unnoted, SameNotes
<1> QED
  BY <1>1, StopFailedPlaces, LadderAway

LEMMA CancelLevels ==
  ASSUME IInv, NEW n, sl' = IF n \in OpenStops THEN [sl EXCEPT ![n].st = "gone"] ELSE sl
  PROVE  LevelsStay /\ \A m \in OpenStops : m /= n => m \in OpenStops'
<1>1. CASE n \in OpenStops
  <2>1. n \in Stops /\ sl' = Marked(sl, n, "gone")
    BY <1>1 DEF OpenStops, Marked
  <2> QED
    BY <2>1, MarkedLevels DEF OpenStops
<1>2. CASE n \notin OpenStops
  BY <1>2, LevelsOf DEF OpenStay
<1> QED
  BY <1>1, <1>2

\* The old stop goes when the new one, on the ladder's level, is there.
LEMMA CancelOldWorse ==
  ASSUME IInv, IInv', LadderKnown, CancelOld
  PROVE  LadderKnown' /\ BestKept
<1>1. pc = "moved" /\ t' = Refreshed(t) /\ Done /\ pos' = pos /\ t \in TradeRecord
  BY OldRows DEF CancelOld
<1>2. t'.stop = t.stop /\ t'.logic = t.logic
  BY <1>1, RefreshedUpdate, NotesRefreshed DEF Keeps, SameNotes
<1>3. sl' = (IF h.old \in OpenStops THEN [sl EXCEPT ![h.old].st = "gone"] ELSE sl) \/ sl' = sl
  BY DEF CancelOld
<1>4. LevelsStay /\ \A m \in OpenStops : m /= h.old => m \in OpenStops'
  BY <1>3, CancelLevels, LevelsOf DEF OpenStay
<1>5. LadderKnown'
  BY <1>1, <1>2, <1>4, DoneDoes, LadderAway DEF Placed, IInv
<1>6. ASSUME pos' > 0, bud'.ext = 0
      PROVE  Best' >= Best
  <2>1. h.old \in 0..MaxSl /\ t.nsl \in 0..MaxSl /\ h.old < t.nsl /\ sl[t.nsl].lvl = t.stop
    BY <1>1, OldRows DEF IInv, FrameOK, Frame
  <2>2. t.nsl \in Stops /\ t.nsl /= h.old
    BY <2>1, MaxSlNat DEF Stops
  <2>3. bud.ext = 0
    BY <1>6, Budget DEF CancelOld, IInv
  <2>4. sl[t.nsl].st = "open"
    BY <1>1, <1>6, <2>2, <2>3 DEF LadderKnown, IInv, StopsInOrder
  <2>5. t.nsl \in OpenStops /\ t.nsl \in OpenStops'
    BY <1>4, <2>2, <2>4 DEF OpenStops
  <2>6. \A n \in OpenStops : sl'[t.nsl].lvl >= sl[n].lvl
    BY <1>1, <1>4, <2>1, <2>2, Numbers DEF LadderKnown, LevelsStay, OpenStops
  <2> QED
    BY <2>5, <2>6, NotWorse
<1> QED
  BY <1>5, <1>6 DEF BestKept

LEMMA StopSendWorse ==
  ASSUME IInv, IInv', LadderKnown, StopSend
  PROVE  LadderKnown' /\ BestKept
<1> DEFINE n == t.nsl + 1
<1>1. /\ pc = "stop" /\ pc' = "sent" /\ h' = h /\ bud' = bud /\ t.nsl < MaxSl
      /\ t' = WithNsl(t, n) /\ sl' = [sl EXCEPT ![n] = [st |-> "flight", lvl |-> h.want]]
  BY DEF StopSend, GoTo, WithNsl
<1>2. t \in TradeRecord /\ t.nsl \in 0..MaxSl /\ sl \in [Stops -> StopOrder]
  BY OldRows
<1>3. n \in Stops /\ n \in 0..MaxSl /\ n > t.nsl
  BY <1>1, <1>2, MaxSlNat DEF Stops
<1>4. sl[n].st = "none"
  BY <1>3 DEF IInv, StopsInOrder
<1>5. t'.stop = t.stop /\ t'.logic = t.logic
  BY <1>1, <1>2, <1>3, NslUpdate, NotesKept DEF SameNotes
<1> HIDE DEF n
<1>6. /\ sl'[n].lvl = h.want /\ sl'[n].st = "flight"
      /\ \A m \in Stops : m /= n => sl'[m] = sl[m]
  BY <1>1, <1>2, <1>3
<1>7. h.want <= t.logic
  BY <1>1, Numbers DEF LadderKnown, IInv, FrameOK
<1>8. LadderKnown'
  BY <1>1, <1>5, <1>6, <1>7 DEF LadderKnown
<1>9. OpenStay
  BY <1>4, <1>6 DEF OpenStay, OpenStops
<1> QED
  BY <1>8, <1>9, StaysGood DEF BestKept

LEMMA PlacingWorse ==
  ASSUME IInv, IInv', WorseInv, Placing
  PROVE  WorseInv' /\ BestKept
<1>1. LadderKnown /\ t \in TradeRecord
  BY OldRows DEF WorseInv
<1>2. FlatKnown'
  BY PlacingPlaces, PlacingUnnoted DEF WorseInv, FlatKnown, Unnoted
<1>3. t'.logic = t.logic
  BY PlacingUnnoted DEF Unnoted, SameNotes
<1>4. CASE Protect
  <2>1. pc' = "stop" /\ sl' = sl /\ h' = WithProtect(h, t.stop) /\ t' = WithSt(t, "PROTECTING")
    BY <1>4 DEF Protect, exchange, WithProtect, WithSt
  <2>2. h'.job = "protect" /\ t'.stop = t.stop
    BY <1>1, <2>1, OldRows, Numbers, ProtectUpdate, NotesKept
  <2> QED
    BY <1>1, <1>2, <1>3, <2>1, <2>2, LevelsOf, LadderAway, StillGood DEF WorseInv
<1>5. CASE StopAnswered \/ StopUnknown
  <2>1. /\ pc = "sent" /\ pc' \in {"verify", "resolve"} /\ h' = h /\ t' = t /\ sl' = sl
        /\ bud' = bud \/ Fault
    BY <1>5 DEF StopAnswered, StopUnknown, GoTo, exchange
  <2>2. bud'.ext = bud.ext
    BY <2>1, Budget DEF IInv
  <2> QED
    BY <1>1, <1>2, <2>1, <2>2, LevelsOf, LadderSame, StillGood DEF WorseInv
<1>6. CASE StopImmediate
  <2>1. StopNotTaken("REJECTED") /\ CloseNow(t)
    BY <1>6 DEF StopImmediate
  <2>2. t'.stop = t.stop /\ pc' = "closetp"
    BY <1>1, <2>1, CloseNowDoes, KeepsItself DEF Keeps, IInv
  <2> QED
    BY <1>1, <1>2, <1>3, <2>1, <2>2, NotTakenLevels, LadderAway, StaysGood
       DEF WorseInv, BestKept, Placed
<1>7. CASE StopRejected \/ StopBlocked
  <2>1. \E s : StopNotTaken(s)
    BY <1>7 DEF StopRejected, StopBlocked
  <2>2. LevelsStay /\ OpenStay /\ pc = "sent"
    BY <2>1, NotTakenLevels
  <2>3. CASE StopFailed
    BY <1>1, <1>2, <2>2, <2>3, StopFailedLadder, StaysGood DEF WorseInv, BestKept
  <2>4. CASE h.job = "move" /\ pc' = "replace" /\ h' = h /\ t' = t
    <3>1. h.want = t.logic
      BY <1>1, <2>2, <2>4 DEF LadderKnown
    <3>2. LadderKnown'
      BY <1>1, <2>2, <2>4, <3>1 DEF LadderKnown, LevelsStay
    <3> QED
      BY <1>2, <2>2, <3>2, StaysGood DEF WorseInv, BestKept
  <2> QED
    BY <1>7, <2>3, <2>4 DEF StopRejected, StopBlocked, GoTo
<1>8. CASE StopUnresolved \/ VerifyFails
  <2>1. StopFailed /\ sl' = sl
    BY <1>8 DEF StopUnresolved, VerifyFails, exchange
  <2> QED
    BY <1>1, <1>2, <2>1, LevelsOf, StopFailedLadder, StillGood DEF WorseInv
<1>9. CASE StopResolved
  <2>1. sl' = sl /\ bud' = bud /\ pc = "resolve"
    BY <1>9 DEF StopResolved, exchange
  <2>2. CASE StopFailed
    BY <1>1, <1>2, <2>1, <2>2, LevelsOf, StopFailedLadder, StillGood DEF WorseInv
  <2>3. CASE pc' = "verify" /\ h' = h /\ t' = t
    BY <1>1, <1>2, <2>1, <2>3, LevelsOf, LadderSame, StillGood DEF WorseInv
  <2> QED
    BY <1>9, <2>2, <2>3 DEF StopResolved, GoTo
<1>10. CASE Verify
  <2>1. sl' = sl /\ bud' = bud /\ pc = "verify"
    BY <1>10 DEF Verify, exchange
  <2>2. CASE StopFailed
    BY <1>1, <1>2, <2>1, <2>2, LevelsOf, StopFailedLadder, StillGood DEF WorseInv
  <2>3. CASE sl[t.nsl].st \notin {"none", "gone"} /\ StopConfirmed
    BY <1>1, <1>2, <2>1, <2>3, VerifyLadder, StillGood DEF WorseInv
  <2> QED
    BY <1>10, <2>2, <2>3 DEF Verify
<1>11. CASE CancelOld
  BY <1>1, <1>2, <1>11, CancelOldWorse DEF WorseInv
<1>12. CASE CancelFirst
  <2>1. /\ pc = "replace" /\ pc' = "stop" /\ t' = t /\ h' = WithReplace(h)
        /\ sl' = (IF t.stopId \in OpenStops THEN [sl EXCEPT ![t.stopId].st = "gone"] ELSE sl)
           \/ sl' = sl
    BY <1>12 DEF CancelFirst, WithReplace
  <2>2. LevelsStay
    BY <2>1, CancelLevels, LevelsOf
  <2>3. h'.want = h.want
    BY <2>1, OldRows DEF WithReplace, Frame
  <2>4. LadderKnown'
    BY <1>1, <2>1, <2>2, <2>3 DEF LadderKnown, LevelsStay
  <2> QED
    BY <1>2, <2>1, <2>4 DEF WorseInv, BestKept
<1>13. CASE StopSend
  BY <1>1, <1>2, <1>13, StopSendWorse DEF WorseInv
<1> QED
  BY <1>4, <1>5, <1>6, <1>7, <1>8, <1>9, <1>10, <1>11, <1>12, <1>13 DEF Placing


LEMMA TargetingWorse ==
  ASSUME IInv, IInv', WorseInv, Targeting
  PROVE  WorseInv' /\ BestKept
<1>1. UNCHANGED <<pos, sl>>
  BY DEF Targeting, NextTarget, TargetAnswered, TargetUnknown, TargetResolved, TargetRefused,
         TargetImmediate, TargetNotTaken, PartialNow, TargetsPlaced, exchange
<1>2. pc' \in {"tps", "tpsent", "tpresolve", "now", "idle", "sweep"}
  BY DoneDoes
     DEF Targeting, NextTarget, TargetAnswered, TargetUnknown, TargetResolved, TargetRefused,
         TargetImmediate, TargetNotTaken, PartialNow, TargetsPlaced, GoTo, IInv
<1>3. t'.logic = t.logic /\ t'.stop = t.stop /\ (t'.st = "CLOSED" => t.st = "CLOSED")
  BY TargetingNotes
<1>4. FlatKnown'
  BY <1>1, <1>2, <1>3 DEF WorseInv, FlatKnown
<1>5. LadderKnown'
  BY <1>1, <1>2, <1>3, LevelsOf, LadderAway DEF WorseInv, Placed
<1> QED
  BY <1>1, <1>4, <1>5, StillGood DEF WorseInv

LEMMA WithoutLevels ==
  ASSUME IInv, NEW ns \in SUBSET OpenStops, sl' = StopsWithout(ns)
  PROVE  LevelsStay /\ (ns = {} => OpenStay)
<1>1. sl \in [Stops -> StopOrder]
  BY OldRows
<1>2. \A n \in Stops : sl'[n] = IF n \in ns THEN [sl[n] EXCEPT !.st = "gone"] ELSE sl[n]
  BY DEF StopsWithout
<1>3. \A n \in Stops : [sl[n] EXCEPT !.st = "gone"].lvl = sl[n].lvl
  BY <1>1 DEF StopOrder
<1>4. LevelsStay
  BY <1>2, <1>3 DEF LevelsStay
<1> QED
  BY <1>2, <1>4 DEF OpenStay, OpenStops

LEMMA ClosingPlaces ==
  ASSUME IInv, Closing
  PROVE  /\ pos' <= pos /\ pc' \in ClosePc \union {"idle", "sweep"}
         /\ t'.logic = t.logic /\ t'.stop = t.stop
         /\ pc' = "final" => pc = "closeend" /\ pos' = 0
         /\ pc' = "final2" => pc = "final"
         /\ t'.st = "CLOSED" => t.st = "CLOSED" \/ pc = "final2"
<1>1. pos \in 0..Qty /\ t \in TradeRecord /\ TypeOK
  BY OldRows DEF IInv
<1>2. CASE CloseTargets \/ FinalCancel \/ CloseQuery
  BY <1>1, <1>2 DEF CloseTargets, FinalCancel, CloseQuery, Cancelled, NextAttempt, GoTo, ClosePc,
                    exchange
<1>3. CASE CloseSend
  BY <1>1, <1>3 DEF CloseSend, NextAttempt, GoTo, ClosePc
<1>4. CASE CloseEnd
  <2>1. CASE t' = WithSt(t, "ERROR") /\ Done /\ pos' = pos
    <3>1. t'.logic = t.logic /\ t'.stop = t.stop /\ t'.st = "ERROR"
      BY <1>1, <2>1, StUpdate, StateNames, NotesKept DEF SameNotes
    <3> QED
      BY <1>1, <2>1, <3>1, DoneDoes
  <2>2. CASE pc = "closeend" /\ pos = 0 /\ GoTo("final") /\ t' = t /\ pos' = pos
    BY <1>1, <2>2 DEF GoTo, ClosePc
  <2> QED
    BY <1>4, <2>1, <2>2 DEF CloseEnd, WithSt, exchange
<1>5. CASE FinalClosed
  <2>1. pc = "final2" /\ t' = WithSt(t, "CLOSED") /\ Done /\ pos' = pos
    BY <1>5 DEF FinalClosed, WithSt, exchange
  <2>2. t'.logic = t.logic /\ t'.stop = t.stop
    BY <1>1, <2>1, NotesKept DEF SameNotes
  <2> QED
    BY <1>1, <2>1, <2>2, DoneDoes
<1> QED
  BY <1>2, <1>3, <1>4, <1>5 DEF Closing

LEMMA ClosingWorse ==
  ASSUME IInv, IInv', WorseInv, Closing
  PROVE  WorseInv' /\ BestKept
<1>1. pos \in 0..Qty /\ pos' \in 0..Qty
  BY DEF IInv, TypeOK
<1>2. FlatKnown'
  BY <1>1, ClosingPlaces DEF WorseInv, FlatKnown, ClosePc
<1>3. CASE CloseTargets \/ FinalCancel
  <2>1. PICK ns \in SUBSET OpenStops :
          sl' = StopsWithout(ns) /\ (CloseTargets => ns = {}) /\ (CloseTargets \/ pc = "final")
    BY <1>3, Zenon DEF CloseTargets, FinalCancel, Cancelled
  <2>2. LevelsStay /\ (CloseTargets => OpenStay)
    BY <2>1, WithoutLevels
  <2>3. LadderKnown'
    BY <2>2, ClosingPlaces, LadderAway DEF WorseInv, Placed, ClosePc
  <2>4. BestKept
    BY <1>1, <2>1, <2>2, ClosingPlaces, StaysGood DEF WorseInv, FlatKnown, BestKept
  <2> QED
    BY <1>2, <2>3, <2>4 DEF WorseInv
<1>4. CASE sl' = sl
  BY <1>2, <1>4, LevelsOf, ClosingPlaces, LadderAway, StillGood DEF WorseInv, Placed, ClosePc
<1> QED
  BY <1>3, <1>4 DEF Closing, CloseQuery, CloseSend, CloseEnd, FinalClosed, exchange

LEMMA CheckingWorse ==
  ASSUME IInv, IInv', WorseInv, Checking
  PROVE  WorseInv' /\ BestKept
<1>1. t \in TradeRecord /\ TypeOK /\ pos' = pos /\ sl' = sl
  BY OldRows DEF Checking, CheckFlat, MarkFilled, EnsureStop, exchange, IInv
<1>2. /\ pc' \notin Placed \union {"final2", "ralgos"}
      /\ pc' = "final" => pos' = 0
      /\ t'.logic = t.logic /\ t'.stop = t.stop /\ (t'.st = "CLOSED" => t.st = "CLOSED")
  <2>1. CASE CheckFlat
    <3>1. CASE pos = 0 /\ OnFlat(t)
      BY <1>1, <3>1, OnFlatDoes, KeepsItself, UnnotedClosing DEF Keeps, Placed, SameNotes
    <3>2. CASE Done /\ t' = t
      BY <1>1, <3>2, DoneDoes DEF Placed
    <3> QED
      BY <2>1, <3>1, <3>2 DEF CheckFlat
  <2>2. CASE MarkFilled
    <3> DEFINE r == WithFilled(t, h.lev)
    <3>1. pc = "mark" /\ ((pos = 0 /\ OnFlat(r)) \/ (t' = Refreshed(r) /\ Done))
      BY <2>2 DEF MarkFilled, WithFilled
    <3>2. h.lev \in Levels
      BY <3>1 DEF IInv, FrameOK
    <3>3. Keeps(r, t) /\ r.st = t.st /\ r \in TradeRecord
      BY <1>1, <3>2, FilledUpdate DEF Keeps
    <3>4. r.logic = t.logic
      BY <1>1 DEF WithFilled, TradeRecord
    <3> HIDE DEF r
    <3>5. CASE pos = 0 /\ OnFlat(r)
      BY <1>1, <3>3, <3>4, <3>5, OnFlatDoes, UnnotedClosing DEF Keeps, Placed, SameNotes
    <3>6. CASE t' = Refreshed(r) /\ Done
      BY <1>1, <3>3, <3>4, <3>6, RefreshedUpdate, NotesRefreshed, DoneDoes
         DEF Keeps, Placed, SameNotes
    <3> QED
      BY <3>1, <3>5, <3>6
  <2>3. CASE EnsureStop
    <3>1. CASE t' = t /\ Done
      BY <1>1, <3>1, DoneDoes DEF Placed
    <3>2. CASE t' = WithSt(t, "RECOVERY_REQUIRED") /\ pc' = "guard0"
      <4>1. t'.st = "RECOVERY_REQUIRED"
        BY <1>1, <3>2, StUpdate, StateNames
      <4> QED
        BY <1>1, <3>2, <4>1, NotesKept DEF SameNotes, Placed
    <3>3. CASE (\E n \in OpenStops : t' = WithStopId(t, n)) /\ Done
      <4>1. PICK n \in OpenStops : t' = WithStopId(t, n)
        BY <3>3
      <4>2. n \in 0..MaxSl
        BY MaxSlNat DEF OpenStops, Stops
      <4>3. t'.stop = t.stop
        BY <1>1, <4>1, <4>2, StopIdUpdate
      <4> QED
        BY <1>1, <3>3, <4>1, <4>3, NotesKept, DoneDoes DEF SameNotes, Placed
    <3> QED
      BY <2>3, <3>1, <3>2, <3>3 DEF EnsureStop, WithStopId, WithSt, GoTo
  <2> QED
    BY <2>1, <2>2, <2>3 DEF Checking
<1>3. FlatKnown'
  BY <1>1, <1>2 DEF WorseInv, FlatKnown
<1>4. LadderKnown'
  BY <1>1, <1>2, LevelsOf, LadderAway DEF WorseInv
<1> QED
  BY <1>1, <1>3, <1>4, StillGood DEF WorseInv

LEMMA EventWorse ==
  ASSUME IInv, IInv', WorseInv, UserEvent \/ (\E lvl \in 0..MaxLvl : BarClose(lvl))
  PROVE  WorseInv' /\ BestKept
<1>1. t \in TradeRecord /\ h \in Frame /\ TypeOK /\ pos' = pos /\ sl' = sl
  BY OldRows DEF UserEvent, FlatEvent, TargetEvent, GoneEvent, BarClose, exchange, IInv
<1>2. CASE UserEvent
  <2>1. t' = t /\ pc' \in {"idle", "flat", "mark", "ensure"}
    BY <1>2 DEF UserEvent, FlatEvent, TargetEvent, GoneEvent, GoTo
  <2>2. FlatKnown'
    BY <1>1, <2>1 DEF WorseInv, FlatKnown
  <2> QED
    BY <1>1, <2>1, <2>2, LevelsOf, LadderAway, StillGood DEF WorseInv, Placed
<1>3. CASE \E lvl \in 0..MaxLvl : BarClose(lvl)
  <2>1. PICK lvl \in 0..MaxLvl : BarClose(lvl)
    BY <1>3
  <2> DEFINE r == WithLogic(t, lvl)
  <2>2. /\ lvl >= t.logic /\ pc = "idle" /\ t.st \in Holding
        /\ \/ CloseNow(r)
           \/ t' = Refreshed(r) /\ Done
           \/ t' = r /\ pc' = "stop" /\ h' = WithMove(h, lvl)
    BY <2>1 DEF BarClose, WithLogic, WithMove
  <2>3. Keeps(r, t) /\ r.st = t.st /\ r \in TradeRecord
    BY <1>1, LogicUpdate DEF Keeps
  <2>4. r.logic = lvl
    BY <1>1 DEF WithLogic, TradeRecord
  <2> HIDE DEF r
  <2>5. /\ t'.logic = lvl /\ t'.stop = t.stop
        /\ t'.st = "CLOSED" => t.st = "CLOSED"
        /\ \/ pc' \notin Placed \union {"final", "final2", "ralgos"}
           \/ pc' = "stop" /\ h'.want = lvl
    <3>1. CASE CloseNow(r)
      BY <1>1, <2>3, <2>4, <3>1, CloseNowDoes, UnnotedClosing DEF Keeps, SameNotes, Placed
    <3>2. CASE t' = Refreshed(r) /\ Done
      BY <1>1, <2>3, <2>4, <3>2, RefreshedUpdate, NotesRefreshed, DoneDoes
         DEF Keeps, SameNotes, Placed
    <3>3. CASE t' = r /\ pc' = "stop" /\ h' = WithMove(h, lvl)
      BY <1>1, <2>3, <2>4, <3>3, MoveUpdate DEF Keeps
    <3> QED
      BY <2>2, <3>1, <3>2, <3>3
  <2>6. FlatKnown'
    BY <1>1, <2>5 DEF WorseInv, FlatKnown
  <2>7. LadderKnown'
    <3>1. t.stop <= lvl /\ \A n \in Stops : sl[n].lvl <= lvl
      BY <2>2, Numbers DEF WorseInv, LadderKnown
    <3> QED
      BY <1>1, <2>5, <3>1 DEF LadderKnown, Placed
  <2> QED
    BY <1>1, <2>6, <2>7, StillGood DEF WorseInv
<1> QED
  BY <1>2, <1>3

LEMMA RecoveryWorse ==
  ASSUME IInv, IInv', WorseInv, Recovery \/ Reconcile \/ Crash \/ Restart
  PROVE  WorseInv' /\ BestKept
<1>1. t \in TradeRecord /\ h \in Frame /\ TypeOK /\ pos \in 0..Qty
  BY OldRows DEF IInv
<1>2. CASE Reconcile \/ Crash \/ Restart
  <2>1. t' = t /\ pos' = pos /\ sl' = sl /\ pc' \in {"rq", "down"}
    BY <1>2 DEF Reconcile, Crash, Restart, exchange
  <2>2. FlatKnown'
    BY <2>1 DEF WorseInv, FlatKnown
  <2> QED
    BY <2>1, <2>2, LevelsOf, LadderAway, StillGood DEF WorseInv, Placed
<1>3. CASE Recovery
  <2>1. /\ t'.logic = t.logic /\ t'.stop = t.stop /\ (t'.st = "CLOSED" => t.st = "CLOSED")
        /\ pos' = pos
    BY <1>3, RecoveryUnnoted
       DEF Unnoted, SameNotes, Recovery, QueryPosition, ResumeClose, ProtectAgain, StopMissing,
           StopThere, ClosedOffline, NoTrade, Sweep, Compare, exchange
  <2>2. /\ pc' \notin Placed
        /\ pc' \in {"final", "final2"} => pos = 0
        /\ pc' = "ralgos" => pos <= h'.qty
    <3>1. CASE QueryPosition
      <4>1. pos <= pos
        BY <1>1
      <4>2. CASE pc' = "ralgos" /\ h' = WithQty(h, pos)
        <5>1. h'.qty = pos
          BY <1>1, <4>2 DEF WithQty, Frame
        <5> QED
          BY <4>1, <4>2, <5>1 DEF Placed
      <4> QED
        BY <3>1, <4>2 DEF QueryPosition, WithQty, Placed
    <3>2. CASE ResumeClose
      BY <1>1, <3>2, CloseNowDoes, KeepsItself DEF ResumeClose, Placed
    <3>3. CASE ClosedOffline
      <4>1. pc = "ralgos" /\ h.qty = 0 /\ OnFlat(t)
        BY <3>3 DEF ClosedOffline, Compare
      <4>2. pos = 0
        BY <1>1, <4>1 DEF WorseInv, FlatKnown
      <4> QED
        BY <1>1, <4>1, <4>2, OnFlatDoes, KeepsItself DEF Placed
    <3> QED
      BY <1>3, <3>1, <3>2, <3>3
         DEF Recovery, ProtectAgain, StopMissing, StopThere, NoTrade, Sweep, GoTo, Placed
  <2>3. FlatKnown'
    BY <2>1, <2>2 DEF WorseInv, FlatKnown
  <2>4. CASE sl' = sl
    BY <2>1, <2>2, <2>3, <2>4, LevelsOf, LadderAway, StillGood DEF WorseInv
  <2>5. CASE Sweep
    <3>1. PICK ns \in SUBSET Strays(OpenStops) : sl' = StopsWithout(ns)
      BY <2>5, Zenon DEF Sweep
    <3>2. ns \in SUBSET OpenStops /\ (t.st /= "CLOSED" => ns = {})
      BY <3>1 DEF Strays
    <3>3. LevelsStay /\ (t.st /= "CLOSED" => OpenStay)
      BY <3>1, <3>2, WithoutLevels
    <3>4. LadderKnown'
      BY <2>1, <2>2, <3>3, LadderAway DEF WorseInv
    <3>5. BestKept
      BY <1>1, <2>1, <3>3, StaysGood DEF WorseInv, FlatKnown, BestKept
    <3> QED
      BY <2>3, <3>4, <3>5 DEF WorseInv
  <2> QED
    BY <1>3, <2>4, <2>5
       DEF Recovery, QueryPosition, ResumeClose, ProtectAgain, StopMissing, StopThere,
           ClosedOffline, NoTrade, Compare, exchange
<1> QED
  BY <1>2, <1>3

LEMMA WorseStep ==
  ASSUME IInv, IInv', WorseInv, [Next]_vars
  PROVE  WorseInv' /\ BestKept
  BY ExchangeWorse, PlacingWorse, TargetingWorse, ClosingWorse, CheckingWorse, EventWorse,
     RecoveryWorse, Zenon DEF Next, Handlers

LEMMA WorseInit == Init => WorseInv
<1> SUFFICES ASSUME Init PROVE WorseInv
  OBVIOUS
<1>1. t.stop = 0 /\ t.logic = 0 /\ t.st = "ENTRY_FILLED" /\ pc = "guard0"
      /\ \A n \in Stops : sl[n].lvl = 0
  BY DEF Init
<1> QED
  BY <1>1 DEF WorseInv, FlatKnown, LadderKnown

\* The best resting stop of an open position never gets worse, between any two
\* steps of moving, replacing, closing and recovering, as long as nobody else
\* touches the orders; only the replacement after a refusal is excepted.
THEOREM NeverWorse == Spec => StopNeverWorse
<1>1. IInv /\ WorseInv /\ [Next]_vars
        => WorseInv' /\ [pos' > 0 /\ bud'.ext = 0 /\ pc /= "replace" => Best' >= Best]_vars
  BY StepInv, WorseStep DEF BestKept
<1> QED
  BY <1>1, InitInv, StepInv, WorseInit, PTL DEF Spec, StopNeverWorse

----------------------------------------------------------------------------
(* A target level is sold once.                                            *)

Alive    == {"flight", "mflight", "open"}
Working  == {"guard0", "ralgos", "rq", "stop", "sent", "resolve", "verify",
             "tps", "tpsent", "tpresolve", "now"}
Sending  == {"tpsent", "tpresolve", "now"}
Sold(l)  == [kind |-> "tp", l |-> l]

\* The parts of TpInv as long as nothing has disturbed the trade.
TpKnown ==
  /\ LastOrderSells /\ SaleKnown
  /\ \A l \in ToPlace : Counted(l)
  /\ pc = "now" => Sent \in Targets /\ tp[Sent] = "none"
  /\ pc \in Sending => h.lev \notin h.todo
  /\ pc \notin {"down", "ensure"}
  /\ \A e \in ev : e.kind /= "gone"

LEMMA TpParts == TpInv <=> (Calm => TpKnown) /\ TpOnceUndisturbed
  BY DEF TpInv, TpKnown, Sending

LEMMA AliveLast ==
  ASSUME IInv, LastOrderSells, NEW i \in Targets, tp[i] \in Alive \union {"fired"}
  PROVE  /\ i[1] \in Levels /\ t.ntp[i[1]] = i[2] /\ t.ntp[i[1]] > 0
         /\ i = <<i[1], t.ntp[i[1]]>>
<1>1. i[1] \in Levels /\ i[2] \in 1..MaxTp /\ i = <<i[1], i[2]>>
  BY DEF Targets
<1>2. t.ntp[i[1]] \in 0..MaxTp
  BY <1>1, OldRows
<1>3. ~(i[2] > t.ntp[i[1]]) /\ ~(i[2] < t.ntp[i[1]])
  BY DEF LastOrderSells, Alive
<1> QED
  BY <1>1, <1>2, <1>3

LEMMA SoldOnce == ASSUME IInv, LastOrderSells PROVE TpOncePerLevel
<1> SUFFICES ASSUME NEW l \in Levels, NEW m \in 1..MaxTp, NEW n \in 1..MaxTp,
                    tp[<<l, m>>] = "fired", tp[<<l, n>>] = "fired"
             PROVE  m = n
  BY DEF TpOncePerLevel
<1>1. <<l, m>> \in Targets /\ <<l, n>> \in Targets
  BY DEF Targets
<1> QED
  BY <1>1, AliveLast

LEMMA AwayFromTargets == ASSUME pc' \notin Working PROVE ToPlace' = {}
  BY DEF ToPlace, Working

\* Nobody touches the targets.
LEMMA TpStill ==
  ASSUME IInv, TpKnown, UNCHANGED <<tp, tpRow>>, t'.ntp = t.ntp, t.filled \subseteq t'.filled,
         t.st = "CLOSED" => t'.st = "CLOSED",
         \A l \in Levels : Sold(l) \in ev => Sold(l) \in ev',
         \A e \in ev' : e.kind /= "gone",
         pc = "mark" => h.lev \in t'.filled,
         ToPlace' \subseteq ToPlace,
         pc' \notin {"down", "ensure", "mark"} \union Sending
  PROVE  TpKnown'
<1>1. LastOrderSells'
  BY DEF TpKnown, LastOrderSells
<1>2. SaleKnown'
  <2> SUFFICES ASSUME NEW i \in Targets, tp[i] = "fired"
               PROVE  i[1] \in t'.filled \/ Sold(i[1]) \in ev' \/ t'.st = "CLOSED"
    BY DEF SaleKnown, Sold
  <2>1. i[1] \in Levels
    BY DEF Targets
  <2> QED
    BY <2>1 DEF TpKnown, SaleKnown, Sold
<1>3. \A l \in ToPlace' : Counted(l)'
  <2> SUFFICES ASSUME NEW l \in ToPlace PROVE Counted(l)'
    OBVIOUS
  <2> QED
    BY DEF TpKnown, Counted, HasTarget
<1> QED
  BY <1>1, <1>2, <1>3 DEF TpKnown, Sending

\* The exchange moves the orders.
LEMMA TpExchange ==
  ASSUME IInv, TpKnown, UNCHANGED <<t, tpRow, pc, h>>,
         ev \subseteq ev', \A e \in ev' : e.kind /= "gone",
         \A i \in Targets : \/ tp'[i] = tp[i]
                            \/ /\ tp[i] \in Alive
                               /\ tp'[i] \in {"none", "open", "fired", "gone"}
                               /\ tp'[i] = "fired" => Sold(i[1]) \in ev'
  PROVE  TpKnown'
<1>1. LastOrderSells /\ ToPlace' = ToPlace /\ Sent' = Sent
  BY DEF TpKnown, ToPlace, Sent
<1>2. LastOrderSells'
  BY <1>1 DEF LastOrderSells, Alive
<1>3. SaleKnown'
  BY DEF TpKnown, SaleKnown, Sold
<1>4. \A l \in ToPlace' : Counted(l)'
  <2> SUFFICES ASSUME NEW l \in ToPlace, NEW i \in Targets, i[1] = l, tp'[i] = "fired"
               PROVE  l \in t.filled \/ HasTarget(l)
    BY <1>1 DEF Counted, HasTarget
  <2>1. CASE tp[i] = "fired"
    BY <2>1 DEF TpKnown, Counted
  <2>2. CASE tp[i] \in Alive
    <3>1. t.ntp[l] > 0 /\ i = <<l, t.ntp[l]>>
      BY <1>1, <2>2, AliveLast
    <3>2. tpRow[i] \in RowPending
      BY <1>1, <2>2 DEF LastOrderSells, Alive
    <3> QED
      BY <3>1, <3>2 DEF HasTarget
  <2> QED
    BY <2>1, <2>2
<1>5. pc = "now" => Sent \in Targets /\ tp'[Sent] = "none"
  BY DEF TpKnown, Alive
<1> QED
  BY <1>1, <1>2, <1>3, <1>4, <1>5 DEF TpKnown


\* Orders are cancelled away from the placing of targets.
LEMMA TpCancels ==
  ASSUME IInv, TpKnown, UNCHANGED <<t, ev>>, pc /= "mark",
         pc' \notin {"down", "ensure"} \union Working,
         \A i \in Targets :
           /\ tp'[i] = tp[i] \/ (tp[i] \in Alive /\ tp'[i] = "gone")
           /\ tpRow'[i] = tpRow[i] \/ tp'[i] \notin Alive \/ tpRow'[i] \in RowPending
  PROVE  TpKnown'
<1>1. LastOrderSells'
  BY DEF TpKnown, LastOrderSells, Alive
<1>2. SaleKnown'
  BY DEF TpKnown, SaleKnown
<1> QED
  BY <1>1, <1>2, AwayFromTargets DEF TpKnown, Working, Sending

\* The order just sent is answered, refused or looked up.
LEMMA TpAnswered ==
  ASSUME IInv, TpKnown, UNCHANGED <<t, ev, h>>, pc \in {"tpsent", "tpresolve"},
         pc' \in {"tps", "tpresolve", "now"},
         \A i \in Targets : i /= Sent => tp'[i] = tp[i] /\ tpRow'[i] = tpRow[i],
         tp'[Sent] = tp[Sent] \/ (tp[Sent] \in Alive /\ tp'[Sent] = "none"),
         tp'[Sent] \in Alive => tpRow'[Sent] \in RowPending,
         pc' = "now" => tp'[Sent] = "none"
  PROVE  TpKnown'
<1>1. Sent' = Sent /\ h.lev \notin h.todo /\ ToPlace' = ToPlace
  BY DEF TpKnown, Sending, Sent, ToPlace
<1>2. Sent \in Targets
  <2>1. h.lev \in Levels /\ t.ntp[h.lev] > 0
    BY DEF IInv, FrameOK
  <2>2. t.ntp[h.lev] \in 0..MaxTp
    BY <2>1, OldRows
  <2> QED
    BY <2>1, <2>2 DEF Sent, Targets
<1>3. LastOrderSells'
  <2> SUFFICES ASSUME NEW i \in Targets
               PROVE  /\ i[2] > t.ntp[i[1]] => tp'[i] = "none"
                      /\ i[2] < t.ntp[i[1]] => tp'[i] \in {"none", "gone"}
                      /\ tp'[i] \in Alive => tpRow'[i] \in RowPending
    BY DEF LastOrderSells, Alive
  <2>1. CASE i = Sent
    BY <2>1 DEF TpKnown, LastOrderSells
  <2>2. CASE i /= Sent
    BY <2>2 DEF TpKnown, LastOrderSells, Alive
  <2> QED
    BY <2>1, <2>2
<1>4. SaleKnown'
  BY <1>2 DEF TpKnown, SaleKnown, Alive
<1>5. \A l \in ToPlace' : Counted(l)'
  <2> SUFFICES ASSUME NEW l \in ToPlace PROVE Counted(l)'
    BY <1>1
  <2>1. l \in h.todo /\ l /= h.lev
    BY <1>1 DEF ToPlace
  <2>2. l \in Levels
    BY <2>1, OldRows DEF Frame
  <2>3. HasTarget(l)' <=> HasTarget(l)
    <3>1. CASE t.ntp[l] > 0
      <4>1. <<l, t.ntp[l]>> \in Targets
        BY <2>2, <3>1, OldRows DEF Targets
      <4>2. <<l, t.ntp[l]>> /= Sent
        BY <2>1 DEF Sent
      <4> QED
        BY <4>1, <4>2 DEF HasTarget
    <3> QED
      BY <3>1 DEF HasTarget
  <2> SUFFICES ASSUME NEW i \in Targets, i[1] = l, tp'[i] = "fired"
               PROVE  l \in t.filled \/ HasTarget(l)
    BY <2>3 DEF Counted
  <2>4. i /= Sent
    BY <2>1 DEF Sent
  <2> QED
    BY <2>4 DEF TpKnown, Counted
<1> QED
  BY <1>1, <1>2, <1>3, <1>4, <1>5 DEF TpKnown, Sending

\* A target order is sent for a level that is not sold and whose last order
\* came to nothing.
LEMMA TpDrawn ==
  ASSUME IInv, TpKnown, NEW l \in Levels, NEW n, n = t.ntp[l] + 1, n <= MaxTp,
         NEW s \in {"flight", "mflight"},
         \A i \in Targets : i[1] = l => tp[i] \in {"none", "gone"},
         t' = WithNtp(t, l, n), tpRow' = [tpRow EXCEPT ![<<l, n>>] = "PENDING_SUBMIT"],
         tp' = [tp EXCEPT ![<<l, n>>] = s], ev' = ev,
         pc /= "mark", pc' = "tpsent", h'.lev = l, l \notin h'.todo,
         h'.todo \subseteq ToPlace, h'.todo \subseteq Levels
  PROVE  TpKnown'
<1>1. /\ t \in TradeRecord /\ t.ntp \in [Levels -> 0..MaxTp] /\ n \in 1..MaxTp
      /\ tp \in [Targets -> TargetOrder] /\ tpRow \in [Targets -> RowStatus]
  BY OldRows
<1>2. /\ t'.ntp = [t.ntp EXCEPT ![l] = n] /\ t'.filled = t.filled /\ t'.st = t.st
  BY <1>1 DEF WithNtp, TradeRecord
<1>3. /\ t'.ntp[l] = n /\ \A k \in Levels : k /= l => t'.ntp[k] = t.ntp[k]
      /\ <<l, n>> \in Targets
  BY <1>1, <1>2 DEF Targets
<1>4. /\ tp'[<<l, n>>] = s /\ tpRow'[<<l, n>>] = "PENDING_SUBMIT"
      /\ \A i \in Targets : i /= <<l, n>> => tp'[i] = tp[i] /\ tpRow'[i] = tpRow[i]
  BY <1>1, <1>3
<1>5. \A i \in Targets : i[1] \in Levels /\ i[2] \in 1..MaxTp /\ i = <<i[1], i[2]>>
  BY DEF Targets
<1>6. LastOrderSells'
  <2> SUFFICES ASSUME NEW i \in Targets
               PROVE  /\ i[2] > t'.ntp[i[1]] => tp'[i] = "none"
                      /\ i[2] < t'.ntp[i[1]] => tp'[i] \in {"none", "gone"}
                      /\ tp'[i] \in Alive => tpRow'[i] \in RowPending
    BY DEF LastOrderSells, Alive
  <2>1. CASE i = <<l, n>>
    BY <1>3, <1>4, <2>1 DEF RowPending
  <2>2. CASE i[1] = l /\ i /= <<l, n>>
    <3>1. tp'[i] = tp[i] /\ tp[i] \in {"none", "gone"}
      BY <1>4, <2>2
    <3>2. i[2] > n => i[2] > t.ntp[l]
      BY <1>1, <1>5
    <3> QED
      BY <1>3, <2>2, <3>1, <3>2 DEF TpKnown, LastOrderSells, Alive
  <2>3. CASE i[1] /= l
    <3>1. i /= <<l, n>> /\ t'.ntp[i[1]] = t.ntp[i[1]]
      BY <1>3, <1>5, <2>3
    <3> QED
      BY <1>4, <3>1 DEF TpKnown, LastOrderSells, Alive
  <2> QED
    BY <2>1, <2>2, <2>3
<1>7. SaleKnown'
  <2> SUFFICES ASSUME NEW i \in Targets, tp'[i] = "fired"
               PROVE  i[1] \in t.filled \/ Sold(i[1]) \in ev \/ t.st = "CLOSED"
    BY <1>2 DEF SaleKnown, Sold
  <2>1. i /= <<l, n>> /\ tp[i] = "fired"
    BY <1>4
  <2> QED
    BY <2>1 DEF TpKnown, SaleKnown, Sold
<1>8. \A k \in ToPlace' : Counted(k)'
  <2> SUFFICES ASSUME NEW k \in h'.todo PROVE Counted(k)'
    BY DEF ToPlace
  <2>1. k \in Levels /\ k /= l /\ k \in ToPlace
    OBVIOUS
  <2>2. HasTarget(k)' <=> HasTarget(k)
    <3>1. t'.ntp[k] = t.ntp[k]
      BY <1>3, <2>1
    <3>2. CASE t.ntp[k] > 0
      <4>1. <<k, t.ntp[k]>> \in Targets
        BY <1>1, <2>1, <3>2 DEF Targets
      <4>2. <<k, t.ntp[k]>> /= <<l, n>>
        BY <2>1
      <4> QED
        BY <1>4, <3>1, <4>1, <4>2 DEF HasTarget
    <3> QED
      BY <3>1, <3>2 DEF HasTarget
  <2> SUFFICES ASSUME NEW i \in Targets, i[1] = k, tp'[i] = "fired"
               PROVE  k \in t.filled \/ HasTarget(k)
    BY <1>2, <2>2 DEF Counted
  <2>3. i /= <<l, n>> /\ tp[i] = "fired"
    BY <1>4, <2>1
  <2> QED
    BY <2>1, <2>3 DEF TpKnown, Counted
<1> QED
  BY <1>6, <1>7, <1>8 DEF TpKnown, Sending


LEMMA ClosedStays ==
  ASSUME IInv, StateKnown, [Next]_vars, t.st = "CLOSED"
  PROVE  t'.st = "CLOSED"
<1>1. CanMove("CLOSED", t'.st)
  BY StepMoves DEF Moves
<1> QED
  BY <1>1 DEF CanMove, Allowed

\* Disturbances are counted and never forgotten.
LEMMA FaultCalm == ASSUME IInv, Fault, Calm' PROVE Calm
<1>1. bud \in BudType /\ bud' = [bud EXCEPT !.fault = @ + 1]
  BY DEF IInv, TypeOK, BudType, Fault
<1> QED
  BY <1>1 DEF BudType, Calm

LEMMA CalmBefore ==
  ASSUME IInv, [Next]_vars, Calm'
  PROVE  Calm /\ ~External /\ ~EventsLost /\ ~Crash
<1>1. bud \in BudType
  BY DEF IInv, TypeOK, BudType
<1>2. ~External /\ ~EventsLost /\ ~Crash
  BY <1>1 DEF External, EventsLost, Crash, BudType, Calm
<1>3. CASE bud' = bud
  BY <1>2, <1>3 DEF Calm
<1>4. CASE StopRejected
  <2>1. bud' = [bud EXCEPT !.reject = @ + 1]
    BY <1>4 DEF StopRejected
  <2>2. Calm
    BY <1>1, <2>1 DEF BudType, Calm
  <2> QED
    BY <1>2, <2>2
<1>5. bud' = bud \/ Fault \/ StopRejected
  <2>1. CASE Exchange \/ UserEvent \/ Reconcile \/ Restart \/ UNCHANGED vars
             \/ (\E lvl \in 0..MaxLvl : BarClose(lvl))
    BY <1>2, <2>1 DEF Exchange, StopLands, StopFires, TargetLands, TargetFires, RequestDies,
       UserEvent, FlatEvent, TargetEvent, GoneEvent, Reconcile, Restart, BarClose, vars
  <2>2. CASE Placing
    BY <2>2 DEF Placing, Protect, StopSend, StopAnswered, StopUnknown, StopImmediate, StopBlocked,
       StopResolved, StopUnresolved, Verify, VerifyFails, CancelOld, CancelFirst
  <2>3. CASE Targeting
    BY <2>3 DEF Targeting, NextTarget, TargetAnswered, TargetUnknown, TargetResolved,
       TargetRefused, TargetImmediate, PartialNow, TargetsPlaced
  <2>4. CASE Closing
    BY <2>4 DEF Closing, CloseTargets, CloseQuery, CloseSend, CloseEnd, FinalCancel, FinalClosed,
       Cancelled
  <2>5. CASE Checking
    BY <2>5 DEF Checking, CheckFlat, MarkFilled, EnsureStop
  <2>6. CASE Recovery
    BY <2>6, Zenon DEF Recovery, QueryPosition, ResumeClose, ProtectAgain, StopMissing, StopThere,
       ClosedOffline, NoTrade, Sweep, Compare
  <2> QED
    BY <1>2, <2>1, <2>2, <2>3, <2>4, <2>5, <2>6, Zenon DEF Next, Handlers
<1> QED
  BY <1>2, <1>3, <1>4, <1>5, FaultCalm

LEMMA StopFailedTargets ==
  ASSUME IInv, StopFailed
  PROVE  \/ pc' \in {"closetp", "idle", "sweep"}
         \/ pc' = "stop" /\ h'.job = "protect" /\ h.job = "protect"
<1>1. h \in Frame /\ TypeOK
  BY OldRows DEF IInv
<1>2. CASE h.job = "protect" /\ pc' = "stop" /\ h' = [h EXCEPT !.att = @ + 1]
  <2>1. h'.job = h.job
    BY <1>1, <1>2 DEF Frame
  <2> QED
    BY <1>2, <2>1
<1>3. CASE CloseNow(t)
  BY <1>3 DEF CloseNow
<1>4. CASE Done
  BY <1>1, <1>4, DoneDoes
<1> QED
  BY <1>2, <1>3, <1>4 DEF StopFailed

LEMMA TodoLevels == ASSUME IInv PROVE ToPlace \subseteq Levels
<1>1. h.todo \subseteq Levels
  BY OldRows DEF Frame
<1> QED
  BY <1>1 DEF ToPlace

LEMMA PlacingTp ==
  ASSUME IInv, IInv', StateKnown, TpKnown, Placing, t.st = "CLOSED" => t'.st = "CLOSED"
  PROVE  TpKnown'
<1>1. UNCHANGED <<tp, tpRow, ev>>
  BY DEF Placing, Protect, StopSend, StopAnswered, StopUnknown, StopImmediate, StopRejected,
     StopBlocked, StopNotTaken, StopResolved, StopUnresolved, Verify, VerifyFails, CancelOld,
     CancelFirst, exchange, rows
<1>2. pc \in {"guard0", "stop", "sent", "resolve", "verify", "moved", "replace"}
  BY DEF Placing, Protect, StopSend, StopAnswered, StopUnknown, StopImmediate, StopRejected,
     StopBlocked, StopNotTaken, StopResolved, StopUnresolved, Verify, VerifyFails, CancelOld,
     CancelFirst
<1>3. t'.ntp = t.ntp /\ t.filled \subseteq t'.filled
  BY PlacingUnnoted DEF Unnoted, SameNotes
<1>4. \/ pc' \notin Working \union {"down", "ensure", "mark"}
      \/ pc' \in {"stop", "sent", "resolve", "verify"} /\ h'.job = h.job
      \/ pc' \in {"stop", "sent", "resolve", "verify"} /\ h'.job /= "protect"
      \/ pc' \in {"stop", "tps"} /\ (pc = "guard0" \/ h.job = "protect")
  <2>1. CASE Protect
    BY <2>1 DEF Protect
  <2>2. CASE StopSend \/ StopAnswered \/ StopUnknown
    BY <2>2 DEF StopSend, StopAnswered, StopUnknown, GoTo
  <2>3. CASE StopFailed
    BY <2>3, StopFailedTargets DEF Working
  <2>4. CASE StopImmediate
    BY <2>4 DEF StopImmediate, CloseNow, Working
  <2>5. CASE StopRejected \/ StopResolved
    BY <2>3, <2>5 DEF StopRejected, StopResolved, GoTo, Working
  <2>6. CASE StopConfirmed
    BY <2>6, StopConfirmedDoes, DoneDoes DEF Working, IInv
  <2>7. CASE CancelOld
    BY <2>7, DoneDoes DEF CancelOld, Working, IInv
  <2>8. CASE CancelFirst
    <3>1. pc' = "stop" /\ h' = WithReplace(h)
      BY <2>8 DEF CancelFirst, WithReplace
    <3>2. h'.job = "replace"
      BY <3>1, OldRows, ReplaceUpdate
    <3> QED
      BY <3>1, <3>2
  <2> QED
    BY <2>1, <2>2, <2>3, <2>4, <2>5, <2>6, <2>7, <2>8
       DEF Placing, StopBlocked, StopUnresolved, Verify, VerifyFails
<1>5. ToPlace' \subseteq ToPlace
  <2>1. ToPlace' \subseteq Levels
    <3>1. h'.todo \subseteq Levels
      BY DEF IInv, TypeOK, Frame
    <3> QED
      BY <3>1 DEF ToPlace
  <2>2. pc = "guard0" => ToPlace = Levels
    BY DEF ToPlace, StateKnown
  <2>3. (pc \in {"stop", "sent", "resolve", "verify"} /\ h.job = "protect") => ToPlace = Levels
    BY DEF ToPlace
  <2>4. CASE pc' \notin Working
    BY <2>4, AwayFromTargets
  <2>5. CASE pc' \in {"stop", "sent", "resolve", "verify"} /\ h'.job /= "protect"
    BY <2>5 DEF ToPlace
  <2>6. CASE h.job = "protect" /\ pc \notin {"moved", "replace"}
    BY <1>2, <2>1, <2>2, <2>3, <2>6
  <2>7. pc \in {"moved", "replace"} =>
          pc' \in {"idle", "sweep"} \/ (pc' = "stop" /\ h'.job = "replace")
    <3>1. CASE CancelOld
      BY <3>1, DoneDoes DEF CancelOld, IInv
    <3>2. CASE CancelFirst
      <4>1. h' = WithReplace(h)
        BY <3>2 DEF CancelFirst, WithReplace
      <4> QED
        BY <3>2, <4>1, OldRows, ReplaceUpdate DEF CancelFirst
    <3> QED
      BY <3>1, <3>2
         DEF Placing, Protect, StopSend, StopAnswered, StopUnknown, StopImmediate, StopRejected,
             StopBlocked, StopNotTaken, StopResolved, StopUnresolved, Verify, VerifyFails
  <2>8. CASE pc = "guard0"
    BY <2>1, <2>2, <2>8
  <2> QED
    BY <1>2, <1>4, <2>4, <2>5, <2>6, <2>7, <2>8 DEF Working
<1>6. pc' \notin {"down", "ensure", "mark"} \union Sending
  BY <1>4 DEF Working, Sending
<1> QED
  BY <1>1, <1>2, <1>3, <1>5, <1>6, TpStill DEF TpKnown


\* A level that is counted and not skipped has nothing sold and nothing alive.
LEMMA NothingAlive ==
  ASSUME IInv, LastOrderSells, NEW l \in Levels, Counted(l), l \notin t.filled, ~HasTarget(l)
  PROVE  \A i \in Targets : i[1] = l => tp[i] \in {"none", "gone"}
<1> SUFFICES ASSUME NEW i \in Targets, i[1] = l PROVE tp[i] \in {"none", "gone"}
  OBVIOUS
<1>1. tp[i] \in TargetOrder
  BY OldRows
<1>2. tp[i] /= "fired"
  BY DEF Counted
<1>3. tp[i] \notin Alive
  <2> SUFFICES ASSUME tp[i] \in Alive PROVE FALSE
    OBVIOUS
  <2>1. t.ntp[l] > 0 /\ i = <<l, t.ntp[l]>>
    BY AliveLast
  <2>2. tpRow[i] \in RowPending
    BY DEF LastOrderSells, Alive
  <2> QED
    BY <2>1, <2>2 DEF HasTarget
<1> QED
  BY <1>1, <1>2, <1>3 DEF TargetOrder, Alive

LEMMA NextTargetTp == ASSUME IInv, TpKnown, NextTarget PROVE TpKnown'
<1> DEFINE l == CHOOSE k \in h.todo : \A m \in h.todo : k <= m
           n == t.ntp[l] + 1
           skip == l \in t.filled \/ HasTarget(l) \/ n >= MaxTp
<1>1. /\ UNCHANGED <<pos, sl, ev, slRow, bud>> /\ pc = "tps" /\ h.todo /= {}
      /\ \/ h' = WithTodo(h, h.todo \ {l}) /\ UNCHANGED <<t, tpRow, tp, pc>>
         \/ /\ ~skip
            /\ h' = WithLev(WithTodo(h, h.todo \ {l}), l)
            /\ t' = WithNtp(t, l, n)
            /\ tpRow' = [tpRow EXCEPT ![<<l, n>>] = "PENDING_SUBMIT"]
            /\ tp' = [tp EXCEPT ![<<l, n>>] = "flight"]
            /\ pc' = "tpsent"
  BY DEF NextTarget, WithTodo, WithLev, WithNtp
<1>2. h \in Frame /\ h.todo \in SUBSET Levels /\ ToPlace = h.todo
  BY <1>1, OldRows DEF Frame, ToPlace
<1>3. l \in h.todo /\ l \in Levels
  BY <1>1, <1>2, LeastLevel
<1> HIDE DEF l
<1>4. WithTodo(h, h.todo \ {l}).todo = h.todo \ {l}
  BY <1>2 DEF WithTodo, Frame
<1>5. CASE h' = WithTodo(h, h.todo \ {l}) /\ UNCHANGED <<t, tpRow, tp, pc>>
  <2>1. ToPlace' \subseteq ToPlace
    BY <1>1, <1>2, <1>4, <1>5 DEF ToPlace
  <2> QED
    BY <1>1, <1>5, <2>1, TpStill DEF TpKnown, Sending
<1>6. CASE /\ ~skip
           /\ h' = WithLev(WithTodo(h, h.todo \ {l}), l)
           /\ t' = WithNtp(t, l, n)
           /\ tpRow' = [tpRow EXCEPT ![<<l, n>>] = "PENDING_SUBMIT"]
           /\ tp' = [tp EXCEPT ![<<l, n>>] = "flight"]
           /\ pc' = "tpsent"
  <2>1. h'.lev = l /\ h'.todo = h.todo \ {l}
    <3> DEFINE f == WithTodo(h, h.todo \ {l})
    <3>1. f \in Frame /\ f.todo = h.todo \ {l}
      BY <1>2, <1>4, TodoUpdate DEF SameJob
    <3> HIDE DEF f
    <3>2. WithLev(f, l).lev = l /\ WithLev(f, l).todo = f.todo
      BY <3>1 DEF WithLev, Frame
    <3> QED
      BY <1>6, <3>1, <3>2 DEF f
  <2>2. \A i \in Targets : i[1] = l => tp[i] \in {"none", "gone"}
    BY <1>2, <1>3, <1>6, NothingAlive DEF TpKnown
  <2>3. t.ntp[l] \in 0..MaxTp
    BY <1>3, OldRows
  <2>4. n <= MaxTp
    BY <1>6, <2>3
  <2> QED
    BY <1>1, <1>2, <1>3, <1>6, <2>1, <2>2, <2>4, TpDrawn
<1> QED
  BY <1>1, <1>5, <1>6

LEMMA PartialNowTp == ASSUME IInv, TpKnown, PartialNow PROVE TpKnown'
<1> DEFINE l == h.lev
           n == t.ntp[l] + 1
<1>1. /\ pc = "now" /\ ev' = ev /\ h' = h
      /\ \/ pc' = "tps" /\ UNCHANGED <<t, tp, tpRow>>
         \/ /\ pc' = "tpsent" /\ t' = WithNtp(t, l, n)
            /\ tpRow' = [tpRow EXCEPT ![<<l, n>>] = "PENDING_SUBMIT"]
            /\ tp' = [tp EXCEPT ![<<l, n>>] = "mflight"]
  BY DEF PartialNow, GoTo, WithNtp
<1>2. /\ l \in Levels /\ t.ntp[l] < MaxTp /\ t.ntp[l] \in 0..MaxTp
      /\ ToPlace = h.todo /\ h.todo \subseteq Levels
  BY <1>1, OldRows DEF IInv, FrameOK, ToPlace, Frame
<1>3. Sent \in Targets /\ tp[Sent] = "none" /\ l \notin h.todo
  BY <1>1 DEF TpKnown, Sending
<1>4. CASE pc' = "tps" /\ UNCHANGED <<t, tp, tpRow>>
  <2>1. ToPlace' \subseteq ToPlace
    BY <1>1, <1>2, <1>4 DEF ToPlace
  <2> QED
    BY <1>1, <1>4, <2>1, TpStill DEF TpKnown, Sending
<1>5. CASE /\ pc' = "tpsent" /\ t' = WithNtp(t, l, n)
           /\ tpRow' = [tpRow EXCEPT ![<<l, n>>] = "PENDING_SUBMIT"]
           /\ tp' = [tp EXCEPT ![<<l, n>>] = "mflight"]
  <2>1. \A i \in Targets : i[1] = l => tp[i] \in {"none", "gone"}
    <3> SUFFICES ASSUME NEW i \in Targets, i[1] = l PROVE tp[i] \in {"none", "gone"}
      OBVIOUS
    <3>1. tp[i] \in TargetOrder
      BY OldRows
    <3>2. tp[i] \notin Alive \union {"fired"}
      <4> SUFFICES ASSUME tp[i] \in Alive \union {"fired"} PROVE FALSE
        OBVIOUS
      <4>1. i = Sent
        BY AliveLast DEF TpKnown, Sent
      <4> QED
        BY <1>3, <4>1 DEF Alive
    <3> QED
      BY <3>1, <3>2 DEF TargetOrder, Alive
  <2>2. n <= MaxTp /\ h'.lev = l /\ l \notin h'.todo /\ h'.todo \subseteq Levels
        /\ h'.todo \subseteq ToPlace
    BY <1>1, <1>2, <1>3
  <2> HIDE DEF l
  <2> QED
    BY <1>1, <1>2, <1>5, <2>1, <2>2, TpDrawn, ZenonT(30)
<1> QED
  BY <1>1, <1>4, <1>5

LEMMA TargetingTp ==
  ASSUME IInv, TpKnown, Targeting, t.st = "CLOSED" => t'.st = "CLOSED"
  PROVE  TpKnown'
<1>1. /\ tp \in [Targets -> TargetOrder] /\ tpRow \in [Targets -> RowStatus]
      /\ t \in TradeRecord /\ TypeOK
  BY OldRows DEF IInv
<1>2. \A s, i : i /= Sent => /\ [tp EXCEPT ![Sent] = s][i] = tp[i]
                            /\ [tpRow EXCEPT ![Sent] = s][i] = tpRow[i]
  BY <1>1
<1>3. pc \in {"tpsent", "tpresolve"} => Sent \in Targets
  <2> SUFFICES ASSUME pc \in {"tpsent", "tpresolve"} PROVE Sent \in Targets
    OBVIOUS
  <2>1. h.lev \in Levels /\ t.ntp[h.lev] > 0
    BY DEF IInv, FrameOK
  <2>2. t.ntp[h.lev] \in 0..MaxTp
    BY <2>1, OldRows
  <2> QED
    BY <2>1, <2>2 DEF Sent, Targets
<1>4. Sent \in Targets =>
        \A s : [tp EXCEPT ![Sent] = s][Sent] = s /\ [tpRow EXCEPT ![Sent] = s][Sent] = s
  BY <1>1
<1>5. Status("open") \in RowPending /\ "UNKNOWN" \in RowPending
  BY DEF Status, RowPending
<1>6. CASE TargetAnswered
  <2>1. /\ pc = "tpsent" /\ pc' = "tps" /\ UNCHANGED <<t, ev, h, tp>>
        /\ tp[Sent] \notin {"none", "flight", "mflight"}
        /\ \E st \in {"open", tp[Sent]} :
             tpRow' = [tpRow EXCEPT ![Sent] = Status(IF tp[Sent] = "fired" THEN st ELSE tp[Sent])]
    BY <1>6 DEF TargetAnswered, GoTo, exchange
  <2>2. tp[Sent] \in Alive => tpRow'[Sent] \in RowPending
    BY <1>3, <1>4, <1>5, <2>1 DEF Alive
  <2>3. \A i \in Targets : i /= Sent => tpRow'[i] = tpRow[i]
    BY <1>2, <2>1
  <2> QED
    BY <2>1, <2>2, <2>3, TpAnswered
<1>7. CASE TargetUnknown
  <2>1. /\ pc = "tpsent" /\ pc' = "tpresolve" /\ UNCHANGED <<t, ev, h, tp>>
        /\ tpRow' = [tpRow EXCEPT ![Sent] = "UNKNOWN"]
    BY <1>7 DEF TargetUnknown, GoTo, exchange
  <2> QED
    BY <1>2, <1>3, <1>4, <1>5, <2>1, TpAnswered
<1>8. CASE TargetResolved
  <2>1. /\ pc = "tpresolve" /\ pc' = "tps" /\ UNCHANGED <<t, ev, h, tp>>
        /\ tp[Sent] \notin {"flight", "mflight"}
        /\ \/ tpRow' = [tpRow EXCEPT ![Sent] = Status(tp[Sent])]
           \/ tpRow' = tpRow
    BY <1>8 DEF TargetResolved, GoTo, exchange
  <2>2. tp[Sent] \in Alive => tpRow'[Sent] \in RowPending
    BY <1>3, <1>4, <1>5, <2>1 DEF Alive, TpKnown, LastOrderSells
  <2>3. \A i \in Targets : i /= Sent => tpRow'[i] = tpRow[i]
    <3>1. CASE tpRow' = [tpRow EXCEPT ![Sent] = Status(tp[Sent])]
      BY <1>2, <3>1
    <3> QED
      BY <2>1, <3>1
  <2> QED
    BY <2>1, <2>2, <2>3, TpAnswered
<1>9. CASE TargetRefused \/ TargetImmediate
  <2>1. /\ pc = "tpsent" /\ pc' \in {"tps", "now"} /\ UNCHANGED <<t, ev, h>>
        /\ tp[Sent] \in {"flight", "mflight"}
        /\ tp' = [tp EXCEPT ![Sent] = "none"]
        /\ \E s : tpRow' = [tpRow EXCEPT ![Sent] = s]
    BY <1>9 DEF TargetRefused, TargetImmediate, TargetNotTaken, GoTo
  <2>2. tp'[Sent] = "none" /\ tp[Sent] \in Alive
    BY <1>3, <1>4, <2>1 DEF Alive
  <2>3. \A i \in Targets : i /= Sent => tp'[i] = tp[i] /\ tpRow'[i] = tpRow[i]
    BY <1>2, <2>1
  <2>4. "none" \notin Alive
    BY DEF Alive
  <2> QED
    BY <2>1, <2>2, <2>3, <2>4, TpAnswered
<1>10. CASE TargetsPlaced
  <2>1. /\ pc = "tps" /\ UNCHANGED <<tp, tpRow, ev>> /\ Done
        /\ t' = t \/ t' = Refreshed(t)
    BY <1>10 DEF TargetsPlaced, exchange, rows
  <2>2. t'.ntp = t.ntp /\ t'.filled = t.filled
    BY <1>1, <2>1, NotesRefreshed DEF SameNotes
  <2>3. pc' \in {"idle", "sweep"} /\ ToPlace' = {}
    BY <1>1, <2>1, DoneDoes, AwayFromTargets DEF Working
  <2> QED
    BY <2>1, <2>2, <2>3, TpStill DEF TpKnown, Sending
<1> QED
  BY <1>6, <1>7, <1>8, <1>9, <1>10, NextTargetTp, PartialNowTp DEF Targeting

LEMMA WithoutTargets ==
  ASSUME NEW is \in SUBSET OpenTargets, tp' = TargetsWithout(is),
         \/ tpRow' = [i \in Targets |-> IF i \in is THEN "CANCELED" ELSE tpRow[i]]
         \/ /\ \A i \in Targets : tp[i] \notin {"flight", "mflight"}
            /\ \E more : tpRow' = TargetRows(is \union more)
  PROVE  \A i \in Targets :
           /\ tp'[i] = tp[i] \/ (tp[i] \in Alive /\ tp'[i] = "gone")
           /\ tpRow'[i] = tpRow[i] \/ tp'[i] \notin Alive \/ tpRow'[i] \in RowPending
<1> SUFFICES ASSUME NEW i \in Targets
             PROVE  /\ tp'[i] = tp[i] \/ (tp[i] \in Alive /\ tp'[i] = "gone")
                    /\ tpRow'[i] = tpRow[i] \/ tp'[i] \notin Alive \/ tpRow'[i] \in RowPending
  OBVIOUS
<1>1. tp'[i] = IF i \in is THEN "gone" ELSE tp[i]
  BY DEF TargetsWithout
<1>2. i \in is => tp[i] \in Alive
  BY DEF OpenTargets, Alive
<1>3. "gone" \notin Alive /\ Status("open") \in RowPending
  BY DEF Alive, Status, RowPending
<1>4. CASE tpRow' = [k \in Targets |-> IF k \in is THEN "CANCELED" ELSE tpRow[k]]
  BY <1>1, <1>2, <1>3, <1>4
<1>5. CASE /\ \A k \in Targets : tp[k] \notin {"flight", "mflight"}
           /\ \E more : tpRow' = TargetRows(is \union more)
  <2>1. tpRow'[i] = tpRow[i] \/ tpRow'[i] = Status(tp'[i])
    BY <1>5 DEF TargetRows
  <2>2. tp'[i] \in Alive => tp'[i] = "open"
    BY <1>1, <1>3, <1>5 DEF Alive
  <2> QED
    BY <1>1, <1>2, <1>3, <2>1, <2>2
<1> QED
  BY <1>4, <1>5

LEMMA ClosingTp ==
  ASSUME IInv, TpKnown, Closing, t.st = "CLOSED" => t'.st = "CLOSED"
  PROVE  TpKnown'
<1>1. pc' \in ClosePc \union {"idle", "sweep"} /\ pc /= "mark"
  BY ClosingPlaces DEF Closing, CloseTargets, CloseQuery, CloseSend, CloseEnd, FinalCancel,
     FinalClosed
<1>2. pc' \notin {"down", "ensure", "mark"} \union Working \union Sending
  BY <1>1 DEF ClosePc, Working, Sending
<1>3. CASE CloseTargets \/ FinalCancel
  <2>1. PICK is \in SUBSET OpenTargets :
          tp' = TargetsWithout(is)
          /\ tpRow' = [i \in Targets |-> IF i \in is THEN "CANCELED" ELSE tpRow[i]]
    BY <1>3, Zenon DEF CloseTargets, FinalCancel, Cancelled
  <2>2. t' = t /\ ev' = ev
    BY <1>3 DEF CloseTargets, FinalCancel, Cancelled
  <2> QED
    BY <1>1, <1>2, <2>1, <2>2, WithoutTargets, TpCancels
<1>4. CASE CloseQuery \/ CloseSend \/ CloseEnd \/ FinalClosed
  <2>1. UNCHANGED <<tp, tpRow, ev>>
        /\ (t' = t \/ t' = WithSt(t, "ERROR") \/ t' = WithSt(t, "CLOSED"))
    BY <1>4 DEF CloseQuery, CloseSend, CloseEnd, FinalClosed, exchange, rows, WithSt
  <2>2. t'.ntp = t.ntp /\ t'.filled = t.filled
    BY <2>1, OldRows, NotesKept DEF SameNotes
  <2> QED
    BY <1>1, <1>2, <2>1, <2>2, AwayFromTargets, TpStill DEF TpKnown
<1> QED
  BY <1>3, <1>4 DEF Closing

LEMMA CheckingTp ==
  ASSUME IInv, TpKnown, Checking, t.st = "CLOSED" => t'.st = "CLOSED"
  PROVE  TpKnown'
<1>1. t \in TradeRecord /\ TypeOK /\ UNCHANGED <<tp, tpRow, ev>>
  BY OldRows DEF Checking, CheckFlat, MarkFilled, EnsureStop, exchange, rows, IInv
<1>2. CASE CheckFlat
  <2>1. pc = "flat" /\ (OnFlat(t) \/ (t' = t /\ Done))
    BY <1>2 DEF CheckFlat
  <2>2. pc' \in {"final", "idle", "sweep"}
    BY <1>1, <2>1, DoneDoes DEF OnFlat
  <2>3. t'.ntp = t.ntp /\ t'.filled = t.filled
    BY <1>1, <2>1, UnnotedClosing DEF SameNotes
  <2> QED
    BY <1>1, <2>1, <2>2, <2>3, AwayFromTargets, TpStill DEF TpKnown, Working, Sending
<1>3. CASE MarkFilled
  <2> DEFINE r == WithFilled(t, h.lev)
  <2>1. pc = "mark" /\ (OnFlat(r) \/ (t' = Refreshed(r) /\ Done))
    BY <1>3 DEF MarkFilled, WithFilled
  <2>2. h.lev \in Levels
    BY <2>1 DEF IInv, FrameOK
  <2>3. r \in TradeRecord
    BY <1>1, <2>2, FilledUpdate DEF Keeps
  <2>4. r.ntp = t.ntp /\ r.filled = t.filled \union {h.lev}
    BY <1>1 DEF WithFilled, TradeRecord
  <2> HIDE DEF r
  <2>5. pc' \in {"final", "idle", "sweep"}
    BY <1>1, <2>1, DoneDoes DEF OnFlat
  <2>6. t'.ntp = r.ntp /\ t'.filled = r.filled
    BY <1>1, <2>1, <2>3, UnnotedClosing, NotesRefreshed DEF SameNotes
  <2> QED
    BY <1>1, <2>4, <2>5, <2>6, AwayFromTargets, TpStill DEF TpKnown, Working, Sending
<1>4. ~EnsureStop
  BY DEF EnsureStop, TpKnown
<1> QED
  BY <1>2, <1>3, <1>4 DEF Checking


LEMMA EventTp ==
  ASSUME IInv, TpKnown, UserEvent \/ (\E lvl \in 0..MaxLvl : BarClose(lvl)),
         t.st = "CLOSED" => t'.st = "CLOSED"
  PROVE  TpKnown'
<1>1. t \in TradeRecord /\ h \in Frame /\ TypeOK /\ pc = "idle"
  BY OldRows DEF UserEvent, FlatEvent, TargetEvent, GoneEvent, Take, BarClose, IInv
<1>2. CASE FlatEvent
  <2>1. UNCHANGED <<tp, tpRow, t>> /\ ev' = ev \ {[kind |-> "flat"]} /\ pc' \in {"idle", "flat"}
    BY <1>2 DEF FlatEvent, Take, exchange, rows, GoTo
  <2>2. \A l \in Levels : Sold(l) \in ev => Sold(l) \in ev'
    BY <2>1 DEF Sold
  <2> QED
    BY <1>1, <2>1, <2>2, AwayFromTargets, TpStill DEF TpKnown, Working, Sending
<1>3. CASE \E l \in Levels : TargetEvent(l)
  <2>1. PICK l \in Levels : TargetEvent(l)
    BY <1>3
  <2>2. /\ UNCHANGED <<tp, t>> /\ ev' = ev \ {Sold(l)}
        /\ tpRow' = [i \in Targets |->
                      IF i[1] = l /\ tp[i] = "fired" THEN "FINISHED" ELSE tpRow[i]]
        /\ \/ t.st = "CLOSED" /\ pc' = "idle"
           \/ pc' = "mark" /\ h' = WithLev(h, l)
    BY <2>1 DEF TargetEvent, Take, exchange, Sold, WithLev, GoTo
  <2>3. l \in 0..NT
    BY DEF Levels
  <2>4. pc' = "mark" => h'.lev = l
    BY <1>1, <2>2, <2>3, LevUpdate
  <2>5. LastOrderSells'
    BY <2>2 DEF TpKnown, LastOrderSells
  <2>6. SaleKnown'
    <3> SUFFICES ASSUME NEW i \in Targets, tp[i] = "fired", t.st /= "CLOSED"
                 PROVE  \/ i[1] \in t.filled \/ Sold(i[1]) \in ev'
                        \/ pc' = "mark" /\ h'.lev = i[1]
      BY <2>2 DEF SaleKnown, Sold
    <3>1. i[1] \in t.filled \/ Sold(i[1]) \in ev
      BY <1>1 DEF TpKnown, SaleKnown, Sold
    <3>2. CASE i[1] = l
      BY <2>2, <2>4, <3>2
    <3>3. CASE i[1] /= l
      BY <2>2, <3>1, <3>3 DEF Sold
    <3> QED
      BY <3>2, <3>3
  <2>7. ToPlace' = {}
    BY <2>2, AwayFromTargets DEF Working
  <2> QED
    BY <2>2, <2>5, <2>6, <2>7 DEF TpKnown, Sending
<1>4. ~\E n \in Stops : GoneEvent(n)
  BY DEF GoneEvent, Take, TpKnown
<1>5. CASE \E lvl \in 0..MaxLvl : BarClose(lvl)
  <2>1. PICK lvl \in 0..MaxLvl : BarClose(lvl)
    BY <1>5
  <2> DEFINE r == WithLogic(t, lvl)
  <2>2. /\ UNCHANGED <<tp, tpRow, ev>>
        /\ \/ CloseNow(r)
           \/ t' = Refreshed(r) /\ Done
           \/ t' = r /\ pc' = "stop" /\ h' = WithMove(h, lvl)
    BY <2>1 DEF BarClose, WithLogic, WithMove, exchange, rows
  <2>3. r \in TradeRecord
    BY <1>1, LogicUpdate DEF Keeps
  <2>4. r.ntp = t.ntp /\ r.filled = t.filled
    BY <1>1 DEF WithLogic, TradeRecord
  <2> HIDE DEF r
  <2>5. t'.ntp = r.ntp /\ t'.filled = r.filled
    BY <1>1, <2>2, <2>3, UnnotedClosing, NotesRefreshed DEF SameNotes
  <2>6. ToPlace' = {} /\ pc' \notin {"down", "ensure", "mark"} \union Sending
    <3>1. CASE CloseNow(r) \/ Done
      <4>1. pc' \in {"closetp", "idle", "sweep"}
        BY <1>1, <3>1, DoneDoes DEF CloseNow
      <4> QED
        BY <4>1, AwayFromTargets DEF Working, Sending
    <3>2. CASE pc' = "stop" /\ h' = WithMove(h, lvl)
      <4>1. h'.job = "move"
        BY <1>1, <3>2, MoveUpdate
      <4> QED
        BY <3>2, <4>1 DEF ToPlace, Sending
    <3> QED
      BY <2>2, <3>1, <3>2
  <2> QED
    BY <1>1, <2>2, <2>4, <2>5, <2>6, TpStill DEF TpKnown
<1> QED
  BY <1>2, <1>3, <1>4, <1>5 DEF UserEvent

LEMMA RecoveryTp ==
  ASSUME IInv, IInv', StateKnown, TpKnown, Recovery \/ Reconcile,
         t.st = "CLOSED" => t'.st = "CLOSED"
  PROVE  TpKnown'
<1>1. t \in TradeRecord /\ h \in Frame /\ TypeOK /\ h'.todo \subseteq Levels
  BY OldRows DEF IInv, TypeOK, Frame
<1>2. CASE Reconcile
  <2>1. /\ pc = "idle" /\ ev = {} /\ pc' = "rq" /\ UNCHANGED <<tp, tpRow, ev, t>>
    BY <1>2 DEF Reconcile, exchange, rows
  <2>2. LastOrderSells' /\ SaleKnown'
    BY <2>1 DEF TpKnown, LastOrderSells, SaleKnown
  <2>3. \A l \in ToPlace' : Counted(l)'
    <3> SUFFICES ASSUME t.st /= "CLOSED", NEW l \in Levels PROVE Counted(l)'
      BY <2>1 DEF ToPlace
    <3>1. \A i \in Targets : tp[i] = "fired" => i[1] \in t.filled
      BY <2>1 DEF TpKnown, SaleKnown
    <3> QED
      BY <2>1, <3>1 DEF Counted
  <2> QED
    BY <2>1, <2>2, <2>3 DEF TpKnown, Sending
<1>3. CASE Recovery /\ ~Sweep
  <2>1. UNCHANGED <<tp, tpRow, ev>> /\ pc \in {"rq", "ralgos"}
    BY <1>3 DEF Recovery, QueryPosition, ResumeClose, ProtectAgain, StopMissing, StopThere,
                ClosedOffline, NoTrade, Compare, exchange, rows
  <2>2. t'.ntp = t.ntp /\ t'.filled = t.filled
    BY <1>3, RecoveryUnnoted DEF Unnoted, SameNotes
  <2>3. \/ pc' \in {"idle", "closetp", "final", "sweep"}
        \/ pc' = "ralgos" /\ t' = t
        \/ pc' \in {"guard0", "tps"} /\ t.st /= "CLOSED"
    BY <1>3 DEF Recovery, QueryPosition, ResumeClose, ProtectAgain, StopMissing, StopThere,
                ClosedOffline, NoTrade, Has, CloseNow, OnFlat, GoTo
  <2>4. ToPlace' \subseteq ToPlace
    <3>1. CASE pc' \in {"idle", "closetp", "final", "sweep"}
      BY <3>1, AwayFromTargets DEF Working
    <3>2. CASE pc' = "ralgos" /\ t' = t
      BY <2>1, <3>2 DEF ToPlace
    <3>3. CASE pc' \in {"guard0", "tps"} /\ t.st /= "CLOSED"
      BY <1>1, <2>1, <3>3 DEF ToPlace
    <3> QED
      BY <2>3, <3>1, <3>2, <3>3
  <2> QED
    BY <2>1, <2>2, <2>3, <2>4, TpStill DEF TpKnown, Sending
<1>4. CASE Sweep
  <2>1. PICK is \in SUBSET Strays(OpenTargets) :
          /\ tp' = TargetsWithout(is)
          /\ \E more : tpRow' = TargetRows(is \union more)
    BY <1>4, Zenon DEF Sweep
  <2>2. /\ \A i \in Targets : tp[i] \notin {"flight", "mflight"}
        /\ UNCHANGED <<t, ev>> /\ pc = "sweep" /\ pc' = "idle"
    BY <1>4 DEF Sweep
  <2>3. is \in SUBSET OpenTargets
    BY DEF Strays
  <2> QED
    BY <2>1, <2>2, <2>3, WithoutTargets, TpCancels DEF Working
<1> QED
  BY <1>2, <1>3, <1>4

LEMMA ExchangeTp ==
  ASSUME IInv, TpKnown, (Exchange /\ ~External /\ ~EventsLost) \/ UNCHANGED vars
  PROVE  TpKnown'
<1>1. tp \in [Targets -> TargetOrder]
  BY OldRows
<1>2. UNCHANGED <<t, tpRow, pc, h>>
  BY DEF Exchange, StopLands, StopFires, TargetLands, TargetFires, RequestDies, rows, vars
<1>3. /\ ev \subseteq ev' /\ \A e \in ev' : e.kind /= "gone"
      /\ \A i \in Targets : \/ tp'[i] = tp[i]
                            \/ /\ tp[i] \in Alive
                               /\ tp'[i] \in {"none", "open", "fired", "gone"}
                               /\ tp'[i] = "fired" => Sold(i[1]) \in ev'
  <2>1. \A e \in ev : e.kind /= "gone"
    BY DEF TpKnown
  <2>2. CASE tp' = tp /\ ev' = ev
    BY <2>1, <2>2
  <2>3. CASE tp' = tp /\ ev' = ev \union Flattened(0)
    BY <2>1, <2>3 DEF Flattened
  <2>4. CASE \E i \in Targets : TargetLands(i) \/ TargetFires(i)
    <3>1. PICK i \in Targets : TargetLands(i) \/ TargetFires(i)
      BY <2>4
    <3>2. tp[i] \in Alive
      BY <3>1 DEF TargetLands, TargetFires, OpenTargets, Alive
    <3>3. \/ ev' = ev /\ \E s \in {"open", "gone"} : tp' = [tp EXCEPT ![i] = s]
          \/ /\ ev' = ev \union {Sold(i[1])} \union Flattened(pos')
             /\ tp' = [tp EXCEPT ![i] = "fired"]
      BY <3>1 DEF TargetLands, TargetFires, Sold
    <3>4. ev \subseteq ev' /\ \A e \in ev' : e.kind /= "gone"
      BY <2>1, <3>3 DEF Flattened, Sold
    <3>5. /\ \A k \in Targets : k /= i => tp'[k] = tp[k]
          /\ tp'[i] \in {"open", "gone", "fired"}
          /\ tp'[i] = "fired" => Sold(i[1]) \in ev'
      BY <1>1, <3>3
    <3> QED
      BY <3>2, <3>4, <3>5
  <2>5. CASE RequestDies
    <3>1. CASE \E i \in Targets : tp[i] \in {"flight", "mflight"} /\ tp' = [tp EXCEPT ![i] = "none"]
      <4>1. PICK i \in Targets : tp[i] \in Alive /\ tp' = [tp EXCEPT ![i] = "none"]
        BY <3>1 DEF Alive
      <4>2. ev' = ev
        BY <2>5 DEF RequestDies
      <4>3. tp'[i] = "none" /\ \A k \in Targets : k /= i => tp'[k] = tp[k]
        BY <1>1, <4>1
      <4> QED
        BY <2>1, <4>1, <4>2, <4>3
    <3>2. CASE tp' = tp
      BY <2>1, <2>5, <3>2 DEF RequestDies
    <3> QED
      BY <2>5, <3>1, <3>2 DEF RequestDies
  <2> QED
    BY <2>2, <2>3, <2>4, <2>5 DEF Exchange, StopLands, StopFires, vars
<1> QED
  BY <1>2, <1>3, TpExchange

LEMMA TpStep == ASSUME IInv, IInv', StateKnown, TpInv, [Next]_vars PROVE TpInv'
<1> SUFFICES ASSUME Calm' PROVE TpKnown'
  <2>1. Calm' => TpKnown'
    OBVIOUS
  <2>2. IInv' /\ LastOrderSells' => TpOncePerLevel'
    BY SoldOnce, PTL
  <2>3. TpOnceUndisturbed'
    BY <2>1, <2>2 DEF TpOnceUndisturbed, TpKnown
  <2>4. TpParts'
    BY TpParts, PTL
  <2> QED
    BY <2>1, <2>3, <2>4 DEF TpParts
<1>1. Calm /\ ~External /\ ~EventsLost /\ ~Crash
  BY CalmBefore
<1>2. TpKnown
  BY <1>1, TpParts
<1>3. t.st = "CLOSED" => t'.st = "CLOSED"
  BY ClosedStays
<1>4. ~Restart
  BY <1>2 DEF Restart, TpKnown
<1> QED
  BY <1>1, <1>2, <1>3, <1>4, ExchangeTp, PlacingTp, TargetingTp, ClosingTp, CheckingTp, EventTp,
     RecoveryTp, Zenon DEF Next, Handlers

LEMMA TpInit == Init => TpInv
<1> SUFFICES ASSUME Init PROVE TpInv
  OBVIOUS
<1>1. /\ tp = [i \in Targets |-> "none"] /\ ev = {} /\ pc = "guard0"
      /\ h = NoFrame /\ t.ntp = [l \in Levels |-> 0]
  BY DEF Init
<1>2. LastOrderSells
  <2> SUFFICES ASSUME NEW i \in Targets PROVE ~(i[2] < t.ntp[i[1]])
    BY <1>1 DEF LastOrderSells
  <2>1. i[1] \in Levels /\ i[2] \in 1..MaxTp
    BY DEF Targets
  <2> QED
    BY <1>1, <2>1
<1>3. SaleKnown /\ (\A l \in ToPlace : Counted(l)) /\ TpOncePerLevel
  <2>1. \A i \in Targets : tp[i] /= "fired"
    BY <1>1
  <2>2. TpOncePerLevel
    BY <2>1 DEF TpOncePerLevel, Targets
  <2> QED
    BY <2>1, <2>2 DEF SaleKnown, Counted
<1> QED
  BY <1>1, <1>2, <1>3, TpParts DEF TpKnown, Sending, TpOnceUndisturbed

\* Whatever answers are lost or refused and whichever handlers interleave, no
\* target level is sold twice, as long as every event arrives, nobody else
\* touches the orders and the process does not die.
THEOREM SoldAtMostOnce == Spec => []TpOnceUndisturbed
<1>1. IInv /\ StateKnown /\ TpInv /\ [Next]_vars => StateKnown' /\ TpInv'
  BY StepInv, StepMoves, TpStep DEF Moves
<1>2. TpInv => TpOnceUndisturbed
  BY DEF TpInv
<1> QED
  BY <1>1, <1>2, InitInv, StepInv, StateKnownInit, TpInit, PTL DEF Spec

============================================================================
