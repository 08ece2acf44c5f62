-------------------------- MODULE EntryOnceProofs --------------------------
(***************************************************************************)
(* The bot never buys twice, for every value of the constants of EntryFlow:*)
(* EntryInv is inductive beside IInv of EntryFlowProofs, and EnteredOnce   *)
(* is one of its conjuncts.                                                *)
(***************************************************************************)
EXTENDS EntryFlowProofs

USE BoundsAssumption

----------------------------------------------------------------------------
(* What the disturbances count only grows.                                  *)

Mild == (Undisturbed' => Undisturbed) /\ (bud.alien => bud'.alien)

LEMMA FaultMild ==
  ASSUME IInv, bud' = bud \/ Fault
  PROVE  Mild
<1>1. bud \in Budget
  BY DEF IInv, TypeOK
<1> QED
  BY <1>1 DEF Mild, Undisturbed, Fault, Budget

LEMMA NextMild == IInv /\ [Next]_vars => Mild
<1> SUFFICES ASSUME IInv, [Next]_vars PROVE Mild
  OBVIOUS
<1>1. bud \in Budget
  BY DEF IInv, TypeOK
<1>2. CASE Exchange
  <2>1. CASE \E i \in Ids : Land(i) \/ Match(i) \/ Lose(i)
    BY <1>1, <2>1 DEF Land, Match, Lose, Mild, Undisturbed, Budget
  <2>2. CASE StopFires \/ ManualTrade
    BY <1>1, <2>2 DEF StopFires, ManualTrade, Mild, Undisturbed, Budget
  <2> QED
    BY <1>2, <2>1, <2>2 DEF Exchange
<1>3. CASE Signal
  BY <1>3, FaultMild DEF Signal, Arm, ArmSignal, ArmPending, CancelWait, Trigger
<1>4. CASE Entry
  <2>1. CASE \/ CheckFails \/ CheckRefuses \/ CheckPasses \/ Submit \/ Answered \/ AnswerLost
             \/ NotSent \/ Refused("REJECTED") \/ Refused("NOT_PLACED")
    BY <2>1, FaultMild DEF CheckFails, CheckRefuses, CheckPasses, Submit, Answered, AnswerLost,
                           NotSent, Refused
  <2>2. CASE \/ EntryFound \/ EntryNotFound \/ EntryUnresolved \/ NotFoundNext \/ NotFoundFails
             \/ ByPosition \/ WaitFinal \/ WaitFails \/ ConfirmFill \/ ConfirmFails
    BY <2>2, FaultMild DEF EntryFound, EntryNotFound, EntryUnresolved, Lookup, NotFoundNext,
                           NotFoundFails, Raise, ByPosition, WaitFinal, WaitFails, ConfirmFill,
                           ConfirmFails
  <2> QED
    BY <1>4, <2>1, <2>2 DEF Entry
<1>5. CASE Guard
  BY <1>5, FaultMild DEF Guard, Protect, StopPlaced, StopRefused, CloseOrder, CloseSeen,
                         CloseFails, Finalize
<1>6. CASE Recovery
  <2>1. CASE QueryFails
    BY <1>1, <2>1 DEF QueryFails, Mild, Undisturbed, Budget
  <2>2. CASE \/ Query \/ ResolveMiss \/ StaleFound \/ StaleNotFound \/ StaleUnresolved
             \/ StalePending \/ Orphan \/ AdoptNew \/ AdoptRecovery \/ AdoptGuard
    BY <2>2, FaultMild DEF Query, ResolveMiss, StaleFound, StaleNotFound, StaleUnresolved, Lookup,
                           StalePending, Orphan, Step7, AdoptNew, AdoptRecovery, AdoptGuard
  <2>3. CASE \/ DirectionMismatch \/ ResumeClose \/ ProtectAgain \/ StopInPlace
             \/ ClosedOffline \/ NothingHeld \/ OrphanOrders \/ SweepNext \/ SweepResolve \/ Finish
    BY <2>3, FaultMild DEF DirectionMismatch, ResumeClose, ProtectAgain, StopInPlace, SameWay,
                           Step7, ClosedOffline, NothingHeld, OrphanOrders, SweepNext,
                           SweepResolve, Lookup, Finish
  <2> QED
    BY <1>6, <2>1, <2>2, <2>3 DEF Recovery
<1>7. CASE Events \/ Reconcile \/ Restart
  BY <1>7, FaultMild DEF Events, BarExit, NoticeFlat, UserEvent, Reconcile, Restart
<1>8. CASE Crash
  BY <1>1, <1>8 DEF Crash, Mild, Undisturbed, Budget
<1>9. CASE UNCHANGED vars
  BY <1>9, FaultMild DEF vars
<1> QED
  BY <1>2, <1>3, <1>4, <1>5, <1>6, <1>7, <1>8, <1>9 DEF Next

----------------------------------------------------------------------------
(* A trade knows its entry price from the fill on.                          *)

Early == {"IDLE", "SIGNAL_DETECTED", "ENTRY_PENDING"}
Plain(r) == (r.st \in Early => ~r.filled) /\ (r.st \in Holding => r.filled)
PcKnown == /\ pc \in {"arm1", "arm2", "check", "submit"} => ~db[cur].filled
           /\ pc \in GuardPc => db[cur].filled

LEMMA FillsParts == FillsKnown <=> PcKnown /\ \A t \in Trades : Plain(db[t])
  BY DEF FillsKnown, PcKnown, Plain, Early

LEMMA FillsPartsNext == PcKnown' /\ (\A t \in Trades : Plain(db'[t])) => FillsKnown'
  BY DEF FillsKnown, PcKnown, Plain, Early

\* A write to the trade in memory, and where the handler goes after it.
LEMMA FillsWrite ==
  ASSUME IInv, FillsKnown, cur /= 0, NEW r, Plain(r), db' = [db EXCEPT ![cur] = r],
         pc' \in {"arm1", "arm2", "check", "submit"} => cur' = cur /\ ~r.filled,
         pc' \in GuardPc => cur' = cur /\ r.filled
  PROVE  FillsKnown'
<1>1. cur \in Trades
  BY CurTyped
<1>2. db'[cur] = r /\ \A t \in Trades : t /= cur => db'[t] = db[t]
  BY <1>1 DEF IInv, TypeOK
<1>3. \A t \in Trades : Plain(db'[t])
  BY <1>2, FillsParts
<1>4. PcKnown'
  BY <1>1, <1>2 DEF PcKnown
<1> QED
  BY <1>3, <1>4, FillsPartsNext

LEMMA FillsState ==
  ASSUME IInv, FillsKnown, cur /= 0, NEW s \in TradeState, db' = WithState(s),
         s \in Early => ~db[cur].filled, s \in Holding => db[cur].filled,
         pc' \in {"arm1", "arm2", "check", "submit"} => cur' = cur /\ ~db[cur].filled,
         pc' \in GuardPc => cur' = cur /\ db[cur].filled
  PROVE  FillsKnown'
<1> DEFINE r == [db[cur] EXCEPT !.st = s]
<1>1. db[cur] \in TradeRecord
  BY CurTyped
<1>2. r.st = s /\ r.filled = db[cur].filled
  BY <1>1 DEF TradeRecord
<1>3. Plain(r)
  BY <1>2 DEF Plain
<1>4. db' = [db EXCEPT ![cur] = r]
  BY DEF WithState
<1> HIDE DEF r
<1> QED
  BY <1>2, <1>3, <1>4, FillsWrite

LEMMA FillsReturn ==
  ASSUME IInv, FillsKnown, cur /= 0, NEW s \in TradeState, Return(WithState(s)),
         s \notin Early \union Holding
  PROVE  FillsKnown'
<1>1. pc' \in {"idle", "r10b", "r8", "sweep"}
  BY DEF Return, IInv, TypeOK, Frame
<1> QED
  BY <1>1, FillsState DEF Return, GuardPc

LEMMA FillsSame ==
  ASSUME IInv, FillsKnown, db' = db,
         pc' \in {"arm1", "arm2", "check", "submit"} => cur' = cur /\ ~db[cur].filled,
         pc' \in GuardPc => cur' = cur /\ db[cur].filled
  PROVE  FillsKnown'
  BY FillsParts, FillsPartsNext DEF PcKnown

LEMMA FillsReturnSame ==
  ASSUME IInv, FillsKnown, Return(db)
  PROVE  FillsKnown'
<1>1. pc' \in {"idle", "r10b", "r8", "sweep"}
  BY DEF Return, IInv, TypeOK, Frame
<1> QED
  BY <1>1, FillsSame DEF Return, GuardPc

LEMMA FillsNew ==
  ASSUME IInv, FillsKnown, NEW n \in Trades, NEW r, r.st = "IDLE", ~r.filled,
         db' = [db EXCEPT ![n] = r], cur' = n, pc' \notin GuardPc
  PROVE  FillsKnown'
<1>1. db'[n] = r /\ \A t \in Trades : t /= n => db'[t] = db[t]
  BY DEF IInv, TypeOK
<1>2. Plain(r)
  BY DEF Plain, Holding
<1>3. \A t \in Trades : Plain(db'[t])
  BY <1>1, <1>2, FillsParts
<1>4. PcKnown'
  BY <1>1 DEF PcKnown
<1> QED
  BY <1>3, <1>4, FillsPartsNext

LEMMA FillsRaise ==
  ASSUME IInv, FillsKnown, Raise
  PROVE  FillsKnown'
<1>1. db' = db /\ pc' \in {"down", "idle"}
  BY DEF Raise, ProcessDown, GoTo
<1> QED
  BY <1>1, FillsSame DEF GuardPc

LEMMA FillsSignal == IInv /\ FillsKnown /\ Signal => FillsKnown'
<1> SUFFICES ASSUME IInv, FillsKnown, Signal PROVE FillsKnown'
  OBVIOUS
<1>1. CASE Arm
  <2>1. PICK n \in Trades : Fresh(n) /\ cur' = n /\ db' = [db EXCEPT ![n].st = "IDLE"]
    BY <1>1 DEF Arm, Fresh
  <2> DEFINE r == [db[n] EXCEPT !.st = "IDLE"]
  <2>2. db[n] = NoTrade
    BY <2>1 DEF IInv, RecordsInOrder, Fresh
  <2>3. r.st = "IDLE" /\ ~r.filled
    BY <2>2 DEF NoTrade
  <2>4. db' = [db EXCEPT ![n] = r] /\ pc' \notin GuardPc
    BY <1>1, <2>1 DEF Arm, GuardPc
  <2> HIDE DEF r
  <2> QED
    BY <2>1, <2>3, <2>4, FillsNew
<1>2. CASE ArmSignal \/ ArmPending
  <2>1. cur /= 0 /\ ~db[cur].filled
    BY <1>2 DEF ArmSignal, ArmPending, IInv, FrameOK, HasTrade, FillsKnown
  <2>2. "SIGNAL_DETECTED" \notin Holding /\ "ENTRY_PENDING" \notin Holding
    BY DEF Holding
  <2> QED
    BY <1>2, <2>1, <2>2, FillsState, StateNames DEF ArmSignal, ArmPending, GoTo, GuardPc
<1>3. CASE CancelWait
  BY <1>3, FillsReturn, StateNames DEF CancelWait, Waiting, Early, Holding
<1>4. CASE Trigger
  <2>1. cur \in Trades /\ ~db[cur].filled
    BY <1>4, CurTyped DEF Trigger, Waiting, FillsKnown
  <2> QED
    BY <1>4, <2>1, FillsSame DEF Trigger, GoTo, GuardPc
<1> QED
  BY <1>1, <1>2, <1>3, <1>4 DEF Signal

LEMMA FillsMark ==
  ASSUME IInv, FillsKnown, cur /= 0, MarkFilled
  PROVE  FillsKnown'
<1> DEFINE r == [db[cur] EXCEPT !.st = "ENTRY_FILLED", !.filled = TRUE]
<1>1. cur \in Trades /\ db[cur] \in TradeRecord
  BY CurTyped
<1>2. r.st = "ENTRY_FILLED" /\ r.filled
  BY <1>1 DEF TradeRecord
<1>3. db' = [db EXCEPT ![cur] = r] /\ cur' = cur /\ pc' = "guard0"
  BY <1>1 DEF MarkFilled, GoTo, IInv, TypeOK
<1>4. Plain(r)
  BY <1>2 DEF Plain, Early
<1> HIDE DEF r
<1> QED
  BY <1>2, <1>3, <1>4, FillsWrite

LEMMA FillsAdopt ==
  ASSUME IInv, FillsKnown, cur /= 0, AdoptPosition
  PROVE  FillsKnown'
  BY FillsMark, FillsReturn, StateNames DEF AdoptPosition, Early, Holding

LEMMA FillsEntry == IInv /\ FillsKnown /\ Entry => FillsKnown'
<1> SUFFICES ASSUME IInv, FillsKnown, Entry PROVE FillsKnown'
  OBVIOUS
<1>1. CASE \/ CheckFails \/ Answered \/ AnswerLost \/ NotSent \/ EntryFound \/ EntryNotFound
           \/ EntryUnresolved \/ WaitFinal \/ WaitFails
  <2>1. db' = db /\ pc' \in {"idle", "wait", "resolve", "notfound", "bypos", "fillpos"}
    BY <1>1 DEF CheckFails, Answered, AnswerLost, NotSent, EntryFound, EntryNotFound,
                EntryUnresolved, WaitFinal, WaitFails, Lookup, GoTo
  <2> QED
    BY <2>1, FillsSame DEF GuardPc
<1>2. CASE Submit
  BY <1>2, FillsSame DEF Submit, GoTo, GuardPc
<1>3. CASE CheckRefuses \/ Refused("REJECTED") \/ Refused("NOT_PLACED")
  <2>1. cur /= 0 /\ Return(WithState("CLOSED"))
    BY <1>3 DEF CheckRefuses, Refused, IInv, FrameOK, HasTrade, EntryPc
  <2> QED
    BY <2>1, FillsReturn, StateNames DEF Early, Holding
<1>4. CASE CheckPasses
  <2> DEFINE r == [db[cur] EXCEPT !.att = db[cur].att + 1]
  <2>1. cur \in Trades /\ cur /= 0 /\ db[cur] \in TradeRecord /\ ~db[cur].filled
    BY <1>4, CurTyped DEF CheckPasses, IInv, FrameOK, HasTrade, EntryPc, FillsKnown
  <2>2. r.st = db[cur].st /\ r.filled = db[cur].filled
    BY <2>1 DEF TradeRecord
  <2>3. Plain(r)
    BY <2>1, <2>2, FillsParts DEF Plain
  <2>4. db' = [db EXCEPT ![cur] = r] /\ cur' = cur /\ pc' = "submit"
    BY <1>4 DEF CheckPasses, GoTo
  <2> HIDE DEF r
  <2> QED
    BY <2>1, <2>2, <2>3, <2>4, FillsWrite DEF GuardPc
<1>5. CASE NotFoundNext
  <2>1. cur /= 0
    BY <1>5 DEF NotFoundNext, IInv, FrameOK, HasTrade, EntryPc
  <2> QED
    BY <1>5, <2>1, FillsAdopt, FillsReturn, FillsReturnSame, StateNames
       DEF NotFoundNext, Early, Holding
<1>6. CASE ByPosition \/ ConfirmFill
  <2>1. cur /= 0
    BY <1>6 DEF ByPosition, ConfirmFill, IInv, FrameOK, HasTrade
  <2>2. \/ AdoptPosition \/ MarkFilled
        \/ Return(WithState("RECOVERY_REQUIRED")) \/ Return(WithState("CLOSED"))
    BY <1>6 DEF ByPosition, ConfirmFill
  <2> QED
    BY <2>1, <2>2, FillsAdopt, FillsMark, FillsReturn, StateNames DEF Early, Holding
<1>7. CASE NotFoundFails \/ ConfirmFails
  BY <1>7, FillsRaise DEF NotFoundFails, ConfirmFails
<1> QED
  BY <1>1, <1>2, <1>3, <1>4, <1>5, <1>6, <1>7 DEF Entry

LEMMA FillsClose ==
  ASSUME IInv, FillsKnown, cur /= 0, db[cur].filled, NEW where, BeginClose(where),
         where \in {"close", "final"}
  PROVE  FillsKnown'
<1> DEFINE r == [db[cur] EXCEPT !.st = "CLOSING", !.cr = TRUE]
<1>1. cur \in Trades /\ db[cur] \in TradeRecord
  BY CurTyped
<1>2. r.st = "CLOSING" /\ r.filled = db[cur].filled
  BY <1>1 DEF TradeRecord
<1>3. db' = [db EXCEPT ![cur] = r] /\ cur' = cur /\ pc' = where
  BY <1>1 DEF BeginClose, GoTo, IInv, TypeOK
<1>4. Plain(r)
  BY <1>2 DEF Plain, Early
<1> HIDE DEF r
<1> QED
  BY <1>2, <1>3, <1>4, FillsWrite

LEMMA FillsGuard == IInv /\ FillsKnown /\ Guard => FillsKnown'
<1> SUFFICES ASSUME IInv, FillsKnown, Guard PROVE FillsKnown'
  OBVIOUS
<1>1. cur /= 0 /\ db[cur].filled /\ pc \in GuardPc
  BY DEF Guard, Protect, StopPlaced, StopRefused, CloseOrder, CloseSeen, CloseFails, Finalize,
         IInv, FrameOK, HasTrade, GuardPc, FillsKnown
<1>2. CASE Protect
  BY <1>1, <1>2, FillsState, StateNames DEF Protect, GoTo, Early, Holding
<1>3. CASE StopPlaced
  <2> DEFINE r == [db[cur] EXCEPT !.st = "PROTECTED", !.sl = cur]
  <2>1. cur \in Trades /\ db[cur] \in TradeRecord
    BY <1>1, CurTyped
  <2>2. r.st = "PROTECTED" /\ r.filled = db[cur].filled
    BY <2>1 DEF TradeRecord
  <2>3. [db EXCEPT ![cur].st = "PROTECTED", ![cur].sl = cur] = [db EXCEPT ![cur] = r]
    BY <2>1 DEF IInv, TypeOK
  <2>4. db' = [db EXCEPT ![cur] = r] /\ pc' \in {"idle", "r10b", "r8", "sweep"}
    BY <1>3, <2>3 DEF StopPlaced, Return, IInv, TypeOK, Frame
  <2>5. Plain(r)
    BY <1>1, <2>2 DEF Plain, Early
  <2> HIDE DEF r
  <2> QED
    BY <1>1, <2>4, <2>5, FillsWrite DEF GuardPc
<1>4. CASE StopRefused
  BY <1>1, <1>4, FillsClose DEF StopRefused
<1>5. CASE CloseOrder \/ CloseSeen
  BY <1>1, <1>5, FillsSame DEF CloseOrder, CloseSeen, GoTo
<1>6. CASE CloseFails \/ Finalize
  BY <1>1, <1>6, FillsReturn, StateNames DEF CloseFails, Finalize, Early, Holding
<1> QED
  BY <1>2, <1>3, <1>4, <1>5, <1>6 DEF Guard

LEMMA FillsRecovery == IInv /\ FillsKnown /\ Recovery => FillsKnown'
<1> SUFFICES ASSUME IInv, FillsKnown, Recovery PROVE FillsKnown'
  OBVIOUS
<1>1. CASE Query
  <2>1. db' = db /\ pc' \in {"r7", "resolve", "r10b"}
    BY <1>1, QuerySame DEF IInv, Query
  <2> QED
    BY <2>1, FillsSame DEF GuardPc
<1>2. CASE \/ QueryFails \/ ResolveMiss \/ StaleUnresolved \/ NothingHeld
           \/ OrphanOrders \/ SweepNext \/ SweepResolve \/ Finish
  <2>1. db' = db /\ pc' \in {"idle", "resolve", "r10b", "r8", "sweep"}
    BY <1>2 DEF QueryFails, ResolveMiss, StaleUnresolved, NothingHeld, OrphanOrders, SweepNext,
                SweepResolve, SweepDone, Finish, Lookup, Step7, GoTo
  <2> QED
    BY <2>1, FillsSame DEF GuardPc
<1>3. CASE StaleFound
  <2>1. cur /= 0
    BY <1>3 DEF StaleFound, Lookup, IInv, FrameOK, HasTrade
  <2>2. CASE db' = db /\ GoTo("wait")
    BY <2>2, FillsSame DEF GoTo, GuardPc
  <2>3. CASE db' = WithState("RECOVERY_REQUIRED") /\ GoTo("wait")
    BY <2>1, <2>3, FillsState, StateNames DEF GoTo, GuardPc, Early, Holding
  <2>4. CASE Return(WithState("CLOSED"))
    BY <2>1, <2>4, FillsReturn, StateNames DEF Early, Holding
  <2>5. CASE Return(db)
    BY <2>5, FillsReturnSame
  <2> QED
    BY <1>3, <2>2, <2>3, <2>4, <2>5 DEF StaleFound
<1>4. CASE StaleNotFound
  <2>1. cur /= 0
    BY <1>4 DEF StaleNotFound, Lookup, IInv, FrameOK, HasTrade
  <2> QED
    BY <1>4, <2>1, FillsReturn, FillsReturnSame, StateNames DEF StaleNotFound, Early, Holding
<1>5. CASE StalePending \/ Orphan
  <2>1. pc' \in {"r7", "adopt"} /\ (db' = db \/ (cur /= 0 /\ db' = WithState("CLOSED")))
    BY <1>5 DEF StalePending, Orphan, Step7
  <2> QED
    BY <2>1, FillsSame, FillsState, StateNames DEF GuardPc, Early, Holding
<1>6. CASE AdoptNew
  <2>1. PICK n \in Trades :
          /\ Fresh(n) /\ cur' = n
          /\ db' = [db EXCEPT ![n].st = "IDLE", ![n].adopted = TRUE, ![n].dir = Sgn(h.qty)]
    BY <1>6 DEF AdoptNew
  <2> DEFINE r == [db[n] EXCEPT !.st = "IDLE", !.adopted = TRUE, !.dir = Sgn(h.qty)]
  <2>2. db[n] = NoTrade
    BY <2>1 DEF IInv, RecordsInOrder, Fresh
  <2>3. r.st = "IDLE" /\ ~r.filled
    BY <2>2 DEF NoTrade
  <2>4. db' = [db EXCEPT ![n] = r] /\ pc' \notin GuardPc
    BY <1>6, <2>1 DEF AdoptNew, GuardPc, IInv, TypeOK
  <2> HIDE DEF r
  <2> QED
    BY <2>1, <2>3, <2>4, FillsNew
<1>7. CASE AdoptRecovery
  <2>1. cur /= 0 /\ db' = WithState("RECOVERY_REQUIRED") /\ pc' = "adopt2"
    BY <1>7 DEF AdoptRecovery, GoTo, IInv, FrameOK, HasTrade
  <2> QED
    BY <2>1, FillsState, StateNames DEF GuardPc, Early, Holding
<1>8. CASE AdoptGuard
  <2>1. cur \in Trades /\ cur /= 0 /\ db[cur] \in TradeRecord /\ cur' = cur
        /\ pc' \in {"close", "r8", "guard"}
    BY <1>8, CurTyped DEF AdoptGuard, IInv, FrameOK, HasTrade
  <2>2. ASSUME NEW r, r.st \notin Early, r.filled = TRUE, db' = [db EXCEPT ![cur] = r]
        PROVE  FillsKnown'
    <3>1. Plain(r)
      BY <2>2 DEF Plain
    <3> QED
      BY <2>1, <2>2, <3>1, FillsWrite
  <2>3. CASE db' = [[db EXCEPT ![cur].filled = TRUE] EXCEPT ![cur].st = "CLOSING", ![cur].cr = TRUE]
    <3> DEFINE r == [db[cur] EXCEPT !.filled = TRUE, !.st = "CLOSING", !.cr = TRUE]
    <3>1. r.st = "CLOSING" /\ r.filled = TRUE
      BY <2>1 DEF TradeRecord
    <3>2. db' = [db EXCEPT ![cur] = r]
      BY <2>1, <2>3 DEF IInv, TypeOK
    <3> HIDE DEF r
    <3> QED
      BY <2>2, <3>1, <3>2 DEF Early
  <2>4. ASSUME NEW s \in h.algos,
               db' = [[db EXCEPT ![cur].filled = TRUE] EXCEPT ![cur].st = "PROTECTED", ![cur].sl = s]
        PROVE  FillsKnown'
    <3> DEFINE r == [db[cur] EXCEPT !.filled = TRUE, !.st = "PROTECTED", !.sl = s]
    <3>1. r.st = "PROTECTED" /\ r.filled = TRUE
      BY <2>1 DEF TradeRecord
    <3>2. db' = [db EXCEPT ![cur] = r]
      BY <2>1, <2>4 DEF IInv, TypeOK
    <3> HIDE DEF r
    <3> QED
      BY <2>2, <3>1, <3>2 DEF Early
  <2>5. CASE db' = [[db EXCEPT ![cur].filled = TRUE] EXCEPT ![cur].st = "PROTECTING"]
    <3> DEFINE r == [db[cur] EXCEPT !.filled = TRUE, !.st = "PROTECTING"]
    <3>1. r.st = "PROTECTING" /\ r.filled = TRUE
      BY <2>1 DEF TradeRecord
    <3>2. db' = [db EXCEPT ![cur] = r]
      BY <2>1, <2>5 DEF IInv, TypeOK
    <3> HIDE DEF r
    <3> QED
      BY <2>2, <3>1, <3>2 DEF Early
  <2> QED
    BY <1>8, <2>3, <2>4, <2>5 DEF AdoptGuard
<1>9. CASE DirectionMismatch \/ ProtectAgain
  <2>1. cur /= 0 /\ db[cur].filled /\ cur' = cur
        /\ (db' = WithState("ERROR") \/ db' = WithState("PROTECTING")) /\ pc' \in {"r8", "guard"}
    BY <1>9 DEF DirectionMismatch, ProtectAgain, SameWay, Step7, Owned, GoTo
  <2> QED
    BY <2>1, FillsState, StateNames DEF Early, Holding
<1>10. CASE ResumeClose \/ ClosedOffline
  BY <1>10, FillsClose DEF ResumeClose, ClosedOffline, SameWay, Step7, Owned
<1>11. CASE StopInPlace
  <2>1. cur \in Trades /\ db[cur] \in TradeRecord /\ cur /= 0 /\ db[cur].filled
    BY <1>11, CurTyped DEF StopInPlace, SameWay, Step7, Owned
  <2> DEFINE s == IF db[cur].st \in Holding THEN db[cur].st ELSE "PROTECTED"
             r == [db[cur] EXCEPT !.st = s, !.sl = cur]
  <2>2. r.filled = db[cur].filled /\ r.st = s /\ s \notin Early
    BY <2>1 DEF TradeRecord, Early, Holding
  <2>3. [db EXCEPT ![cur].st = IF @ \in Holding THEN @ ELSE "PROTECTED", ![cur].sl = cur]
          = [db EXCEPT ![cur] = r]
    BY <2>1 DEF IInv, TypeOK
  <2>4. db' = [db EXCEPT ![cur] = r] /\ pc' \in {"idle", "r10b", "r8", "sweep"}
    BY <1>11, <2>3 DEF StopInPlace, Return, IInv, TypeOK, Frame
  <2>5. Plain(r)
    BY <2>1, <2>2 DEF Plain
  <2> HIDE DEF r
  <2> QED
    BY <2>1, <2>4, <2>5, FillsWrite DEF GuardPc
<1> QED
  BY <1>1, <1>2, <1>3, <1>4, <1>5, <1>6, <1>7, <1>8, <1>9, <1>10, <1>11 DEF Recovery

LEMMA FillsNext == IInv /\ FillsKnown /\ [Next]_vars => FillsKnown'
<1> SUFFICES ASSUME IInv, FillsKnown, [Next]_vars PROVE FillsKnown'
  OBVIOUS
<1>1. CASE Exchange \/ UNCHANGED vars \/ \E i \in Ids : UserEvent(i)
  <2>1. db' = db /\ cur' = cur /\ pc' = pc
    BY <1>1 DEF Exchange, Land, Match, Lose, Buy, StopFires, ManualTrade, UserEvent, memory, vars
  <2> QED
    BY <2>1, FillsSame DEF FillsKnown
<1>2. CASE BarExit \/ NoticeFlat
  <2>1. cur /= 0 /\ db[cur].filled
    BY <1>2, CurTyped DEF BarExit, NoticeFlat, FillsKnown
  <2> QED
    BY <1>2, <2>1, FillsClose DEF BarExit, NoticeFlat
<1>3. CASE Reconcile \/ Crash \/ Restart
  <2>1. db' = db /\ pc' \in {"rq", "down"}
    BY <1>3 DEF Reconcile, Crash, ProcessDown, Restart, GoTo
  <2> QED
    BY <2>1, FillsSame DEF GuardPc
<1> QED
  BY <1>1, <1>2, <1>3, FillsSignal, FillsEntry, FillsGuard, FillsRecovery DEF Next, Events

----------------------------------------------------------------------------
(* Steps that send nothing and are not an execution.                        *)

\* Records are kept or grow: an order number once drawn stays drawn, and no
\* record is open and without an entry price that was not so before, save a
\* new one that has sent nothing.
LEMMA RecordsGrow ==
  ASSUME IInv, StepKind
  PROVE  \A t \in Trades :
           /\ db[t].att <= db'[t].att
           /\ Active(t)' /\ ~db'[t].filled => \/ Active(t) /\ ~db[t].filled
                                              \/ db[t].att = 0
<1> SUFFICES ASSUME NEW t \in Trades
             PROVE  /\ db[t].att <= db'[t].att
                    /\ Active(t)' /\ ~db'[t].filled => \/ Active(t) /\ ~db[t].filled
                                                       \/ db[t].att = 0
  OBVIOUS
<1>1. db[t] \in TradeRecord
  BY DEF IInv, TypeOK
<1>2. db[t].att \in 0..MaxSeq
  BY <1>1 DEF TradeRecord
<1>3. CASE db' = db
  BY <1>2, <1>3 DEF Active
<1>4. CASE \E r \in TradeRecord : Write(r)
  <2>1. PICK r \in TradeRecord : Write(r)
    BY <1>4
  <2>2. db'[cur] = r /\ \A u \in Trades : u /= cur => db'[u] = db[u]
    BY <2>1 DEF Write, IInv, TypeOK
  <2>3. Active(cur)
    BY <2>1 DEF Write, IInv, CurActive, Trades
  <2>4. r.att = db[cur].att \/ r.att = db[cur].att + 1
    BY <2>1 DEF Write
  <2>5. db[cur].filled => r.filled
    BY <2>1 DEF Write
  <2>6. CASE t = cur
    <3>1. db[t].att <= db'[t].att
      BY <1>2, <2>2, <2>4, <2>6
    <3>2. ~db'[t].filled => Active(t) /\ ~db[t].filled
      BY <2>2, <2>3, <2>5, <2>6
    <3> QED
      BY <3>1, <3>2
  <2>7. CASE t /= cur
    BY <1>2, <2>2, <2>7 DEF Active
  <2> QED
    BY <2>6, <2>7
<1>5. CASE \E n \in Trades, r \in TradeRecord : NewRecord(n, r)
  <2>1. PICK n \in Trades, r \in TradeRecord : NewRecord(n, r)
    BY <1>5
  <2>2. db'[n] = r /\ \A u \in Trades : u /= n => db'[u] = db[u]
    BY <2>1 DEF NewRecord, IInv, TypeOK
  <2>3. CASE t = n
    <3>1. db[t] = NoTrade
      BY <2>1, <2>3 DEF NewRecord, Fresh, IInv, RecordsInOrder
    <3>2. db[t].att = 0 /\ db'[t].att \in 0..MaxSeq
      BY <2>2, <2>3, <3>1 DEF NoTrade, TradeRecord
    <3> QED
      BY <3>2
  <2>4. CASE t /= n
    BY <1>2, <2>2, <2>4 DEF Active
  <2> QED
    BY <2>3, <2>4
<1> QED
  BY <1>3, <1>4, <1>5 DEF StepKind, Same, GoesDown, GoesUp

Inv2 == IInv /\ EntryInv

LEMMA OrdersKept ==
  ASSUME Inv2, IInv', StepKind, OrdersPlain, ex' = ex
  PROVE  OrdersPlain'
<1> SUFFICES ASSUME NEW i \in Ids, ex[i].st /= "none" PROVE i[2] <= db'[i[1]].att
  BY DEF OrdersPlain
<1>1. i[1] \in Trades /\ i[2] \in Int
  BY DEF Ids
<1>2. db[i[1]].att \in Int /\ db'[i[1]].att \in Int
  BY <1>1 DEF Inv2, IInv, TypeOK, TradeRecord
<1>3. i[2] <= db[i[1]].att
  BY DEF OrdersPlain
<1>4. db[i[1]].att <= db'[i[1]].att
  BY <1>1, RecordsGrow DEF Inv2
<1> QED
  BY <1>1, <1>2, <1>3, <1>4

\* What the open trade without an entry price bought is as it was.
LEMMA HeldKept ==
  ASSUME Inv2, StepKind, OrdersPlain, BoughtHeld, pos' = pos,
         \A i \in Ids : ex'[i].q = ex[i].q
  PROVE  BoughtHeld'
<1> SUFFICES ASSUME NEW t \in Trades, Active(t)', ~db'[t].filled, pos = 0, NEW n \in 1..MaxSeq
             PROVE  ex[<<t, n>>].q = 0
  BY DEF BoughtHeld, Ids
<1>1. CASE Active(t) /\ ~db[t].filled
  BY <1>1 DEF BoughtHeld
<1>2. CASE db[t].att = 0
  <2>1. <<t, n>> \in Ids /\ n > 0
    BY DEF Ids
  <2>2. ~(n <= db[t].att)
    BY <1>2, <2>1
  <2>3. ex[<<t, n>>].st = "none"
    BY <2>1, <2>2 DEF OrdersPlain
  <2> QED
    BY <2>1, <2>3 DEF OrdersPlain
<1> QED
  BY <1>1, <1>2, RecordsGrow DEF Inv2

LEMMA QuietStep ==
  ASSUME Inv2, IInv', StepKind, Mild, FillsKnown', ex' = ex, pos' = pos, pc' /= "submit",
         Undisturbed' => ~UnderWay
  PROVE  EntryInv'
<1>1. Undisturbed' => OrdersPlain'
  BY OrdersKept DEF Mild, Inv2, EntryInv
<1>2. Undisturbed' => UnderWayKnown' /\ SubmitFresh'
  BY DEF UnderWay, UnderWayKnown, SubmitFresh
<1>3. Undisturbed' /\ ~bud'.alien => BoughtHeld'
  BY HeldKept DEF Mild, Inv2, EntryInv
<1>4. EnteredOnce'
  <2>1. NoDoubleEntry'
    BY DEF Mild, Inv2, EntryInv, EnteredOnce, NoDoubleEntry
  <2>2. BoughtOnce'
    BY DEF Mild, Inv2, EntryInv, EnteredOnce, BoughtOnce
  <2> QED
    BY <2>1, <2>2 DEF EnteredOnce
<1> QED
  BY <1>1, <1>2, <1>3, <1>4 DEF EntryInv

\* A request is under way only while somebody waits for it or nobody could.
LEMMA NothingUnderWay ==
  ASSUME Inv2, Undisturbed, \/ pc \notin {"down", "rq", "sent", "resolve"}
                            \/ pc \in {"sent", "resolve"} /\ ex[h.id].st /= "flight"
  PROVE  ~UnderWay
  BY DEF UnderWay, Inv2, EntryInv, UnderWayKnown

\* A step away from the exchange, taken where no request is under way.
LEMMA AsideStep ==
  ASSUME Inv2, IInv', StepKind, Mild, FillsKnown', ex' = ex, pos' = pos, pc' /= "submit",
         \/ pc \notin {"down", "rq", "sent", "resolve"}
         \/ pc \in {"sent", "resolve"} /\ ex[h.id].st /= "flight"
  PROVE  EntryInv'
  BY QuietStep, NothingUnderWay DEF Mild

----------------------------------------------------------------------------
(* The steps of the exchange and of the request.                            *)

\* All requests under way are one request.
LEMMA OneUnderWay ==
  ASSUME Inv2, UnderWayKnown, NEW i \in Ids, NEW j \in Ids,
         ex[i].st = "flight", ex[j].st = "flight"
  PROVE  i = j
<1>1. /\ i[1] \in Trades /\ j[1] \in Trades /\ Active(i[1]) /\ Active(j[1])
      /\ i[2] = db[i[1]].att /\ j[2] = db[j[1]].att
  BY DEF UnderWayKnown, Ids
<1>2. i[1] = j[1]
  BY <1>1 DEF Inv2, IInv, OneActive
<1>3. i = <<i[1], i[2]>> /\ j = <<j[1], j[2]>>
  BY DEF Ids
<1> QED
  BY <1>1, <1>2, <1>3

LEMMA LandStep ==
  ASSUME Inv2, IInv', FillsKnown', Mild, NEW i \in Ids, Land(i)
  PROVE  EntryInv'
<1> SUFFICES ASSUME Undisturbed'
             PROVE  /\ OrdersPlain' /\ UnderWayKnown' /\ SubmitFresh'
                    /\ (~bud'.alien => BoughtHeld' /\ BoughtOnce')
                    /\ NoDoubleEntry'
  BY DEF EntryInv, EnteredOnce, NoDoubleEntry, BoughtOnce
<1> DEFINE t == i[1]
           e == ex'[i]
<1>1. /\ OrdersPlain /\ UnderWayKnown /\ SubmitFresh /\ Undisturbed
      /\ (~bud.alien => BoughtHeld /\ BoughtOnce)
  BY DEF Mild, Inv2, EntryInv, EnteredOnce
<1>2. t \in Trades /\ ex[i].st = "flight" /\ pos = 0 /\ Active(t) /\ ~db[t].filled
      /\ ex[i].q = 0 /\ i[2] <= db[t].att /\ i[2] \in 1..MaxSeq /\ i = <<t, i[2]>>
  BY <1>1 DEF Land, UnderWayKnown, OrdersPlain, Ids
<1>3. bud.slow \in Nat
  BY DEF Inv2, IInv, TypeOK, Budget
<1>4. UNCHANGED bud
  <2>1. ~(bud'.slow = bud.slow + 1)
    BY <1>1, <1>3 DEF Undisturbed
  <2>2. bud' = [bud EXCEPT !.slow = @ + 1] => bud'.slow = bud.slow + 1
    BY DEF Inv2, IInv, TypeOK, Budget
  <2> QED
    BY <2>1, <2>2 DEF Land
<1>5. \E f \in OrderState : f.st \in {"FILLED", "EXPIRED"} /\ f.q \in 0..Qty /\ Buy(i, f)
  <2>1. ~(bud' = [bud EXCEPT !.slow = @ + 1])
    <3>1. bud' = [bud EXCEPT !.slow = @ + 1] => bud'.slow = bud.slow + 1
      BY DEF Inv2, IInv, TypeOK, Budget
    <3> QED
      BY <1>3, <1>4, <3>1
  <2>2. CASE Buy(i, [st |-> "FILLED", q |-> Qty])
    <3> DEFINE f == [st |-> "FILLED", q |-> Qty]
    <3>1. f \in OrderState /\ f.st = "FILLED" /\ f.q \in 0..Qty
      BY DEF OrderState, Final
    <3> QED
      BY <2>2, <3>1
  <2>3. ASSUME NEW q \in 0..(Qty - 1), Buy(i, [st |-> "EXPIRED", q |-> q])
        PROVE  \E f \in OrderState : f.st \in {"FILLED", "EXPIRED"} /\ f.q \in 0..Qty /\ Buy(i, f)
    <3> DEFINE f == [st |-> "EXPIRED", q |-> q]
    <3>1. f \in OrderState /\ f.st = "EXPIRED" /\ f.q \in 0..Qty
      BY DEF OrderState, Final
    <3> QED
      BY <2>3, <3>1
  <2> QED
    BY <2>1, <2>2, <2>3 DEF Land
<1>6. /\ e.st \in {"FILLED", "EXPIRED"} /\ e.q \in 0..Qty /\ pos' = e.q
      /\ \A j \in Ids : j /= i => ex'[j] = ex[j]
      /\ UNCHANGED <<stops, db, row, memory>>
  <2>1. PICK f \in OrderState : f.st \in {"FILLED", "EXPIRED"} /\ f.q \in 0..Qty /\ Buy(i, f)
    BY <1>5
  <2>2. e = f /\ \A j \in Ids : j /= i => ex'[j] = ex[j]
    BY <2>1 DEF Buy, Inv2, IInv, TypeOK
  <2>3. pos' = f.q
    BY <1>2, <2>1 DEF Buy
  <2> QED
    BY <2>1, <2>2, <2>3 DEF Buy
<1>7. \A j \in Ids : ex'[j].st /= "flight"
  BY <1>1, <1>2, <1>6, OneUnderWay
<1>8. OrdersPlain'
  <2> SUFFICES ASSUME NEW j \in Ids
               PROVE  /\ ex'[j].st \notin Resting \union {"CANCELED"}
                      /\ ex'[j].st \in {"none", "flight"} => ex'[j].q = 0
                      /\ ex'[j].st /= "none" => j[2] <= db[j[1]].att
    BY <1>6 DEF OrdersPlain
  <2>1. CASE j = i
    BY <1>2, <1>6, <2>1 DEF Resting
  <2>2. CASE j /= i
    BY <1>1, <1>6, <2>2 DEF OrdersPlain
  <2> QED
    BY <2>1, <2>2
<1>9. UnderWayKnown'
  BY <1>7 DEF UnderWayKnown
<1>10. SubmitFresh'
  <2>1. pc /= "submit"
    BY <1>1, <1>2 DEF UnderWayKnown
  <2> QED
    BY <1>6, <2>1 DEF SubmitFresh, memory
<1>11. ASSUME ~bud'.alien PROVE BoughtHeld' /\ BoughtOnce'
  <2>1. BoughtHeld /\ BoughtOnce
    BY <1>1, <1>4, <1>11
  <2>2. \A n \in 1..MaxSeq : ex[<<t, n>>].q = 0
    BY <1>2, <2>1 DEF BoughtHeld
  <2>3. BoughtHeld'
    <3> SUFFICES ASSUME NEW u \in Trades, Active(u), ~db[u].filled, pos' = 0, NEW n \in 1..MaxSeq
                 PROVE  ex'[<<u, n>>].q = 0
      BY <1>6 DEF BoughtHeld, Active
    <3>1. u = t
      BY <1>2 DEF Inv2, IInv, OneActive
    <3>2. <<u, n>> \in Ids
      BY DEF Ids
    <3>3. CASE <<u, n>> = i
      BY <1>6, <3>3
    <3>4. CASE <<u, n>> /= i
      BY <1>6, <2>2, <3>1, <3>2, <3>4
    <3> QED
      BY <3>3, <3>4
  <2>4. BoughtOnce'
    <3> SUFFICES ASSUME NEW u \in Trades, NEW m \in 1..MaxSeq, NEW n \in 1..MaxSeq, m /= n
                 PROVE  ex'[<<u, m>>].q = 0 \/ ex'[<<u, n>>].q = 0
      BY DEF BoughtOnce
    <3>1. <<u, m>> \in Ids /\ <<u, n>> \in Ids /\ <<u, m>> /= <<u, n>>
      BY DEF Ids
    <3>2. CASE u = t
      BY <1>6, <2>2, <3>1, <3>2
    <3>3. CASE u /= t
      <4>1. <<u, m>> /= i /\ <<u, n>> /= i
        BY <1>2, <3>3
      <4>2. ex'[<<u, m>>] = ex[<<u, m>>] /\ ex'[<<u, n>>] = ex[<<u, n>>]
        BY <1>6, <3>1, <4>1
      <4>3. ex[<<u, m>>].q = 0 \/ ex[<<u, n>>].q = 0
        BY <1>1, <1>4, <1>11, <2>1 DEF BoughtOnce
      <4> QED
        BY <4>2, <4>3
    <3> QED
      BY <3>2, <3>3
  <2> QED
    BY <2>3, <2>4
<1>12. NoDoubleEntry'
  BY <1>6 DEF NoDoubleEntry
<1> QED
  BY <1>8, <1>9, <1>10, <1>11, <1>12

\* Orders keep what was executed; the states of some that execute nothing may
\* change, and where a request may still be under way somebody knows of it.
LEMMA OrdersStep ==
  ASSUME Inv2, IInv', StepKind, Mild, FillsKnown', pos' = pos,
         \A i \in Ids : ex'[i].q = ex[i].q,
         Undisturbed /\ Undisturbed' => OrdersPlain' /\ UnderWayKnown' /\ SubmitFresh'
  PROVE  EntryInv'
<1>1. Undisturbed' => OrdersPlain' /\ UnderWayKnown' /\ SubmitFresh'
  BY DEF Mild
<1>2. Undisturbed' /\ ~bud'.alien => BoughtHeld'
  BY HeldKept DEF Mild, Inv2, EntryInv
<1>3. EnteredOnce'
  <2>1. NoDoubleEntry'
    BY DEF Mild, Inv2, EntryInv, EnteredOnce, NoDoubleEntry
  <2>2. BoughtOnce'
    <3> SUFFICES ASSUME Undisturbed, ~bud.alien, NEW t \in Trades, NEW m \in 1..MaxSeq,
                        NEW n \in 1..MaxSeq, m /= n
                 PROVE  ex'[<<t, m>>].q = 0 \/ ex'[<<t, n>>].q = 0
      BY DEF BoughtOnce, Mild
    <3>1. <<t, m>> \in Ids /\ <<t, n>> \in Ids
      BY DEF Ids
    <3>2. ex[<<t, m>>].q = 0 \/ ex[<<t, n>>].q = 0
      BY DEF Inv2, EntryInv, EnteredOnce, BoughtOnce
    <3> QED
      BY <3>1, <3>2
  <2> QED
    BY <2>1, <2>2 DEF EnteredOnce
<1> QED
  BY <1>1, <1>2, <1>3 DEF EntryInv

\* One order is set to a state in which nothing is executed.
LEMMA OneSet ==
  ASSUME Inv2, NEW i \in Ids, NEW st, ex' = [ex EXCEPT ![i].st = st]
  PROVE  /\ ex'[i].st = st /\ \A j \in Ids : ex'[j].q = ex[j].q
         /\ \A j \in Ids : j /= i => ex'[j] = ex[j]
<1>1. ex[i] \in OrderState
  BY DEF Inv2, IInv, TypeOK
<1>2. [ex[i] EXCEPT !.st = st].st = st /\ [ex[i] EXCEPT !.st = st].q = ex[i].q
  BY <1>1 DEF OrderState
<1>3. ex'[i] = [ex[i] EXCEPT !.st = st] /\ \A j \in Ids : j /= i => ex'[j] = ex[j]
  BY DEF Inv2, IInv, TypeOK
<1> QED
  BY <1>2, <1>3

\* The request is over without an execution: it was lost or refused.
LEMMA GoneStep ==
  ASSUME Inv2, IInv', StepKind, Mild, FillsKnown', pos' = pos, NEW i \in Ids,
         ex[i].st = "flight", ex' = [ex EXCEPT ![i].st = "none"], pc' /= "submit"
  PROVE  EntryInv'
<1>1. ex'[i].st = "none" /\ (\A j \in Ids : ex'[j].q = ex[j].q)
      /\ \A j \in Ids : j /= i => ex'[j] = ex[j]
  BY OneSet
<1>2. ASSUME Undisturbed PROVE OrdersPlain' /\ UnderWayKnown' /\ SubmitFresh'
  <2>1. OrdersPlain /\ UnderWayKnown
    BY <1>2 DEF Inv2, EntryInv
  <2>2. \A j \in Ids : ex'[j].st /= "flight"
    BY <1>1, <2>1, OneUnderWay
  <2>3. OrdersPlain'
    <3> SUFFICES ASSUME NEW j \in Ids
                 PROVE  /\ ex'[j].st \notin Resting \union {"CANCELED"}
                        /\ ex'[j].st \in {"none", "flight"} => ex'[j].q = 0
                        /\ ex'[j].st /= "none" => j[2] <= db'[j[1]].att
      BY DEF OrdersPlain
    <3>1. CASE j = i
      BY <1>1, <2>1, <3>1 DEF OrdersPlain, Resting
    <3>2. CASE j /= i
      <4>1. j[1] \in Trades /\ j[2] \in Int
        BY DEF Ids
      <4>2. db[j[1]].att <= db'[j[1]].att
        BY <4>1, RecordsGrow DEF Inv2
      <4>3. db[j[1]].att \in Int /\ db'[j[1]].att \in Int
        BY <4>1 DEF Inv2, IInv, TypeOK, TradeRecord
      <4>4. ex[j].st /= "none" => j[2] <= db[j[1]].att
        BY <2>1 DEF OrdersPlain
      <4>5. ex'[j].st /= "none" => j[2] <= db'[j[1]].att
        BY <1>1, <3>2, <4>1, <4>2, <4>3, <4>4
      <4> QED
        BY <1>1, <2>1, <3>2, <4>5 DEF OrdersPlain
    <3> QED
      BY <3>1, <3>2
  <2> QED
    BY <2>2, <2>3 DEF UnderWayKnown, SubmitFresh
<1> QED
  BY <1>1, <1>2, OrdersStep

LEMMA SubmitStep ==
  ASSUME Inv2, IInv', StepKind, Mild, FillsKnown', Submit
  PROVE  EntryInv'
<1>1. h.id \in Ids /\ cur /= 0 /\ ~db[cur].filled
  BY DEF Submit, Inv2, IInv, FrameOK, HasOrder, HasTrade, EntryPc, EntryInv, FillsKnown
<1>2. ex'[h.id].st = "flight" /\ (\A j \in Ids : ex'[j].q = ex[j].q)
      /\ \A j \in Ids : j /= h.id => ex'[j] = ex[j]
  BY <1>1, OneSet DEF Submit
<1>3. ASSUME Undisturbed PROVE OrdersPlain' /\ UnderWayKnown' /\ SubmitFresh'
  <2>1. OrdersPlain /\ UnderWayKnown /\ SubmitFresh
    BY <1>3 DEF Inv2, EntryInv
  <2>2. h.id = <<cur, db[cur].att>> /\ ex[h.id].st = "none" /\ pos = 0
    BY <2>1 DEF Submit, SubmitFresh
  <2>3. db[cur].att \in Int /\ cur \in Trades /\ Active(cur)
    BY <1>1, CurTyped DEF Inv2, IInv, TypeOK, TradeRecord, CurActive
  <2>4. OrdersPlain'
    <3> SUFFICES ASSUME NEW j \in Ids
                 PROVE  /\ ex'[j].st \notin Resting \union {"CANCELED"}
                        /\ ex'[j].st \in {"none", "flight"} => ex'[j].q = 0
                        /\ ex'[j].st /= "none" => j[2] <= db[j[1]].att
      BY DEF OrdersPlain, Submit
    <3>1. CASE j = h.id
      <4>1. ex'[j].q = 0
        BY <1>2, <2>1, <2>2, <3>1 DEF OrdersPlain
      <4>2. j[1] = cur /\ j[2] = db[cur].att
        BY <2>2, <3>1
      <4> QED
        BY <1>2, <2>3, <3>1, <4>1, <4>2 DEF Resting
    <3>2. CASE j /= h.id
      BY <1>2, <2>1, <3>2 DEF OrdersPlain
    <3> QED
      BY <3>1, <3>2
  <2>5. UnderWayKnown'
    <3> SUFFICES ASSUME NEW j \in Ids, ex'[j].st = "flight"
                 PROVE  /\ pos' = 0 /\ row'[j] \in Unresolved
                        /\ Active(j[1])' /\ ~db'[j[1]].filled /\ j[2] = db'[j[1]].att
                        /\ pc' \in {"sent", "resolve"} /\ h'.id = j
      BY DEF UnderWayKnown
    <3>1. j = h.id
      BY <1>2, <2>1 DEF UnderWayKnown, Submit
    <3>2. row'[j] \in Unresolved
      BY <1>1, <3>1 DEF Submit, Unresolved, Inv2, IInv, TypeOK
    <3>3. j[1] = cur /\ j[2] = db[cur].att
      BY <2>2, <3>1
    <3> QED
      BY <1>1, <2>2, <2>3, <3>1, <3>2, <3>3 DEF Submit, GoTo, Active
  <2> QED
    BY <2>4, <2>5 DEF SubmitFresh, Submit, GoTo
<1> QED
  BY <1>2, <1>3, OrdersStep DEF Submit

LEMMA CheckStep ==
  ASSUME Inv2, IInv', StepKind, Mild, FillsKnown', CheckPasses
  PROVE  EntryInv'
<1>1. cur \in Trades /\ db[cur].att \in 0..MaxSeq /\ db[cur] \in TradeRecord
  <2>1. cur \in Trades /\ db[cur] \in TradeRecord
    BY CurTyped DEF CheckPasses, Inv2, IInv, FrameOK, HasTrade, EntryPc
  <2> QED
    BY <2>1 DEF TradeRecord
<1>2. pc' = "submit" /\ cur' = cur /\ h'.id = <<cur, db[cur].att + 1>> /\ ex' = ex /\ pos' = pos
      /\ pos = 0 /\ pc = "check"
  BY DEF CheckPasses, GoTo, exchange, Inv2, IInv, TypeOK, Frame
<1>3. db'[cur].att = db[cur].att + 1 /\ db[cur].att + 1 \in 1..MaxSeq
  <2>1. db'[cur] = [db[cur] EXCEPT !.att = db[cur].att + 1]
    BY <1>1 DEF CheckPasses, Inv2, IInv, TypeOK
  <2>2. db'[cur].att = db[cur].att + 1
    BY <1>1, <2>1 DEF TradeRecord
  <2> QED
    BY <1>1, <2>2 DEF CheckPasses
<1>4. ASSUME Undisturbed PROVE OrdersPlain' /\ UnderWayKnown' /\ SubmitFresh'
  <2>1. OrdersPlain'
    BY <1>2, <1>4, OrdersKept DEF Inv2, EntryInv
  <2>2. UnderWayKnown'
    BY <1>2, <1>4, NothingUnderWay DEF UnderWay, UnderWayKnown
  <2>3. SubmitFresh'
    <3> DEFINE i == <<cur, db[cur].att + 1>>
    <3>1. i \in Ids /\ i[1] = cur /\ i[2] = db[cur].att + 1
      BY <1>1, <1>3 DEF Ids
    <3>2. ~(db[cur].att + 1 <= db[cur].att)
      BY <1>1
    <3>3. ex[i].st = "none"
      BY <1>4, <3>1, <3>2 DEF Inv2, EntryInv, OrdersPlain
    <3> QED
      BY <1>2, <1>3, <3>3 DEF SubmitFresh
  <2> QED
    BY <2>1, <2>2, <2>3
<1> QED
  BY <1>2, <1>4, OrdersStep

\* The request stays under way, or not, and whoever knew of it still does.
LEMMA WaitingStep ==
  ASSUME Inv2, IInv', StepKind, Mild, FillsKnown', ex' = ex, pos' = pos, db' = db,
         pc' /= "submit",
         \A i \in Ids : row[i] \in Unresolved => row'[i] \in Unresolved,
         \A i \in Ids : ex[i].st = "flight" /\ Undisturbed =>
           pc' \in {"down", "rq"} \/ (pc' \in {"sent", "resolve"} /\ h'.id = i)
  PROVE  EntryInv'
<1>1. ASSUME Undisturbed PROVE OrdersPlain' /\ UnderWayKnown' /\ SubmitFresh'
  <2>1. OrdersPlain'
    BY <1>1, OrdersKept DEF Inv2, EntryInv
  <2>2. UnderWayKnown'
    BY <1>1 DEF Inv2, EntryInv, UnderWayKnown, Active
  <2> QED
    BY <2>1, <2>2 DEF SubmitFresh
<1> QED
  BY <1>1, OrdersStep

\* Somebody outside closes the position, or trades by hand.
LEMMA FlatStep ==
  ASSUME Inv2, IInv', StepKind, Mild, FillsKnown', ex' = ex, pos' = 0, pc' /= "submit",
         Undisturbed => ~UnderWay,
         \A t \in Trades : Active(t)' /\ ~db'[t].filled => bud'.alien
  PROVE  EntryInv'
<1>1. Undisturbed' => OrdersPlain' /\ UnderWayKnown' /\ SubmitFresh'
  BY OrdersKept DEF Mild, Inv2, EntryInv, UnderWay, UnderWayKnown, SubmitFresh
<1>2. ~bud'.alien => BoughtHeld'
  BY DEF BoughtHeld
<1>3. EnteredOnce'
  <2>1. NoDoubleEntry'
    BY DEF NoDoubleEntry
  <2>2. BoughtOnce'
    BY DEF Mild, Inv2, EntryInv, EnteredOnce, BoughtOnce
  <2> QED
    BY <2>1, <2>2 DEF EnteredOnce
<1> QED
  BY <1>1, <1>2, <1>3 DEF EntryInv

LEMMA ExchangeStep ==
  ASSUME Inv2, IInv', StepKind, Mild, FillsKnown', Exchange
  PROVE  EntryInv'
<1>1. ASSUME NEW i \in Ids, Match(i) PROVE EntryInv'
  <2>1. ~Undisturbed
    BY <1>1 DEF Match, Inv2, EntryInv, OrdersPlain
  <2> QED
    BY <2>1 DEF Mild, EntryInv, EnteredOnce, NoDoubleEntry, BoughtOnce
<1>2. ASSUME NEW i \in Ids, Lose(i) PROVE EntryInv'
  <2>1. pos' = pos /\ ex[i].st = "flight" /\ ex' = [ex EXCEPT ![i].st = "none"] /\ pc' = pc
    BY <1>2 DEF Lose, memory
  <2>2. CASE pc = "submit"
    <3>1. ~Undisturbed
      BY <2>1, <2>2 DEF Inv2, EntryInv, UnderWayKnown
    <3> QED
      BY <3>1 DEF Mild, EntryInv, EnteredOnce, NoDoubleEntry, BoughtOnce
  <2>3. CASE pc /= "submit"
    BY <2>1, <2>3, GoneStep
  <2> QED
    BY <2>2, <2>3
<1>3. CASE StopFires
  <2>1. ex' = ex /\ pos' = 0 /\ pc' = pc /\ db' = db /\ pos /= 0
        /\ bud' = [bud EXCEPT !.alien = @ \/ \E t \in Trades : Active(t) /\ ~db[t].filled]
    BY <1>3 DEF StopFires, memory
  <2>2. CASE Undisturbed
    <3>1. ~UnderWay /\ pc /= "submit"
      BY <2>1, <2>2 DEF UnderWay, Inv2, EntryInv, UnderWayKnown, SubmitFresh
    <3>2. \A t \in Trades : Active(t) /\ ~db[t].filled => bud'.alien
      BY <2>1 DEF Inv2, IInv, TypeOK, Budget
    <3> QED
      BY <2>1, <3>1, <3>2, FlatStep DEF Active
  <2>3. CASE ~Undisturbed
    BY <2>3 DEF Mild, EntryInv, EnteredOnce, NoDoubleEntry, BoughtOnce
  <2> QED
    BY <2>2, <2>3
<1>4. CASE ManualTrade
  <2>1. bud'.manual = bud.manual + 1 /\ bud.manual \in Nat
    BY <1>4 DEF ManualTrade, Inv2, IInv, TypeOK, Budget
  <2>2. bud'.manual /= 0
    BY <2>1
  <2> QED
    BY <2>2 DEF Undisturbed, EntryInv, EnteredOnce, NoDoubleEntry, BoughtOnce
<1> QED
  BY <1>1, <1>2, <1>3, <1>4, LandStep DEF Exchange

LEMMA EntryStep ==
  ASSUME Inv2, IInv', StepKind, Mild, FillsKnown', Entry
  PROVE  EntryInv'
<1>1. CASE \/ CheckFails \/ CheckRefuses \/ NotFoundNext \/ NotFoundFails \/ ByPosition
           \/ WaitFinal \/ WaitFails \/ ConfirmFill \/ ConfirmFails
  <2>1. ex' = ex /\ pos' = pos /\ pc \notin {"down", "rq", "sent", "resolve"}
    BY <1>1 DEF CheckFails, CheckRefuses, NotFoundNext, NotFoundFails, ByPosition, WaitFinal,
                WaitFails, ConfirmFill, ConfirmFails, Raise, exchange
  <2>2. pc' /= "submit"
    <3>1. ASSUME NEW d, Return(d) PROVE pc' /= "submit"
      BY <3>1 DEF Return, Inv2, IInv, TypeOK, Frame
    <3>2. CASE NotFoundNext \/ ByPosition \/ ConfirmFill
      BY <3>1, <3>2 DEF NotFoundNext, ByPosition, ConfirmFill, AdoptPosition, MarkFilled, GoTo
    <3> QED
      BY <1>1, <3>1, <3>2 DEF CheckFails, CheckRefuses, NotFoundFails, WaitFinal, WaitFails,
                              ConfirmFails, Raise, ProcessDown, GoTo
  <2> QED
    BY <2>1, <2>2, AsideStep
<1>2. CASE Answered \/ EntryFound \/ EntryNotFound \/ EntryUnresolved
  <2>1. ex' = ex /\ pos' = pos /\ pc \in {"sent", "resolve"} /\ ex[h.id].st /= "flight"
        /\ pc' /= "submit"
    BY <1>2 DEF Answered, EntryFound, EntryNotFound, EntryUnresolved, Lookup, Landed, Missing,
                Resting, Final, exchange, GoTo
  <2> QED
    BY <2>1, AsideStep
<1>3. CASE NotSent \/ Refused("REJECTED") \/ Refused("NOT_PLACED")
  <2>1. h.id \in Ids /\ ex[h.id].st = "flight" /\ ex' = [ex EXCEPT ![h.id].st = "none"]
        /\ pos' = pos
    BY <1>3 DEF NotSent, Refused, Inv2, IInv, FrameOK, HasOrder
  <2>2. pc' /= "submit"
    BY <1>3 DEF NotSent, Refused, Return, GoTo, Inv2, IInv, TypeOK, Frame
  <2> QED
    BY <2>1, <2>2, GoneStep
<1>4. CASE AnswerLost
  <2>1. ex' = ex /\ pos' = pos /\ db' = db /\ pc' = "resolve" /\ h' = h /\ pc = "sent"
    BY <1>4 DEF AnswerLost, exchange, GoTo
  <2>2. ASSUME NEW i \in Ids, row[i] \in Unresolved PROVE row'[i] \in Unresolved
    <3>1. row'[i] \in {row[i], "UNKNOWN"}
      BY <1>4 DEF AnswerLost, Inv2, IInv, TypeOK
    <3> QED
      BY <2>2, <3>1 DEF Unresolved
  <2>3. \A i \in Ids : ex[i].st = "flight" /\ Undisturbed => h'.id = i
    BY <2>1 DEF Inv2, EntryInv, UnderWayKnown
  <2> QED
    BY <2>1, <2>2, <2>3, WaitingStep
<1> QED
  BY <1>1, <1>2, <1>3, <1>4, SubmitStep, CheckStep DEF Entry

LEMMA GuardStep ==
  ASSUME Inv2, IInv', StepKind, Mild, FillsKnown', Guard
  PROVE  EntryInv'
<1>1. pc \in GuardPc /\ cur /= 0 /\ db[cur].filled
  BY DEF Guard, Protect, StopPlaced, StopRefused, CloseOrder, CloseSeen, CloseFails, Finalize,
         Inv2, IInv, FrameOK, HasTrade, GuardPc, EntryInv, FillsKnown
<1>2. CASE CloseOrder
  <2>1. ex' = ex /\ pos' = 0 /\ pc' = "close" /\ db' = db
    BY <1>2 DEF CloseOrder, GoTo
  <2>2. Undisturbed => ~UnderWay
    BY <1>1, NothingUnderWay DEF GuardPc
  <2>3. \A t \in Trades : Active(t) => db[t].filled
    BY <1>1 DEF Inv2, IInv, OneActive, GuardPc
  <2> QED
    BY <2>1, <2>2, <2>3, FlatStep DEF Active
<1>3. CASE Protect \/ StopPlaced \/ StopRefused \/ CloseSeen \/ CloseFails \/ Finalize
  <2>1. ex' = ex /\ pos' = pos
    BY <1>3 DEF Protect, StopPlaced, StopRefused, CloseSeen, CloseFails, Finalize, exchange
  <2>2. pc' /= "submit"
    BY <1>3 DEF Protect, StopPlaced, StopRefused, BeginClose, CloseSeen, CloseFails, Finalize,
                Return, GoTo, Inv2, IInv, TypeOK, Frame
  <2> QED
    BY <1>1, <2>1, <2>2, AsideStep DEF GuardPc
<1> QED
  BY <1>2, <1>3 DEF Guard

LEMMA RecoveryStep ==
  ASSUME Inv2, IInv', StepKind, Mild, FillsKnown', Recovery
  PROVE  EntryInv'
<1>1. CASE Query
  <2>1. Newest = cur /\ db' = db /\ cur' = cur
    BY <1>1, QuerySame DEF Inv2, IInv
  <2>2. ex' = ex /\ pos' = pos /\ pc' /= "submit" /\ row' = row /\ pc = "rq"
    BY <1>1 DEF Query, exchange
  <2>3. ASSUME NEW i \in Ids, ex[i].st = "flight", Undisturbed
        PROVE  pc' = "resolve" /\ h'.id = i
    <3>1. row[i] \in Unresolved /\ Active(i[1]) /\ ~db[i[1]].filled /\ i[2] = db[i[1]].att
      BY <2>3 DEF Inv2, EntryInv, UnderWayKnown
    <3>2. i[1] = cur /\ i[1] \in Trades /\ i[2] \in 1..MaxSeq
      BY <2>2, <3>1 DEF Inv2, IInv, OneActive, Ids
    <3>3. i = <<cur, db[cur].att>> /\ db[cur].att > 0 /\ cur /= 0
      BY <3>1, <3>2 DEF Ids, Trades
    <3>4. <<Newest, db[Newest].att>> = i /\ Newest /= 0 /\ ~db[Newest].filled
          /\ db[Newest].att > 0 /\ row[i] \in Unresolved
      BY <2>1, <3>1, <3>2, <3>3
    <3>5. /\ pc' = "resolve"
          /\ h' = [h EXCEPT !.qty = pos, !.algos = stops, !.ret = "r10b", !.id = i]
      BY <1>1, <3>4 DEF Query
    <3> QED
      BY <3>5 DEF Inv2, IInv, TypeOK, Frame
  <2> QED
    BY <2>1, <2>2, <2>3, WaitingStep
<1>2. CASE QueryFails
  <2>1. ex' = ex /\ pos' = pos /\ pc' = "idle"
    BY <1>2 DEF QueryFails, exchange
  <2>2. Undisturbed' => ~UnderWay
    BY <1>2 DEF QueryFails, Undisturbed, Inv2, IInv, TypeOK, Budget
  <2> QED
    BY <2>1, <2>2, QuietStep
<1>3. CASE ResolveMiss
  <2>1. ex' = ex /\ pos' = pos /\ db' = db /\ row' = row /\ pc' = "resolve" /\ h'.id = h.id
        /\ pc = "resolve"
    BY <1>3 DEF ResolveMiss, Lookup, exchange, GoTo, Inv2, IInv, TypeOK, Frame
  <2>2. \A i \in Ids : ex[i].st = "flight" /\ Undisturbed => h'.id = i
    BY <2>1 DEF Inv2, EntryInv, UnderWayKnown
  <2> QED
    BY <2>1, <2>2, WaitingStep
<1>4. CASE StaleFound \/ StaleNotFound \/ StaleUnresolved \/ SweepResolve
  <2>1. ex' = ex /\ pos' = pos /\ pc = "resolve" /\ ex[h.id].st /= "flight"
    BY <1>4 DEF StaleFound, StaleNotFound, StaleUnresolved, SweepResolve, Lookup, Landed, Missing,
                Resting, Final, exchange
  <2>2. pc' /= "submit"
    <3>1. ASSUME NEW d, Return(d) PROVE pc' /= "submit"
      BY <3>1 DEF Return, Inv2, IInv, TypeOK, Frame
    <3> QED
      BY <1>4, <3>1 DEF StaleFound, StaleNotFound, StaleUnresolved, SweepResolve, SweepDone, GoTo
  <2> QED
    BY <2>1, <2>2, AsideStep
<1>5. CASE \/ StalePending \/ Orphan \/ AdoptNew \/ AdoptRecovery \/ AdoptGuard
           \/ DirectionMismatch \/ ResumeClose \/ ProtectAgain \/ ClosedOffline \/ NothingHeld
           \/ SweepNext \/ Finish \/ StopInPlace
  <2>1. ex' = ex /\ pos' = pos /\ pc \notin {"down", "rq", "sent", "resolve"}
    BY <1>5 DEF StalePending, Orphan, AdoptNew, AdoptRecovery, AdoptGuard, DirectionMismatch,
                ResumeClose, ProtectAgain, SameWay, Step7, ClosedOffline, NothingHeld, SweepNext,
                Finish, StopInPlace, exchange
  <2>2. pc' /= "submit"
    <3>1. CASE StopInPlace
      BY <3>1 DEF StopInPlace, Return, Inv2, IInv, TypeOK, Frame
    <3> QED
      BY <1>5, <3>1 DEF StalePending, Orphan, AdoptNew, AdoptRecovery, AdoptGuard, Step7,
                        DirectionMismatch, ResumeClose, ProtectAgain, ClosedOffline, NothingHeld,
                        BeginClose, SweepNext, Finish, GoTo
  <2> QED
    BY <2>1, <2>2, AsideStep
<1>6. CASE OrphanOrders
  <2>1. pos' = pos /\ pc' = "sweep" /\ pc = "r8"
    BY <1>6 DEF OrphanOrders, GoTo
  <2>2. CASE Undisturbed
    <3>1. {i \in Ids : ex[i].st \in Resting /\ i[1] /= cur} = {}
      BY <2>2 DEF Inv2, EntryInv, OrdersPlain
    <3>2. ex' = [i \in Ids |-> ex[i]]
      BY <1>6, <3>1 DEF OrphanOrders
    <3>3. ex' = ex
      BY <3>2 DEF Inv2, IInv, TypeOK
    <3> QED
      BY <2>1, <3>3, AsideStep
  <2>3. CASE ~Undisturbed
    BY <2>3 DEF Mild, EntryInv, EnteredOnce, NoDoubleEntry, BoughtOnce
  <2> QED
    BY <2>2, <2>3
<1> QED
  BY <1>1, <1>2, <1>3, <1>4, <1>5, <1>6 DEF Recovery

LEMMA NextEntryInv == Inv2 /\ [Next]_vars => Inv2'
<1> SUFFICES ASSUME Inv2, [Next]_vars PROVE Inv2'
  OBVIOUS
<1>1. IInv' /\ StepKind /\ Mild /\ FillsKnown'
  BY NextInv, NextKind, NextMild, FillsNext DEF Inv2, EntryInv
<1>2. CASE Signal \/ Events \/ Reconcile
  <2>1. ex' = ex /\ pos' = pos /\ pc \notin {"down", "rq", "sent", "resolve"}
    BY <1>2 DEF Signal, Arm, ArmSignal, ArmPending, CancelWait, Waiting, Trigger, Events, BarExit,
                NoticeFlat, UserEvent, Reconcile, exchange
  <2>2. pc' /= "submit"
    BY <1>2 DEF Signal, Arm, ArmSignal, ArmPending, CancelWait, Waiting, Trigger, Return, GoTo,
                Events, BarExit, NoticeFlat, UserEvent, Reconcile, BeginClose, memory,
                Inv2, IInv, TypeOK, Frame
  <2> QED
    BY <1>1, <2>1, <2>2, AsideStep DEF Inv2
<1>3. CASE Crash \/ Restart
  <2>1. ex' = ex /\ pos' = pos /\ db' = db /\ row' = row /\ pc' \in {"down", "rq"}
    BY <1>3 DEF Crash, Restart, ProcessDown, exchange
  <2> QED
    BY <1>1, <2>1, WaitingStep DEF Inv2
<1>4. CASE UNCHANGED vars
  BY <1>1, <1>4 DEF vars, Inv2, EntryInv, Undisturbed, OrdersPlain, UnderWayKnown, SubmitFresh,
                    BoughtHeld, Active, EnteredOnce, NoDoubleEntry, BoughtOnce
<1> QED
  BY <1>1, <1>2, <1>3, <1>4, ExchangeStep, EntryStep, GuardStep, RecoveryStep DEF Inv2, Next

LEMMA InitEntryInv == Init => Inv2
<1> SUFFICES ASSUME Init PROVE EntryInv
  BY InitInv DEF Inv2
<1>1. \A t \in Trades : db[t].st = "none"
  BY DEF Init, NoTrade
<1>2. \A i \in Ids : ex[i].st = "none" /\ ex[i].q = 0
  BY DEF Init
<1>3. \A t \in Trades, n \in 1..MaxSeq : <<t, n>> \in Ids
  BY DEF Ids
<1>4. FillsKnown
  BY <1>1 DEF Init, FillsKnown, GuardPc, Holding
<1>5. OrdersPlain /\ UnderWayKnown /\ SubmitFresh
  BY <1>2 DEF Init, OrdersPlain, Resting, UnderWayKnown, SubmitFresh
<1>6. BoughtHeld /\ EnteredOnce
  BY <1>2, <1>3 DEF Init, BoughtHeld, EnteredOnce, NoDoubleEntry, BoughtOnce
<1> QED
  BY <1>4, <1>5, <1>6 DEF EntryInv

\* The bot never buys twice, for any number of trades, orders, lost answers and
\* crashes: what it holds is at most one sized entry, and of all the orders of
\* a trade at most one is executed (context.py:153-192, entry_manager.py:104-139).
THEOREM EntersOnce == Spec => []EnteredOnce
<1>1. Inv2 => EnteredOnce
  BY DEF Inv2, EntryInv
<1> QED
  BY <1>1, InitEntryInv, NextEntryInv, PTL DEF Spec
=============================================================================
