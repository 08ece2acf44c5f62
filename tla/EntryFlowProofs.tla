-------------------------- MODULE EntryFlowProofs --------------------------
(***************************************************************************)
(* Proofs about EntryFlow for every value of its constants: the variables  *)
(* stay in their ranges, there is at most one open trade and it is the one *)
(* in memory, the trade records implement TradeSlot, and every transition  *)
(* a handler asks for is one the table allows.                             *)
(***************************************************************************)
EXTENDS EntryFlow, TLAPS

USE BoundsAssumption

----------------------------------------------------------------------------
(* Type correctness with the frame facts it rests on. *)

Typed == TypeOK /\ FrameOK

LEMMA NoTradeTyped == NoTrade \in TradeRecord
  BY DEF NoTrade, TradeRecord

LEMMA NoFrameTyped == NoFrame \in Frame
  BY DEF NoFrame, Frame, NoId

LEMMA InitTyped == Init => Typed
<1> SUFFICES ASSUME Init PROVE Typed
  OBVIOUS
<1>1. ex \in [Ids -> OrderState]
  BY DEF Init, OrderState
<1>2. TypeOK
  <2>1. db \in [Trades -> TradeRecord] /\ row \in [Ids -> RowStatus]
    BY NoTradeTyped DEF Init, RowStatus
  <2>2. bud \in Budget
    BY BoundsAssumption DEF Init, Budget
  <2>3. pc \in Pc /\ h \in Frame /\ cur \in 0..MaxTrades
    BY NoFrameTyped DEF Init, Pc
  <2>4. pos \in Int /\ stops \subseteq Trades
    BY DEF Init
  <2>5. ta \in BOOLEAN /\ halts \subseteq {"recovery", "orphan"}
    BY DEF Init
  <2> QED
    BY <1>1, <2>1, <2>2, <2>3, <2>4, <2>5 DEF TypeOK
<1>3. FrameOK
  BY DEF Init, FrameOK, HasTrade, HasOrder, EntryPc, GuardPc, NoFrame
<1> QED
  BY <1>2, <1>3 DEF Typed

\* What Return(d) and GoTo(where) leave behind, types and frame.
HandlerVarsTyped == /\ db \in [Trades -> TradeRecord]
                    /\ cur \in 0..MaxTrades /\ ta \in BOOLEAN
                    /\ halts \subseteq {"recovery", "orphan"}
                    /\ pc \in Pc /\ h \in Frame
                    /\ FrameOK
DiskVarsTyped == /\ ex \in [Ids -> OrderState] /\ pos \in Int /\ stops \subseteq Trades
                 /\ row \in [Ids -> RowStatus]
                 /\ bud \in Budget

LEMMA TypedParts == Typed <=> HandlerVarsTyped /\ DiskVarsTyped
  BY DEF Typed, TypeOK, HandlerVarsTyped, DiskVarsTyped

LEMMA TypedPartsNext == HandlerVarsTyped' /\ DiskVarsTyped' => Typed'
  BY DEF Typed, TypeOK, HandlerVarsTyped, DiskVarsTyped

LEMMA StateNames ==
  /\ "IDLE" \in TradeState /\ "SIGNAL_DETECTED" \in TradeState /\ "ENTRY_PENDING" \in TradeState
  /\ "ENTRY_FILLED" \in TradeState /\ "PROTECTING" \in TradeState /\ "PROTECTED" \in TradeState
  /\ "CLOSING" \in TradeState /\ "CLOSED" \in TradeState /\ "ERROR" \in TradeState
  /\ "RECOVERY_REQUIRED" \in TradeState
  BY DEF TradeState, WithPosition, Holding

LEMMA RecordTyped ==
  ASSUME TypeOK, NEW n \in Trades, NEW s \in TradeState
  PROVE  [db EXCEPT ![n].st = s] \in [Trades -> TradeRecord]
<1>1. db[n] \in TradeRecord
  BY DEF TypeOK
<1>2. [db[n] EXCEPT !.st = s] \in TradeRecord
  BY <1>1 DEF TradeRecord
<1> QED
  BY <1>2 DEF TypeOK

LEMMA WithStateTyped ==
  ASSUME TypeOK, cur /= 0, NEW s \in TradeState
  PROVE  WithState(s) \in [Trades -> TradeRecord]
  BY RecordTyped DEF TypeOK, WithState, Trades

LEMMA ReturnTyped ==
  ASSUME Typed, NEW d \in [Trades -> TradeRecord], Return(d)
  PROVE  HandlerVarsTyped'
<1>1. h.ret \in {"idle", "r10b", "r8", "sweep"}
  BY DEF Typed, TypeOK, Frame
<1>2. pc' \in Pc /\ h' \in Frame
  BY <1>1, NoFrameTyped DEF Return, Typed, TypeOK, Pc, RecoveryPc
<1>3. FrameOK'
  BY <1>1 DEF Return, FrameOK, HasTrade, HasOrder, EntryPc, GuardPc, NoFrame
<1> QED
  BY <1>2, <1>3 DEF Return, Typed, TypeOK, HandlerVarsTyped

LEMMA ReturnStateTyped ==
  ASSUME Typed, cur /= 0, NEW s \in TradeState, Return(WithState(s))
  PROVE  HandlerVarsTyped'
  BY WithStateTyped, ReturnTyped DEF Typed

LEMMA FaultTyped ==
  ASSUME Typed, Fault
  PROVE  bud' \in Budget
  BY BoundsAssumption DEF Typed, TypeOK, Fault, Budget

LEMMA RaiseTyped == Typed /\ Raise => Typed'
<1> SUFFICES ASSUME Typed, Raise PROVE Typed'
  OBVIOUS
<1>1. HandlerVarsTyped'
  <2>1. pc' \in {"down", "idle"} /\ h' = NoFrame
    BY DEF Raise, ProcessDown, GoTo
  <2>2. pc' \in Pc /\ h' \in Frame /\ FrameOK'
    BY <2>1, NoFrameTyped DEF Pc, FrameOK, HasTrade, HasOrder, EntryPc, GuardPc
  <2>3. db' = db
    BY DEF Raise, exchange
  <2>4. cur' \in {0, cur} /\ halts' \in {{}, halts}
    BY DEF Raise, ProcessDown, GoTo
  <2>5. ta' \in BOOLEAN
    BY DEF Raise, ProcessDown, GoTo, Typed, TypeOK
  <2>6. cur' \in 0..MaxTrades
    BY <2>4 DEF Typed, TypeOK
  <2>7. halts' \subseteq {"recovery", "orphan"}
    BY <2>4 DEF Typed, TypeOK
  <2>8. db' \in [Trades -> TradeRecord]
    BY <2>3 DEF Typed, TypeOK
  <2> QED
    BY <2>2, <2>5, <2>6, <2>7, <2>8 DEF HandlerVarsTyped
<1>2. DiskVarsTyped'
  BY FaultTyped DEF Raise, DiskVarsTyped, Typed, TypeOK, exchange
<1> QED
  BY <1>1, <1>2, TypedPartsNext

LEMMA GoToTyped ==
  ASSUME Typed, NEW where \in Pc, GoTo(where), db' \in [Trades -> TradeRecord], h' \in Frame,
         FrameOK'
  PROVE  HandlerVarsTyped'
  BY DEF Typed, TypeOK, GoTo, HandlerVarsTyped

LEMMA DiskSame ==
  ASSUME Typed, UNCHANGED <<ex, pos, stops, row>>, bud' = bud \/ Fault
  PROVE  DiskVarsTyped'
  BY FaultTyped DEF Typed, TypeOK, DiskVarsTyped

LEMMA DiskRow ==
  ASSUME Typed, UNCHANGED <<ex, pos, stops>>, bud' = bud \/ Fault,
         NEW i \in Ids, NEW s \in RowStatus, row' = [row EXCEPT ![i] = s]
  PROVE  DiskVarsTyped'
  BY FaultTyped DEF Typed, TypeOK, DiskVarsTyped

LEMMA LandedStatus ==
  ASSUME Typed, NEW i \in Ids, Landed(i)
  PROVE  ex[i].st \in RowStatus
  BY DEF Typed, TypeOK, Landed, RowStatus, Unresolved

\* The exchange never forgets an order it accepted.
LEMMA HandlersSame ==
  ASSUME Typed, UNCHANGED <<db, cur, ta, halts, pc, h>>,
         \A i \in Ids : Landed(i) => Landed(i)'
  PROVE  HandlerVarsTyped'
<1>1. FrameOK'
  BY DEF Typed, FrameOK, HasTrade, HasOrder
<1> QED
  BY <1>1 DEF Typed, TypeOK, HandlerVarsTyped

LEMMA BuyTyped ==
  ASSUME Typed, NEW i \in Ids, NEW e \in OrderState, e.st \in Resting \union Final, Buy(i, e),
         bud' \in Budget
  PROVE  Typed'
<1>1. ex' \in [Ids -> OrderState]
  BY DEF Typed, TypeOK, Buy
<1>2. pos' \in Int
  BY DEF Typed, TypeOK, Buy, OrderState
<1>3. \A j \in Ids : Landed(j) => Landed(j)'
  BY DEF Typed, TypeOK, Buy, Landed
<1>4. HandlerVarsTyped'
  BY <1>3, HandlersSame DEF Buy, memory
<1>5. DiskVarsTyped'
  BY <1>1, <1>2 DEF Buy, Typed, TypeOK, DiskVarsTyped
<1> QED
  BY <1>4, <1>5, TypedPartsNext

LEMMA ExchangeTyped == Typed /\ Exchange => Typed'
<1> SUFFICES ASSUME Typed, Exchange PROVE Typed'
  OBVIOUS
<1>1. ASSUME NEW i \in Ids, Land(i) PROVE Typed'
  <2>1. /\ [st |-> "FILLED", q |-> Qty] \in OrderState
        /\ [st |-> "NEW", q |-> 0] \in OrderState
        /\ \A q \in 0..(Qty - 1) : [st |-> "EXPIRED", q |-> q] \in OrderState
    BY DEF OrderState, Resting, Final
  <2> QED
    <3>1. bud' \in Budget
      BY <1>1 DEF Land, Typed, TypeOK, Budget
    <3>2. PICK e \in OrderState : Buy(i, e) /\ e.st \in Resting \union Final
      BY <1>1, <2>1 DEF Land, Resting, Final
    <3> QED
      BY <3>1, <3>2, BuyTyped
<1>2. ASSUME NEW i \in Ids, Match(i) PROVE Typed'
  <2>1. ex[i].q \in 0..Qty
    BY DEF Typed, TypeOK, OrderState
  <2>2. /\ [st |-> "FILLED", q |-> Qty] \in OrderState
        /\ [st |-> "EXPIRED", q |-> ex[i].q] \in OrderState
        /\ \A q \in (ex[i].q + 1)..(Qty - 1) : [st |-> "PARTIALLY_FILLED", q |-> q] \in OrderState
    BY <2>1 DEF OrderState, Resting, Final
  <2> QED
    <3>1. bud' \in Budget
      BY <1>2 DEF Match, Typed, TypeOK
    <3>2. PICK e \in OrderState : Buy(i, e) /\ e.st \in Resting \union Final
      BY <1>2, <2>2 DEF Match, Resting, Final
    <3> QED
      BY <3>1, <3>2, BuyTyped
<1>3. ASSUME NEW i \in Ids, Lose(i) PROVE Typed'
  <2>1. ex' \in [Ids -> OrderState] /\ \A j \in Ids : Landed(j) => Landed(j)'
    BY <1>3 DEF Lose, Typed, TypeOK, OrderState, Landed, Resting, Final
  <2>2. HandlerVarsTyped'
    BY <1>3, <2>1, HandlersSame DEF Lose, memory
  <2>3. DiskVarsTyped'
    BY <1>3, <2>1 DEF Lose, Typed, TypeOK, DiskVarsTyped
  <2> QED
    BY <2>2, <2>3, TypedPartsNext
<1>4. CASE StopFires
  <2>1. HandlerVarsTyped'
    BY <1>4, HandlersSame DEF StopFires, memory, Landed
  <2>2. bud' \in Budget
    BY <1>4 DEF StopFires, Typed, TypeOK, Budget
  <2>3. DiskVarsTyped'
    BY <1>4, <2>2 DEF StopFires, Typed, TypeOK, DiskVarsTyped
  <2> QED
    BY <2>1, <2>3, TypedPartsNext
<1>5. CASE ManualTrade
  <2>1. HandlerVarsTyped'
    BY <1>5, HandlersSame DEF ManualTrade, memory, Landed
  <2>2. pos' \in Int /\ bud' \in Budget
    BY <1>5, BoundsAssumption DEF ManualTrade, Typed, TypeOK, Budget
  <2>3. DiskVarsTyped'
    BY <1>5, <2>2 DEF ManualTrade, Typed, TypeOK, DiskVarsTyped
  <2> QED
    BY <2>1, <2>3, TypedPartsNext
<1> QED
  BY <1>1, <1>2, <1>3, <1>4, <1>5 DEF Exchange

LEMMA SignalTyped == Typed /\ Signal => Typed'
<1> SUFFICES ASSUME Typed, Signal PROVE Typed'
  OBVIOUS
<1> USE DEF HasTrade, HasOrder, EntryPc, GuardPc
<1>1. CASE Arm
  <2>1. db' \in [Trades -> TradeRecord] /\ cur' \in 0..MaxTrades /\ cur' /= 0
    <3>1. PICK n \in Trades : cur' = n /\ db' = [db EXCEPT ![n].st = "IDLE"]
      BY <1>1 DEF Arm, Fresh
    <3>2. db' \in [Trades -> TradeRecord]
      BY <3>1, RecordTyped, StateNames DEF Typed
    <3> QED
      BY <3>1, <3>2 DEF Trades
  <2>2. FrameOK'
    BY <1>1, <2>1 DEF Arm, FrameOK, Typed
  <2>3. HandlerVarsTyped'
    BY <1>1, <2>1, <2>2 DEF Arm, Typed, TypeOK, Pc, HandlerVarsTyped
  <2> QED
    BY <1>1, <2>3, DiskSame, TypedPartsNext DEF Arm, exchange
<1>2. CASE ArmSignal
  <2>1. cur /= 0
    BY <1>2 DEF ArmSignal, Typed, FrameOK
  <2>2. db' \in [Trades -> TradeRecord]
    BY <1>2, <2>1, WithStateTyped, StateNames DEF ArmSignal, Typed
  <2>3. FrameOK' /\ h' \in Frame
    BY <1>2, <2>1 DEF ArmSignal, GoTo, FrameOK, Typed, TypeOK
  <2>4. HandlerVarsTyped'
    BY <1>2, <2>2, <2>3, GoToTyped DEF ArmSignal, Pc
  <2> QED
    BY <1>2, <2>4, DiskSame, TypedPartsNext DEF ArmSignal, exchange
<1>3. CASE ArmPending
  <2>1. cur /= 0
    BY <1>3 DEF ArmPending, Typed, FrameOK
  <2>2. db' \in [Trades -> TradeRecord]
    BY <1>3, <2>1, WithStateTyped, StateNames DEF ArmPending, Typed
  <2>3. FrameOK' /\ h' \in Frame
    BY <1>3, <2>1 DEF ArmPending, GoTo, FrameOK, Typed, TypeOK
  <2>4. HandlerVarsTyped'
    BY <1>3, <2>2, <2>3, GoToTyped DEF ArmPending, Pc
  <2> QED
    BY <1>3, <2>4, DiskSame, TypedPartsNext DEF ArmPending, exchange
<1>4. CASE CancelWait
  <2>1. HandlerVarsTyped'
    BY <1>4, ReturnStateTyped, StateNames DEF CancelWait, Waiting
  <2> QED
    BY <1>4, <2>1, DiskSame, TypedPartsNext DEF CancelWait, exchange
<1>5. CASE Trigger
  <2>1. FrameOK' /\ h' \in Frame /\ db' \in [Trades -> TradeRecord]
    BY <1>5 DEF Trigger, Waiting, GoTo, FrameOK, Typed, TypeOK
  <2>2. HandlerVarsTyped'
    BY <1>5, <2>1, GoToTyped DEF Trigger, Pc
  <2> QED
    BY <1>5, <2>2, DiskSame, TypedPartsNext DEF Trigger, exchange
<1> QED
  BY <1>1, <1>2, <1>3, <1>4, <1>5 DEF Signal

LEMMA EntryTyped ==
  Typed /\ (\/ CheckFails \/ CheckRefuses \/ CheckPasses \/ Submit
            \/ Answered \/ AnswerLost \/ NotSent
            \/ Refused("REJECTED") \/ Refused("NOT_PLACED")
            \/ EntryFound \/ EntryNotFound \/ EntryUnresolved) => Typed'
<1> SUFFICES ASSUME Typed,
                    \/ CheckFails \/ CheckRefuses \/ CheckPasses \/ Submit
                    \/ Answered \/ AnswerLost \/ NotSent
                    \/ Refused("REJECTED") \/ Refused("NOT_PLACED")
                    \/ EntryFound \/ EntryNotFound \/ EntryUnresolved
             PROVE  Typed'
  OBVIOUS
<1> USE DEF HasTrade, HasOrder, EntryPc, GuardPc
<1>1. CASE CheckFails
  <2>1. FrameOK'
    BY <1>1 DEF CheckFails, GoTo, FrameOK, Typed
  <2>2. h' \in Frame /\ db' \in [Trades -> TradeRecord]
    BY <1>1 DEF CheckFails, Typed, TypeOK
  <2>3. HandlerVarsTyped'
    BY <1>1, <2>1, <2>2, GoToTyped DEF CheckFails, Pc, EntryPc, ConfirmPc, RecoveryPc, GuardPc
  <2>4. DiskVarsTyped'
    BY <1>1, DiskSame DEF CheckFails, exchange
  <2> QED
    BY <2>3, <2>4, TypedPartsNext
<1>2. CASE CheckRefuses
  <2>1. HandlerVarsTyped'
    BY <1>2, ReturnStateTyped, StateNames DEF CheckRefuses, FrameOK, Typed
  <2>2. DiskVarsTyped'
    BY <1>2, DiskSame DEF CheckRefuses, exchange
  <2> QED
    BY <2>1, <2>2, TypedPartsNext
<1>3. CASE CheckPasses
  <2>1. cur \in Trades /\ db[cur] \in TradeRecord /\ db[cur].att + 1 \in 1..MaxSeq
    BY <1>3 DEF CheckPasses, Typed, TypeOK, FrameOK, Trades, TradeRecord
  <2>2. [db[cur] EXCEPT !.att = db[cur].att + 1] \in TradeRecord
    BY <2>1 DEF TradeRecord
  <2>3. db' \in [Trades -> TradeRecord]
    BY <1>3, <2>1, <2>2 DEF CheckPasses, Typed, TypeOK
  <2>4. <<cur, db[cur].att + 1>> \in Ids
    BY <2>1 DEF Ids
  <2>5. h' \in Frame /\ h'.id \in Ids
    BY <1>3, <2>4 DEF CheckPasses, Typed, TypeOK, Frame
  <2>6. FrameOK'
    BY <1>3, <2>5 DEF CheckPasses, GoTo, FrameOK, Typed
  <2>7. HandlerVarsTyped'
    BY <1>3, <2>3, <2>5, <2>6, GoToTyped DEF CheckPasses, Pc, EntryPc
  <2>8. DiskVarsTyped'
    BY <1>3, DiskSame DEF CheckPasses, exchange
  <2> QED
    BY <2>7, <2>8, TypedPartsNext
<1>4. CASE Submit
  <2>1. h.id \in Ids
    BY <1>4 DEF Submit, Typed, FrameOK
  <2>2. ex' \in [Ids -> OrderState] /\ row' \in [Ids -> RowStatus]
    BY <1>4, <2>1 DEF Submit, Typed, TypeOK, OrderState, RowStatus, Unresolved
  <2>3. DiskVarsTyped'
    BY <1>4, <2>2 DEF Submit, Typed, TypeOK, DiskVarsTyped
  <2>4. FrameOK' /\ h' \in Frame /\ db' \in [Trades -> TradeRecord]
    BY <1>4 DEF Submit, GoTo, FrameOK, Typed, TypeOK
  <2>5. HandlerVarsTyped'
    BY <1>4, <2>4, GoToTyped DEF Submit, Pc, EntryPc
  <2> QED
    BY <2>3, <2>5, TypedPartsNext
<1>5. CASE Answered
  <2>1. FrameOK'
    BY <1>5 DEF Answered, GoTo, FrameOK, Typed, Landed, exchange
  <2>2. h' \in Frame /\ db' \in [Trades -> TradeRecord]
    BY <1>5 DEF Answered, Typed, TypeOK, Landed, exchange
  <2>3. HandlerVarsTyped'
    BY <1>5, <2>1, <2>2, GoToTyped DEF Answered, Pc, EntryPc, ConfirmPc, RecoveryPc, GuardPc
  <2>4. DiskVarsTyped'
    <3>1. h.id \in Ids /\ ex[h.id].st \in RowStatus
      BY <1>5, LandedStatus DEF Answered, RowStatus, Unresolved, FrameOK, Typed, Landed, exchange
    <3> QED
      BY <1>5, <3>1, DiskRow DEF Answered, exchange, Landed, exchange
  <2> QED
    BY <2>3, <2>4, TypedPartsNext
<1>6. CASE AnswerLost
  <2>1. FrameOK'
    BY <1>6 DEF AnswerLost, GoTo, FrameOK, Typed
  <2>2. h' \in Frame /\ db' \in [Trades -> TradeRecord]
    BY <1>6 DEF AnswerLost, Typed, TypeOK
  <2>3. HandlerVarsTyped'
    BY <1>6, <2>1, <2>2, GoToTyped DEF AnswerLost, Pc, EntryPc, ConfirmPc, RecoveryPc, GuardPc
  <2>4. DiskVarsTyped'
    <3>1. h.id \in Ids /\ "UNKNOWN" \in RowStatus
      BY <1>6, LandedStatus DEF AnswerLost, RowStatus, Unresolved, FrameOK, Typed
    <3> QED
      BY <1>6, <3>1, DiskRow DEF AnswerLost, exchange
  <2> QED
    BY <2>3, <2>4, TypedPartsNext
<1>7. CASE Refused("REJECTED")
  <2>1. h.id \in Ids /\ cur /= 0
    BY <1>7 DEF Refused, Typed, FrameOK
  <2>2. ex' \in [Ids -> OrderState] /\ row' \in [Ids -> RowStatus]
    BY <1>7, <2>1 DEF Refused, Typed, TypeOK, OrderState, RowStatus
  <2>3. DiskVarsTyped'
    BY <1>7, <2>2 DEF Refused, Typed, TypeOK, DiskVarsTyped
  <2>4. HandlerVarsTyped'
    BY <1>7, <2>1, ReturnStateTyped, StateNames DEF Refused
  <2> QED
    BY <2>3, <2>4, TypedPartsNext
<1>8. CASE Refused("NOT_PLACED")
  <2>1. h.id \in Ids /\ cur /= 0
    BY <1>8 DEF Refused, Typed, FrameOK
  <2>2. ex' \in [Ids -> OrderState] /\ row' \in [Ids -> RowStatus]
    BY <1>8, <2>1 DEF Refused, Typed, TypeOK, OrderState, RowStatus
  <2>3. DiskVarsTyped'
    BY <1>8, <2>2 DEF Refused, Typed, TypeOK, DiskVarsTyped
  <2>4. HandlerVarsTyped'
    BY <1>8, <2>1, ReturnStateTyped, StateNames DEF Refused
  <2> QED
    BY <2>3, <2>4, TypedPartsNext
<1>9. CASE NotSent
  <2>1. h.id \in Ids
    BY <1>9 DEF NotSent, Typed, FrameOK
  <2>2. ex' \in [Ids -> OrderState] /\ row' \in [Ids -> RowStatus]
    BY <1>9, <2>1 DEF NotSent, Typed, TypeOK, OrderState, RowStatus
  <2>3. DiskVarsTyped'
    BY <1>9, <2>2, FaultTyped DEF NotSent, Typed, TypeOK, DiskVarsTyped
  <2>4. FrameOK' /\ h' \in Frame /\ db' \in [Trades -> TradeRecord]
    BY <1>9, NoFrameTyped DEF NotSent, GoTo, FrameOK, Typed, TypeOK
  <2>5. HandlerVarsTyped'
    BY <1>9, <2>4, GoToTyped DEF NotSent, Pc
  <2> QED
    BY <2>3, <2>5, TypedPartsNext
<1>10. CASE EntryFound
  <2>1. FrameOK'
    BY <1>10 DEF EntryFound, GoTo, FrameOK, Typed, Lookup, Landed, exchange
  <2>2. h' \in Frame /\ db' \in [Trades -> TradeRecord]
    BY <1>10 DEF EntryFound, Typed, TypeOK, Lookup, Landed, exchange
  <2>3. HandlerVarsTyped'
    BY <1>10, <2>1, <2>2, GoToTyped DEF EntryFound, Pc, EntryPc, ConfirmPc, RecoveryPc, GuardPc
  <2>4. DiskVarsTyped'
    <3>1. h.id \in Ids /\ ex[h.id].st \in RowStatus
      BY <1>10, LandedStatus DEF EntryFound, RowStatus, Unresolved, FrameOK, Typed, Lookup, Landed, exchange
    <3> QED
      BY <1>10, <3>1, DiskRow DEF EntryFound, exchange, Lookup, Landed, exchange
  <2> QED
    BY <2>3, <2>4, TypedPartsNext
<1>11. CASE EntryNotFound
  <2>1. FrameOK'
    BY <1>11 DEF EntryNotFound, GoTo, FrameOK, Typed, Lookup, exchange
  <2>2. h' \in Frame /\ db' \in [Trades -> TradeRecord]
    BY <1>11 DEF EntryNotFound, Typed, TypeOK, Lookup, exchange
  <2>3. HandlerVarsTyped'
    BY <1>11, <2>1, <2>2, GoToTyped DEF EntryNotFound, Pc, EntryPc, ConfirmPc, RecoveryPc, GuardPc
  <2>4. DiskVarsTyped'
    <3>1. h.id \in Ids /\ "NOT_PLACED" \in RowStatus
      BY <1>11, LandedStatus DEF EntryNotFound, RowStatus, Unresolved, FrameOK, Typed, Lookup, exchange
    <3> QED
      BY <1>11, <3>1, DiskRow DEF EntryNotFound, exchange, Lookup, exchange
  <2> QED
    BY <2>3, <2>4, TypedPartsNext
<1>12. CASE EntryUnresolved
  <2>1. FrameOK'
    BY <1>12 DEF EntryUnresolved, GoTo, FrameOK, Typed
  <2>2. h' \in Frame /\ db' \in [Trades -> TradeRecord]
    BY <1>12 DEF EntryUnresolved, Typed, TypeOK
  <2>3. HandlerVarsTyped'
    BY <1>12, <2>1, <2>2, GoToTyped DEF EntryUnresolved, Pc, EntryPc, ConfirmPc, RecoveryPc, GuardPc
  <2>4. DiskVarsTyped'
    BY <1>12, DiskSame DEF EntryUnresolved, exchange
  <2> QED
    BY <2>3, <2>4, TypedPartsNext
<1> QED
  BY <1>1, <1>2, <1>3, <1>4, <1>5, <1>6, <1>7, <1>8, <1>9, <1>10, <1>11, <1>12

LEMMA MarkFilledTyped ==
  ASSUME Typed, cur /= 0, MarkFilled
  PROVE  HandlerVarsTyped'
<1>1. cur \in Trades /\ db[cur] \in TradeRecord
  BY DEF Typed, TypeOK, Trades
<1>2. [db[cur] EXCEPT !.st = "ENTRY_FILLED", !.filled = TRUE] \in TradeRecord
  BY <1>1, StateNames DEF TradeRecord
<1>3. db' \in [Trades -> TradeRecord]
  BY <1>1, <1>2 DEF MarkFilled, Typed, TypeOK
<1>4. FrameOK' /\ h' \in Frame
  BY DEF MarkFilled, GoTo, FrameOK, HasTrade, HasOrder, Typed, TypeOK, EntryPc, GuardPc
<1> QED
  BY <1>3, <1>4, GoToTyped DEF MarkFilled, Pc, GuardPc

LEMMA AdoptTyped ==
  ASSUME Typed, cur /= 0, AdoptPosition
  PROVE  HandlerVarsTyped'
  BY MarkFilledTyped, ReturnStateTyped, StateNames DEF AdoptPosition

LEMMA ConfirmTyped ==
  Typed /\ (\/ NotFoundNext \/ NotFoundFails \/ ByPosition
            \/ WaitFinal \/ WaitFails \/ ConfirmFill \/ ConfirmFails) => Typed'
<1> SUFFICES ASSUME Typed,
                    \/ NotFoundNext \/ NotFoundFails \/ ByPosition
                    \/ WaitFinal \/ WaitFails \/ ConfirmFill \/ ConfirmFails
             PROVE  Typed'
  OBVIOUS
<1> USE DEF HasTrade, HasOrder, EntryPc, GuardPc
<1>1. CASE NotFoundNext
  <2>1. cur /= 0 /\ "CLOSED" \in TradeState
    BY <1>1, StateNames DEF NotFoundNext, Typed, FrameOK
  <2>2. HandlerVarsTyped'
    BY <1>1, <2>1, AdoptTyped, ReturnTyped, ReturnStateTyped DEF NotFoundNext, Typed, TypeOK
  <2>3. DiskVarsTyped'
    BY <1>1, DiskSame DEF NotFoundNext, exchange
  <2> QED
    BY <2>2, <2>3, TypedPartsNext
<1>2. CASE NotFoundFails
  BY <1>2, RaiseTyped DEF NotFoundFails
<1>3. CASE ByPosition
  <2>1. cur /= 0
    BY <1>3 DEF ByPosition, Typed, FrameOK
  <2>2. HandlerVarsTyped'
    BY <1>3, <2>1, AdoptTyped, ReturnStateTyped, StateNames DEF ByPosition
  <2>3. DiskVarsTyped'
    BY <1>3, DiskSame DEF ByPosition, exchange
  <2> QED
    BY <2>2, <2>3, TypedPartsNext
<1>4. CASE WaitFinal
  <2>1. h.id \in Ids /\ ex[h.id].st \in RowStatus /\ ex[h.id].q \in 0..Qty
    BY <1>4, LandedStatus DEF WaitFinal, Typed, TypeOK, FrameOK, OrderState
  <2>2. h' \in Frame /\ db' \in [Trades -> TradeRecord]
    BY <1>4, <2>1 DEF WaitFinal, Typed, TypeOK, Frame
  <2>3. FrameOK'
    BY <1>4 DEF WaitFinal, GoTo, FrameOK, Typed
  <2>4. HandlerVarsTyped'
    BY <1>4, <2>2, <2>3, GoToTyped DEF WaitFinal, Pc, ConfirmPc
  <2>5. DiskVarsTyped'
    BY <1>4, <2>1, DiskRow DEF WaitFinal, exchange
  <2> QED
    BY <2>4, <2>5, TypedPartsNext
<1>5. CASE WaitFails
  <2>1. FrameOK'
    BY <1>5 DEF WaitFails, GoTo, FrameOK, Typed
  <2>2. h' \in Frame /\ db' \in [Trades -> TradeRecord]
    BY <1>5 DEF WaitFails, Typed, TypeOK
  <2>3. HandlerVarsTyped'
    BY <1>5, <2>1, <2>2, GoToTyped DEF WaitFails, Pc, EntryPc, ConfirmPc, RecoveryPc, GuardPc
  <2>4. DiskVarsTyped'
    BY <1>5, DiskSame DEF WaitFails, exchange
  <2> QED
    BY <2>3, <2>4, TypedPartsNext
<1>6. CASE ConfirmFill
  <2>1. cur /= 0
    BY <1>6 DEF ConfirmFill, Typed, FrameOK
  <2>2. HandlerVarsTyped'
    BY <1>6, <2>1, AdoptTyped, MarkFilledTyped, ReturnStateTyped, StateNames DEF ConfirmFill
  <2>3. DiskVarsTyped'
    BY <1>6, DiskSame DEF ConfirmFill, exchange
  <2> QED
    BY <2>2, <2>3, TypedPartsNext
<1>7. CASE ConfirmFails
  BY <1>7, RaiseTyped DEF ConfirmFails
<1> QED
  BY <1>1, <1>2, <1>3, <1>4, <1>5, <1>6, <1>7

LEMMA BeginCloseTyped ==
  ASSUME Typed, cur /= 0, NEW where \in {"close", "final"}, BeginClose(where)
  PROVE  HandlerVarsTyped'
<1>1. cur \in Trades /\ db[cur] \in TradeRecord
  BY DEF Typed, TypeOK, Trades
<1>2. [db[cur] EXCEPT !.st = "CLOSING", !.cr = TRUE] \in TradeRecord
  BY <1>1, StateNames DEF TradeRecord
<1>3. db' \in [Trades -> TradeRecord]
  BY <1>1, <1>2 DEF BeginClose, Typed, TypeOK
<1>4. FrameOK' /\ h' \in Frame
  BY DEF BeginClose, GoTo, FrameOK, HasTrade, HasOrder, Typed, TypeOK, EntryPc, GuardPc
<1> QED
  BY <1>3, <1>4, GoToTyped DEF BeginClose, Pc, GuardPc

LEMMA GuardTyped == Typed /\ Guard => Typed'
<1> SUFFICES ASSUME Typed, Guard PROVE Typed'
  OBVIOUS
<1> USE DEF HasTrade, HasOrder, EntryPc, GuardPc
<1>1. CASE Protect
  <2>1. cur /= 0
    BY <1>1 DEF Protect, Typed, FrameOK
  <2>2. db' \in [Trades -> TradeRecord]
    BY <1>1, <2>1, WithStateTyped, StateNames DEF Protect, Typed
  <2>3. FrameOK' /\ h' \in Frame
    BY <1>1, <2>1 DEF Protect, GoTo, FrameOK, Typed, TypeOK
  <2>4. HandlerVarsTyped'
    BY <1>1, <2>2, <2>3, GoToTyped DEF Protect, Pc
  <2> QED
    BY <1>1, <2>4, DiskSame, TypedPartsNext DEF Protect, exchange
<1>2. CASE StopPlaced
  <2>1. cur \in Trades /\ db[cur] \in TradeRecord
    BY <1>2 DEF StopPlaced, Typed, TypeOK, FrameOK, Trades
  <2>2. [db[cur] EXCEPT !.st = "PROTECTED", !.sl = cur] \in TradeRecord
    <3>1. cur \in 0..MaxTrades
      BY DEF Typed, TypeOK
    <3> QED
      BY <2>1, <3>1, StateNames DEF TradeRecord
  <2>3. [db EXCEPT ![cur].st = "PROTECTED", ![cur].sl = cur] \in [Trades -> TradeRecord]
    BY <2>1, <2>2 DEF Typed, TypeOK
  <2>4. HandlerVarsTyped'
    BY <1>2, <2>3, ReturnTyped DEF StopPlaced
  <2>5. DiskVarsTyped'
    BY <1>2, <2>1 DEF StopPlaced, Typed, TypeOK, DiskVarsTyped
  <2> QED
    BY <2>4, <2>5, TypedPartsNext
<1>3. CASE StopRefused
  <2>1. HandlerVarsTyped'
    BY <1>3, BeginCloseTyped DEF StopRefused, FrameOK, Typed
  <2> QED
    BY <1>3, <2>1, DiskSame, TypedPartsNext DEF StopRefused, exchange
<1>4. CASE CloseOrder
  <2>1. FrameOK' /\ h' \in Frame /\ db' \in [Trades -> TradeRecord]
    BY <1>4 DEF CloseOrder, GoTo, FrameOK, Typed, TypeOK
  <2>2. HandlerVarsTyped'
    BY <1>4, <2>1, GoToTyped DEF CloseOrder, Pc
  <2>3. DiskVarsTyped'
    BY <1>4 DEF CloseOrder, Typed, TypeOK, DiskVarsTyped
  <2> QED
    BY <2>2, <2>3, TypedPartsNext
<1>5. CASE CloseSeen
  <2>1. FrameOK'
    BY <1>5 DEF CloseSeen, GoTo, FrameOK, Typed
  <2>2. h' \in Frame /\ db' \in [Trades -> TradeRecord]
    BY <1>5 DEF CloseSeen, Typed, TypeOK
  <2>3. HandlerVarsTyped'
    BY <1>5, <2>1, <2>2, GoToTyped DEF CloseSeen, Pc, EntryPc, ConfirmPc, RecoveryPc, GuardPc
  <2>4. DiskVarsTyped'
    BY <1>5, DiskSame DEF CloseSeen, exchange
  <2> QED
    BY <2>3, <2>4, TypedPartsNext
<1>6. CASE CloseFails
  <2>1. HandlerVarsTyped'
    BY <1>6, ReturnStateTyped, StateNames DEF CloseFails, FrameOK, Typed
  <2>2. DiskVarsTyped'
    BY <1>6, DiskSame DEF CloseFails, exchange
  <2> QED
    BY <2>1, <2>2, TypedPartsNext
<1>7. CASE Finalize
  <2>1. HandlerVarsTyped'
    BY <1>7, ReturnStateTyped, StateNames DEF Finalize, FrameOK, Typed
  <2>2. stops' \subseteq Trades
    BY <1>7 DEF Finalize, Typed, TypeOK
  <2>3. bud' \in Budget
    BY <1>7, FaultTyped DEF Finalize, Typed, TypeOK
  <2>4. DiskVarsTyped'
    BY <1>7, <2>2, <2>3 DEF Finalize, Typed, TypeOK, DiskVarsTyped
  <2> QED
    BY <2>1, <2>4, TypedPartsNext
<1> QED
  BY <1>1, <1>2, <1>3, <1>4, <1>5, <1>6, <1>7 DEF Guard

\* With at most one open record the newest one is that record.
LEMMA NewestIsOpen ==
  ASSUME TypeOK, OneActive
  PROVE  /\ Newest \in 0..MaxTrades
         /\ Newest /= 0 => Active(Newest)
         /\ \A t \in Trades : Active(t) => t = Newest
<1>1. CASE \E t \in Trades : Active(t)
  <2>1. PICK t \in Trades : Active(t)
    BY <1>1
  <2>2. \A u \in Trades : Active(u) => u = t
    BY <2>1 DEF OneActive
  <2>3. t \in Int
    BY DEF Trades
  <2>4. \A u \in Trades : (/\ Active(u)
                           /\ \A v \in Trades : Active(v) => v <= u) <=> u = t
    BY <2>1, <2>2, <2>3
  <2>5. Newest = t
    BY <1>1, <2>1, <2>4 DEF Newest
  <2> QED
    BY <2>1, <2>2, <2>5 DEF Trades
<1>2. CASE ~ \E t \in Trades : Active(t)
  BY <1>2 DEF Newest
<1> QED
  BY <1>1, <1>2

LEMMA NewestIsCur ==
  ASSUME TypeOK, OneActive, CurActive, pc /= "down"
  PROVE  Newest = cur
<1>1. cur = 0 \/ cur \in Trades
  BY DEF TypeOK, Trades
<1>2. Newest = 0 \/ Newest \in Trades
  BY NewestIsOpen DEF Trades
<1> QED
  BY <1>1, <1>2, NewestIsOpen DEF CurActive, OneActive

\* Recovery closes the other open records: there are none.
LEMMA QuerySame ==
  ASSUME TypeOK, OneActive, CurActive, Query
  PROVE  Newest = cur /\ db' = db /\ cur' = cur
<1>1. Newest = cur
  BY NewestIsCur DEF Query
<1>2. \A t \in Trades : Active(t) => t = cur
  BY DEF Query, OneActive
<1>3. db = [t \in Trades |-> db[t]]
  BY DEF TypeOK
<1> QED
  BY <1>1, <1>2, <1>3 DEF Query

LEMMA QueryTyped ==
  ASSUME Typed, OneActive, CurActive, Query \/ QueryFails
  PROVE  Typed'
<1> USE DEF HasTrade, HasOrder, EntryPc, GuardPc
<1>1. CASE Query
  <2>1. Newest = cur
    BY <1>1, QuerySame DEF Typed
  <2>2. cur = 0 \/ cur \in Trades
    BY DEF Typed, TypeOK, Trades
  <2>3. db' = db /\ cur' = cur
    BY <1>1, QuerySame DEF Typed
  <2>4. ASSUME cur /= 0, ~db[cur].filled,
               db[cur].att > 0, row[<<cur, db[cur].att>>] \in Unresolved
        PROVE  <<cur, db[cur].att>> \in Ids
    <3>1. db[cur] \in TradeRecord
      BY <2>2, <2>4 DEF Typed, TypeOK
    <3> QED
      BY <2>2, <2>4, <3>1 DEF Ids, TradeRecord
  <2>5. h' \in Frame /\ pc' \in {"r7", "resolve", "r10b"}
        /\ (pc' = "resolve" => cur /= 0 /\ h'.id \in Ids)
    <3>1. pos \in Int /\ stops \in SUBSET Trades /\ NoId \in Ids \union {NoId}
      BY DEF Typed, TypeOK
    <3>2. h \in Frame
      BY DEF Typed, TypeOK
    <3>3. CASE cur = 0 \/ db[cur].filled
      BY <1>1, <2>1, <3>1, <3>2, <3>3, ZenonT(30) DEF Query, Frame
    <3>4. CASE cur /= 0 /\ ~db[cur].filled /\ db[cur].att > 0
               /\ row[<<cur, db[cur].att>>] \in Unresolved
      BY <1>1, <2>1, <2>4, <3>1, <3>2, <3>4, ZenonT(30) DEF Query, Frame
    <3>5. CASE cur /= 0 /\ ~db[cur].filled
               /\ ~(db[cur].att > 0 /\ row[<<cur, db[cur].att>>] \in Unresolved)
      BY <1>1, <2>1, <3>1, <3>2, <3>5, ZenonT(30) DEF Query, Frame
    <3> QED
      BY <3>3, <3>4, <3>5
  <2>6. FrameOK'
    BY <2>3, <2>5 DEF FrameOK
  <2>7. HandlerVarsTyped'
    BY <1>1, <2>3, <2>5, <2>6 DEF Query, Typed, TypeOK, HandlerVarsTyped, Pc, RecoveryPc, ConfirmPc
  <2> QED
    BY <1>1, <2>7, DiskSame, TypedPartsNext DEF Query, exchange
<1>2. CASE QueryFails
  <2>1. h' \in Frame /\ FrameOK'
    BY <1>2, NoFrameTyped DEF QueryFails, FrameOK
  <2>2. HandlerVarsTyped'
    BY <1>2, <2>1 DEF QueryFails, Typed, TypeOK, HandlerVarsTyped, Pc
  <2>3. bud' \in Budget
    <3>1. PICK late \in BOOLEAN : bud' = [bud EXCEPT !.fault = @ + 1, !.hasty = late]
      BY <1>2 DEF QueryFails
    <3> QED
      <4>1. bud \in Budget /\ bud.fault < MaxFaults
        BY <1>2 DEF QueryFails, Typed, TypeOK
      <4>2. bud.fault + 1 \in 0..MaxFaults
        BY <4>1, BoundsAssumption DEF Budget
      <4> QED
        BY <3>1, <4>1, <4>2, Zenon DEF Budget
  <2>4. DiskVarsTyped'
    BY <1>2, <2>3 DEF QueryFails, exchange, Typed, TypeOK, DiskVarsTyped
  <2> QED
    BY <2>2, <2>4, TypedPartsNext
<1> QED
  BY <1>1, <1>2

LEMMA StaleTyped ==
  Typed /\ (ResolveMiss \/ StaleFound \/ StaleNotFound \/ StaleUnresolved \/ StalePending)
    => Typed'
<1> SUFFICES ASSUME Typed,
                    ResolveMiss \/ StaleFound \/ StaleNotFound \/ StaleUnresolved \/ StalePending
             PROVE  Typed'
  OBVIOUS
<1> USE DEF HasTrade, HasOrder, EntryPc, GuardPc
<1>1. CASE ResolveMiss
  <2>1. h.miss + 1 \in 0..2
    BY <1>1 DEF ResolveMiss, Typed, TypeOK, Frame
  <2>2. h' \in Frame /\ h'.id = h.id /\ h'.ret = h.ret
    BY <1>1, <2>1 DEF ResolveMiss, Typed, TypeOK, Frame
  <2>3. FrameOK' /\ db' \in [Trades -> TradeRecord]
    BY <1>1, <2>2 DEF ResolveMiss, Lookup, GoTo, FrameOK, Typed, TypeOK
  <2>4. HandlerVarsTyped'
    BY <1>1, <2>2, <2>3, GoToTyped DEF ResolveMiss, Pc, ConfirmPc
  <2> QED
    BY <1>1, <2>4, DiskSame, TypedPartsNext DEF ResolveMiss, Lookup, exchange
<1>2. CASE StaleFound
  <2>1. h.id \in Ids /\ cur /= 0 /\ db \in [Trades -> TradeRecord]
    BY <1>2 DEF StaleFound, Lookup, Typed, TypeOK, FrameOK
  <2>2. ex[h.id].st \in RowStatus
    BY <1>2, <2>1, LandedStatus DEF StaleFound
  <2>3. DiskVarsTyped'
    BY <1>2, <2>1, <2>2, DiskRow DEF StaleFound, Lookup, exchange
  <2>4. CASE /\ db' = IF db[cur].st \in {"ENTRY_PENDING", "RECOVERY_REQUIRED"} THEN db
                      ELSE WithState("RECOVERY_REQUIRED")
             /\ GoTo("wait")
             /\ UNCHANGED h
    <3>1. db' \in [Trades -> TradeRecord]
      BY <2>1, <2>4, WithStateTyped, StateNames DEF Typed
    <3>2. ex' = ex /\ Landed(h.id)
      BY <1>2 DEF StaleFound, Lookup, exchange
    <3>3. FrameOK' /\ h' \in Frame
      BY <2>1, <2>4, <3>2 DEF GoTo, FrameOK, Landed, Typed, TypeOK
    <3> QED
      BY <2>3, <2>4, <3>1, <3>3, GoToTyped, TypedPartsNext DEF Pc, ConfirmPc
  <2>5. CASE Return(WithState("CLOSED"))
    BY <2>1, <2>3, <2>5, ReturnStateTyped, StateNames, TypedPartsNext
  <2>6. CASE Return(db)
    BY <2>1, <2>3, <2>6, ReturnTyped, TypedPartsNext
  <2> QED
    BY <1>2, <2>4, <2>5, <2>6 DEF StaleFound
<1>3. CASE StaleNotFound
  <2>1. h.id \in Ids /\ cur /= 0 /\ db \in [Trades -> TradeRecord]
    BY <1>3 DEF StaleNotFound, Lookup, Typed, TypeOK, FrameOK
  <2>2. DiskVarsTyped'
    BY <1>3, <2>1, DiskRow DEF StaleNotFound, Lookup, exchange, RowStatus
  <2>3. HandlerVarsTyped'
    BY <1>3, <2>1, ReturnTyped, ReturnStateTyped, StateNames DEF StaleNotFound
  <2> QED
    BY <2>2, <2>3, TypedPartsNext
<1>4. CASE StaleUnresolved
  <2>1. FrameOK'
    BY <1>4 DEF StaleUnresolved, FrameOK
  <2>2. HandlerVarsTyped'
    BY <1>4, <2>1 DEF StaleUnresolved, Typed, TypeOK, HandlerVarsTyped, Pc, RecoveryPc
  <2> QED
    BY <1>4, <2>2, DiskSame, TypedPartsNext DEF StaleUnresolved, exchange
<1>5. CASE StalePending
  <2>1. db' \in [Trades -> TradeRecord]
    BY <1>5, WithStateTyped, StateNames DEF StalePending, Typed, TypeOK
  <2>2. h' \in Frame
    <3>1. 0 \in 0..2 /\ 0 \in 0..Qty
      OBVIOUS
    <3> QED
      BY <1>5, <3>1 DEF StalePending, Typed, TypeOK, Frame
  <2>3. FrameOK'
    BY <1>5 DEF StalePending, FrameOK
  <2>4. cur' \in 0..MaxTrades
    BY <1>5 DEF StalePending, Typed, TypeOK
  <2>5. HandlerVarsTyped'
    BY <1>5, <2>1, <2>2, <2>3, <2>4 DEF StalePending, Typed, TypeOK, HandlerVarsTyped, Pc, RecoveryPc
  <2> QED
    BY <1>5, <2>5, DiskSame, TypedPartsNext DEF StalePending, exchange
<1> QED
  BY <1>1, <1>2, <1>3, <1>4, <1>5

LEMMA AdoptionTyped ==
  Typed /\ (Orphan \/ AdoptNew \/ AdoptRecovery \/ AdoptGuard) => Typed'
<1> SUFFICES ASSUME Typed, Orphan \/ AdoptNew \/ AdoptRecovery \/ AdoptGuard
             PROVE  Typed'
  OBVIOUS
<1> USE DEF HasTrade, HasOrder, EntryPc, GuardPc
<1>1. CASE Orphan
  <2>1. db' \in [Trades -> TradeRecord]
    BY <1>1, WithStateTyped, StateNames DEF Orphan, Typed, TypeOK
  <2>2. FrameOK'
    BY <1>1 DEF Orphan, FrameOK
  <2>3. HandlerVarsTyped'
    BY <1>1, <2>1, <2>2 DEF Orphan, Typed, TypeOK, HandlerVarsTyped, Pc, RecoveryPc
  <2> QED
    BY <1>1, <2>3, DiskSame, TypedPartsNext DEF Orphan, Step7, exchange
<1>2. CASE AdoptNew
  <2>1. PICK n \in Trades :
          /\ Fresh(n) /\ cur' = n
          /\ db' = [db EXCEPT ![n].st = "IDLE", ![n].adopted = TRUE, ![n].dir = Sgn(h.qty)]
    BY <1>2 DEF AdoptNew
  <2>2. db' \in [Trades -> TradeRecord]
    <3>1. Sgn(h.qty) \in {-1, 1}
      <4>1. h.qty \in Int
        BY DEF Typed, TypeOK, Frame
      <4>2. h.qty /= 0
        BY <1>2 DEF AdoptNew, Typed, FrameOK
      <4> QED
        BY <4>1, <4>2 DEF Sgn
    <3>2. db[n] \in TradeRecord
      BY DEF Typed, TypeOK
    <3>3. [db[n] EXCEPT !.st = "IDLE", !.adopted = TRUE, !.dir = Sgn(h.qty)] \in TradeRecord
      BY <3>1, <3>2, StateNames DEF TradeRecord
    <3> QED
      BY <2>1, <3>3 DEF Typed, TypeOK
  <2>3. cur' \in 0..MaxTrades /\ cur' /= 0
    BY <2>1 DEF Trades
  <2>4. FrameOK'
    BY <1>2, <2>3 DEF AdoptNew, FrameOK
  <2>5. HandlerVarsTyped'
    BY <1>2, <2>2, <2>3, <2>4 DEF AdoptNew, Typed, TypeOK, HandlerVarsTyped, Pc, RecoveryPc
  <2> QED
    BY <1>2, <2>5, DiskSame, TypedPartsNext DEF AdoptNew, exchange
<1>3. CASE AdoptRecovery
  <2>1. cur /= 0
    BY <1>3 DEF AdoptRecovery, Typed, FrameOK
  <2>2. db' \in [Trades -> TradeRecord]
    BY <1>3, <2>1, WithStateTyped, StateNames DEF AdoptRecovery, Typed
  <2>3. FrameOK' /\ h' \in Frame
    BY <1>3, <2>1 DEF AdoptRecovery, GoTo, FrameOK, Typed, TypeOK
  <2>4. HandlerVarsTyped'
    BY <1>3, <2>2, <2>3, GoToTyped DEF AdoptRecovery, Pc, RecoveryPc
  <2> QED
    BY <1>3, <2>4, DiskSame, TypedPartsNext DEF AdoptRecovery, exchange
<1>4. CASE AdoptGuard
  <2>1. cur \in Trades /\ db[cur] \in TradeRecord /\ h.algos \subseteq 0..MaxTrades
    BY <1>4 DEF AdoptGuard, Typed, TypeOK, FrameOK, Trades, Frame
  <2>2. db' \in [Trades -> TradeRecord]
    <3>1. [db[cur] EXCEPT !.filled = TRUE, !.st = "CLOSING", !.cr = TRUE] \in TradeRecord
      BY <2>1, StateNames DEF TradeRecord
    <3>2. [db[cur] EXCEPT !.filled = TRUE, !.st = "PROTECTING"] \in TradeRecord
      BY <2>1, StateNames DEF TradeRecord
    <3>3. \A s \in h.algos :
            [db[cur] EXCEPT !.filled = TRUE, !.st = "PROTECTED", !.sl = s] \in TradeRecord
      BY <2>1, StateNames DEF TradeRecord
    <3>4. \/ db' = [db EXCEPT ![cur] = [db[cur] EXCEPT !.filled = TRUE, !.st = "CLOSING", !.cr = TRUE]]
          \/ db' = [db EXCEPT ![cur] = [db[cur] EXCEPT !.filled = TRUE, !.st = "PROTECTING"]]
          \/ \E s \in h.algos :
               db' = [db EXCEPT ![cur] = [db[cur] EXCEPT !.filled = TRUE, !.st = "PROTECTED", !.sl = s]]
      BY <1>4, <2>1 DEF AdoptGuard, Typed, TypeOK
    <3> QED
      BY <2>1, <3>1, <3>2, <3>3, <3>4 DEF Typed, TypeOK
  <2>3. pc' \in {"close", "r8", "guard"}
    BY <1>4 DEF AdoptGuard
  <2>4. FrameOK'
    BY <1>4, <2>1, <2>3 DEF AdoptGuard, FrameOK, Trades
  <2>5. HandlerVarsTyped'
    BY <1>4, <2>2, <2>3, <2>4 DEF AdoptGuard, Typed, TypeOK, HandlerVarsTyped, Pc, RecoveryPc
  <2> QED
    BY <1>4, <2>5, DiskSame, TypedPartsNext DEF AdoptGuard, exchange
<1> QED
  BY <1>1, <1>2, <1>3, <1>4

LEMMA StepsNineElevenTyped ==
  Typed /\ (DirectionMismatch \/ ResumeClose \/ ProtectAgain \/ StopInPlace
             \/ ClosedOffline \/ NothingHeld) => Typed'
<1> SUFFICES ASSUME Typed,
                    DirectionMismatch \/ ResumeClose \/ ProtectAgain \/ StopInPlace
                      \/ ClosedOffline \/ NothingHeld
             PROVE  Typed'
  OBVIOUS
<1> USE DEF HasTrade, HasOrder, EntryPc, GuardPc
<1>1. DiskVarsTyped'
  <2>1. UNCHANGED <<ex, pos, stops, row, bud>>
    BY DEF DirectionMismatch, ResumeClose, ProtectAgain, StopInPlace, ClosedOffline,
           NothingHeld, SameWay, Step7, exchange
  <2> QED
    BY <2>1, DiskSame
<1>2. CASE DirectionMismatch
  <2>1. db' \in [Trades -> TradeRecord]
    BY <1>2, WithStateTyped, StateNames DEF DirectionMismatch, Owned, Typed
  <2>2. FrameOK'
    BY <1>2 DEF DirectionMismatch, FrameOK
  <2>3. HandlerVarsTyped'
    BY <1>2, <2>1, <2>2 DEF DirectionMismatch, Typed, TypeOK, HandlerVarsTyped, Pc, RecoveryPc
  <2> QED
    BY <1>1, <2>3, TypedPartsNext
<1>3. CASE ResumeClose
  <2>1. HandlerVarsTyped'
    BY <1>3, BeginCloseTyped DEF ResumeClose, SameWay, Owned
  <2> QED
    BY <1>1, <2>1, TypedPartsNext
<1>4. CASE ProtectAgain
  <2>1. cur /= 0
    BY <1>4 DEF ProtectAgain, SameWay, Owned
  <2>2. db' \in [Trades -> TradeRecord]
    BY <1>4, <2>1, WithStateTyped, StateNames DEF ProtectAgain, Typed
  <2>3. FrameOK' /\ h' \in Frame
    BY <1>4, <2>1 DEF ProtectAgain, GoTo, FrameOK, Typed, TypeOK
  <2>4. HandlerVarsTyped'
    BY <1>4, <2>2, <2>3, GoToTyped DEF ProtectAgain, Pc
  <2> QED
    BY <1>1, <2>4, TypedPartsNext
<1>5. CASE StopInPlace
  <2>1. cur \in Trades /\ db[cur] \in TradeRecord /\ cur \in 0..MaxTrades
    BY <1>5 DEF StopInPlace, SameWay, Owned, Typed, TypeOK, Trades
  <2>2. \A s \in TradeState \union {"none"} :
          [db[cur] EXCEPT !.st = s, !.sl = cur] \in TradeRecord
    BY <2>1 DEF TradeRecord
  <2>3. (IF db[cur].st \in Holding THEN db[cur].st ELSE "PROTECTED") \in TradeState \union {"none"}
    BY <2>1, StateNames DEF TradeRecord
  <2>4. [db EXCEPT ![cur].st = IF @ \in Holding THEN @ ELSE "PROTECTED", ![cur].sl = cur]
          \in [Trades -> TradeRecord]
    BY <2>1, <2>2, <2>3 DEF Typed, TypeOK
  <2>5. HandlerVarsTyped'
    BY <1>5, <2>4, ReturnTyped DEF StopInPlace
  <2> QED
    BY <1>1, <2>5, TypedPartsNext
<1>6. CASE ClosedOffline
  <2>1. HandlerVarsTyped'
    BY <1>6, BeginCloseTyped DEF ClosedOffline, Owned
  <2> QED
    BY <1>1, <2>1, TypedPartsNext
<1>7. CASE NothingHeld
  <2>1. FrameOK' /\ h' \in Frame /\ db' \in [Trades -> TradeRecord]
    BY <1>7 DEF NothingHeld, GoTo, FrameOK, Typed, TypeOK
  <2>2. HandlerVarsTyped'
    BY <1>7, <2>1, GoToTyped DEF NothingHeld, Pc, RecoveryPc
  <2> QED
    BY <1>1, <2>2, TypedPartsNext
<1> QED
  BY <1>2, <1>3, <1>4, <1>5, <1>6, <1>7

LEMMA SweepTyped ==
  Typed /\ (OrphanOrders \/ SweepNext \/ SweepResolve \/ Finish) => Typed'
<1> SUFFICES ASSUME Typed, OrphanOrders \/ SweepNext \/ SweepResolve \/ Finish
             PROVE  Typed'
  OBVIOUS
<1> USE DEF HasTrade, HasOrder, EntryPc, GuardPc
<1>1. CASE OrphanOrders
  <2>1. PICK part \in SUBSET Ids, cut \in SUBSET stops, todo \in SUBSET Ids :
          /\ ex' = [i \in Ids |-> IF i \in part THEN [ex[i] EXCEPT !.st = "CANCELED"] ELSE ex[i]]
          /\ row' = [i \in Ids |-> IF i \in part /\ row[i] /= "none" THEN "CANCELED" ELSE row[i]]
          /\ stops' = stops \ cut
          /\ h' = [h EXCEPT !.todo = todo, !.ret = "sweep"]
    <3> DEFINE gone == {i \in Ids : ex[i].st \in Resting /\ i[1] /= cur}
    <3>1. PICK part \in SUBSET gone, cut \in SUBSET (stops \ {cur}), todo \in SUBSET OpenRows :
            /\ ex' = [i \in Ids |-> IF i \in part THEN [ex[i] EXCEPT !.st = "CANCELED"] ELSE ex[i]]
            /\ row' = [i \in Ids |-> IF i \in part /\ row[i] /= "none" THEN "CANCELED" ELSE row[i]]
            /\ stops' = stops \ cut
            /\ h' = [h EXCEPT !.todo = todo, !.ret = "sweep"]
      BY <1>1 DEF OrphanOrders
    <3>2. part \in SUBSET Ids /\ cut \in SUBSET stops /\ todo \in SUBSET Ids
      BY DEF OpenRows
    <3> QED
      BY <3>1, <3>2
  <2>2. ex' \in [Ids -> OrderState]
    <3>1. \A i \in Ids : [ex[i] EXCEPT !.st = "CANCELED"] \in OrderState
      BY DEF Typed, TypeOK, OrderState, Final
    <3> QED
      BY <2>1, <3>1 DEF Typed, TypeOK
  <2>3. row' \in [Ids -> RowStatus]
    <3>1. "CANCELED" \in RowStatus
      BY DEF RowStatus, Final
    <3> QED
      BY <2>1, <3>1 DEF Typed, TypeOK
  <2>4. stops' \subseteq Trades /\ pos' = pos
    BY <1>1, <2>1 DEF OrphanOrders, Typed, TypeOK
  <2>5. bud' \in Budget
    BY <1>1, FaultTyped DEF OrphanOrders, Typed, TypeOK
  <2>9. DiskVarsTyped'
    BY <2>2, <2>3, <2>4, <2>5 DEF Typed, TypeOK, DiskVarsTyped
  <2>6. h' \in Frame /\ h'.ret = "sweep"
    BY <2>1 DEF Typed, TypeOK, Frame
  <2>7. FrameOK' /\ db' \in [Trades -> TradeRecord]
    BY <1>1, <2>6 DEF OrphanOrders, GoTo, FrameOK, Typed, TypeOK
  <2>8. HandlerVarsTyped'
    BY <1>1, <2>6, <2>7, GoToTyped DEF OrphanOrders, Pc, RecoveryPc
  <2> QED
    BY <2>8, <2>9, TypedPartsNext
<1>2. CASE SweepNext
  <2>1. PICK i \in Ids : h' = [h EXCEPT !.id = i]
    BY <1>2 DEF SweepNext, Typed, TypeOK, Frame
  <2>2. h' \in Frame /\ h'.id \in Ids /\ h'.ret = "sweep"
    BY <1>2, <2>1 DEF SweepNext, Typed, TypeOK, FrameOK, Frame
  <2>3. FrameOK' /\ db' \in [Trades -> TradeRecord]
    BY <1>2, <2>2 DEF SweepNext, GoTo, FrameOK, Typed, TypeOK
  <2>4. HandlerVarsTyped'
    BY <1>2, <2>2, <2>3, GoToTyped DEF SweepNext, Pc, ConfirmPc
  <2> QED
    BY <1>2, <2>4, DiskSame, TypedPartsNext DEF SweepNext, exchange
<1>3. CASE SweepResolve
  <2>1. h.id \in Ids
    BY <1>3 DEF SweepResolve, Typed, FrameOK
  <2>2. PICK s \in RowStatus : SweepDone(s)
    <3>1. row[h.id] \in RowStatus /\ "NOT_PLACED" \in RowStatus
      BY <2>1 DEF Typed, TypeOK, RowStatus
    <3>2. Landed(h.id) => ex[h.id].st \in RowStatus
      BY <2>1, LandedStatus
    <3> QED
      BY <1>3, <3>1, <3>2 DEF SweepResolve
  <2>3. UNCHANGED <<ex, pos, stops>> /\ (bud' = bud \/ Fault) /\ db' = db
    BY <1>3 DEF SweepResolve, Lookup, exchange
  <2>4. DiskVarsTyped'
    BY <2>1, <2>2, <2>3, DiskRow DEF SweepDone
  <2>5. h' \in Frame /\ h'.ret = "sweep"
    <3>1. 0 \in 0..2 /\ h.todo \ {h.id} \in SUBSET Ids
      BY DEF Typed, TypeOK, Frame
    <3> QED
      BY <1>3, <2>2, <3>1 DEF SweepResolve, SweepDone, Typed, TypeOK, Frame
  <2>6. FrameOK' /\ db' \in [Trades -> TradeRecord]
    BY <2>2, <2>3, <2>5 DEF SweepDone, GoTo, FrameOK, Typed, TypeOK
  <2>7. HandlerVarsTyped'
    BY <2>2, <2>5, <2>6, GoToTyped DEF SweepDone, Pc, RecoveryPc
  <2> QED
    BY <2>4, <2>7, TypedPartsNext
<1>4. CASE Finish
  <2>1. FrameOK' /\ h' \in Frame
    BY <1>4, NoFrameTyped DEF Finish, FrameOK
  <2>2. HandlerVarsTyped'
    BY <1>4, <2>1 DEF Finish, Typed, TypeOK, HandlerVarsTyped, Pc
  <2> QED
    BY <1>4, <2>2, DiskSame, TypedPartsNext DEF Finish, exchange
<1> QED
  BY <1>1, <1>2, <1>3, <1>4

LEMMA ProcessTyped ==
  ASSUME Typed, OneActive, Events \/ Reconcile \/ Crash \/ Restart
  PROVE  Typed'
<1> USE DEF HasTrade, HasOrder, EntryPc, GuardPc
<1>1. CASE BarExit
  <2>1. HandlerVarsTyped'
    BY <1>1, BeginCloseTyped DEF BarExit
  <2> QED
    BY <1>1, <2>1, DiskSame, TypedPartsNext DEF BarExit, exchange
<1>2. CASE NoticeFlat
  <2>1. HandlerVarsTyped'
    BY <1>2, BeginCloseTyped DEF NoticeFlat
  <2> QED
    BY <1>2, <2>1, DiskSame, TypedPartsNext DEF NoticeFlat, exchange
<1>3. ASSUME NEW i \in Ids, UserEvent(i) PROVE Typed'
  <2>1. ex[i].st \in RowStatus
    BY <1>3, LandedStatus DEF UserEvent
  <2>2. HandlerVarsTyped'
    BY <1>3, HandlersSame DEF UserEvent, memory, exchange, Landed
  <2>3. DiskVarsTyped'
    BY <1>3, <2>1, DiskRow DEF UserEvent, exchange
  <2> QED
    BY <2>2, <2>3, TypedPartsNext
<1>4. CASE Reconcile
  <2>1. h' \in Frame
    BY <1>4 DEF Reconcile, NoFrame, Frame
  <2>2. FrameOK' /\ db' \in [Trades -> TradeRecord]
    BY <1>4 DEF Reconcile, GoTo, FrameOK, Typed, TypeOK
  <2>3. HandlerVarsTyped'
    BY <1>4, <2>1, <2>2, GoToTyped DEF Reconcile, Pc, RecoveryPc
  <2> QED
    BY <1>4, <2>3, DiskSame, TypedPartsNext DEF Reconcile, exchange
<1>5. CASE Crash
  <2>1. FrameOK' /\ h' \in Frame
    BY <1>5, NoFrameTyped DEF Crash, ProcessDown, FrameOK
  <2>2. HandlerVarsTyped'
    <3>1. db' = db /\ cur' = 0 /\ ta' = FALSE /\ halts' = {} /\ pc' = "down"
      BY <1>5 DEF Crash, ProcessDown
    <3>2. db' \in [Trades -> TradeRecord] /\ 0 \in 0..MaxTrades
      BY <3>1 DEF Typed, TypeOK
    <3> QED
      BY <2>1, <3>1, <3>2 DEF HandlerVarsTyped, Pc
  <2>3. bud' \in Budget
    BY <1>5, BoundsAssumption DEF Crash, Typed, TypeOK, Budget
  <2>4. DiskVarsTyped'
    BY <1>5, <2>3 DEF Crash, Typed, TypeOK, DiskVarsTyped, exchange
  <2> QED
    BY <2>2, <2>4, TypedPartsNext
<1>6. CASE Restart
  <2>1. cur' \in 0..MaxTrades
    BY <1>6, NewestIsOpen DEF Restart, Typed
  <2>2. h' \in Frame
    BY <1>6, NoFrameTyped DEF Restart, NoFrame, Frame
  <2>3. FrameOK'
    BY <1>6 DEF Restart, FrameOK
  <2>4. HandlerVarsTyped'
    BY <1>6, <2>1, <2>2, <2>3 DEF Restart, Typed, TypeOK, HandlerVarsTyped, Pc, RecoveryPc
  <2> QED
    BY <1>6, <2>4, DiskSame, TypedPartsNext DEF Restart, exchange
<1> QED
  BY <1>1, <1>2, <1>3, <1>4, <1>5, <1>6 DEF Events

LEMMA NextTyped ==
  ASSUME Typed, OneActive, CurActive, [Next]_vars
  PROVE  Typed'
<1>1. CASE Next
  <2>1. CASE Recovery
    BY <2>1, QueryTyped, StaleTyped, AdoptionTyped, StepsNineElevenTyped, SweepTyped DEF Recovery
  <2>2. CASE Entry
    BY <2>2, EntryTyped, ConfirmTyped DEF Entry
  <2> QED
    BY <1>1, <2>1, <2>2, ExchangeTyped, SignalTyped, GuardTyped, ProcessTyped DEF Next
<1>2. CASE UNCHANGED vars
  <2>1. HandlerVarsTyped'
    BY <1>2, HandlersSame DEF vars, Landed
  <2>2. DiskVarsTyped'
    BY <1>2, DiskSame DEF vars
  <2> QED
    BY <2>1, <2>2, TypedPartsNext
<1> QED
  BY <1>1, <1>2

----------------------------------------------------------------------------
(* What a step can do to the trade records: nothing, one write to the trade *)
(* in memory, a new record, or the end and the start of the process.        *)

Up == pc /= "down"

Same == db' = db /\ cur' = cur /\ (Up' <=> Up)

Write(r) == /\ Up /\ Up' /\ cur \in Trades
            /\ r \in TradeRecord /\ r.st /= "none" /\ (db[cur].filled => r.filled)
            /\ r.att = db[cur].att \/ r.att = db[cur].att + 1
            /\ db' = [db EXCEPT ![cur] = r]
            /\ cur' = IF r.st = "CLOSED" THEN 0 ELSE cur

NewRecord(n, r) == /\ Up /\ Up' /\ cur = 0 /\ Fresh(n)
                   /\ r \in TradeRecord /\ r.st = "IDLE" /\ ~r.filled
                   /\ db' = [db EXCEPT ![n] = r] /\ cur' = n

GoesDown == Up /\ ~Up' /\ db' = db /\ cur' = 0
GoesUp   == ~Up /\ Up' /\ db' = db /\ cur' = Newest

StepKind == \/ Same \/ GoesDown \/ GoesUp
            \/ \E r \in TradeRecord : Write(r)
            \/ \E n \in Trades, r \in TradeRecord : NewRecord(n, r)

LEMMA CurTyped ==
  ASSUME IInv, cur /= 0
  PROVE  /\ cur \in Trades /\ db[cur] \in TradeRecord
         /\ db[cur].st \in TradeState /\ db[cur].st /= "CLOSED"
         /\ db[cur].st /= "none"
<1>1. cur \in Trades /\ db[cur] \in TradeRecord
  BY DEF IInv, TypeOK, Trades
<1>2. db[cur].st /= "CLOSED" /\ db[cur].st /= "none"
  BY DEF IInv, CurActive, Active
<1> QED
  BY <1>1, <1>2 DEF TradeRecord

LEMMA StateWrite ==
  ASSUME IInv, cur /= 0, Up, Up', NEW s \in TradeState, s /= "none",
         db' = WithState(s), cur' = IF s = "CLOSED" THEN 0 ELSE cur
  PROVE  StepKind
<1> DEFINE r == [db[cur] EXCEPT !.st = s]
<1>1. cur \in Trades /\ db[cur] \in TradeRecord
  BY CurTyped
<1>2. r \in TradeRecord /\ r.st = s /\ r.filled = db[cur].filled /\ r.att = db[cur].att
  BY <1>1 DEF TradeRecord
<1>3. db' = [db EXCEPT ![cur] = r]
  BY DEF WithState
<1>4. Write(r)
  BY <1>1, <1>2, <1>3 DEF Write
<1> QED
  BY <1>2, <1>4 DEF StepKind

LEMMA RetUp ==
  ASSUME IInv, NEW d, Return(d)
  PROVE  Up'
<1>1. h.ret \in {"idle", "r10b", "r8", "sweep"}
  BY DEF IInv, TypeOK, Frame
<1> QED
  BY <1>1 DEF Return, Up

LEMMA ReturnWrite ==
  ASSUME IInv, cur /= 0, Up, NEW r \in TradeRecord, r.st /= "none",
         db[cur].filled => r.filled, r.att = db[cur].att, Return([db EXCEPT ![cur] = r])
  PROVE  StepKind
<1>1. cur \in Trades
  BY CurTyped
<1>2. [db EXCEPT ![cur] = r][cur] = r
  BY <1>1 DEF IInv, TypeOK
<1>3. cur' = (IF r.st = "CLOSED" THEN 0 ELSE cur) /\ db' = [db EXCEPT ![cur] = r]
  BY <1>2 DEF Return
<1>4. Write(r)
  BY <1>1, <1>3, RetUp DEF Write
<1> QED
  BY <1>4 DEF StepKind

LEMMA ReturnState ==
  ASSUME IInv, cur /= 0, Up, NEW s \in TradeState, s /= "none", Return(WithState(s))
  PROVE  StepKind
<1> DEFINE r == [db[cur] EXCEPT !.st = s]
<1>1. cur \in Trades /\ db[cur] \in TradeRecord
  BY CurTyped
<1>2. r \in TradeRecord /\ r.st = s /\ r.filled = db[cur].filled /\ r.att = db[cur].att
  BY <1>1 DEF TradeRecord
<1>3. WithState(s) = [db EXCEPT ![cur] = r]
  BY DEF WithState
<1> QED
  BY <1>2, <1>3, ReturnWrite

LEMMA ReturnSame ==
  ASSUME IInv, cur /= 0, Up, Return(db)
  PROVE  StepKind
<1>1. db' = db /\ cur' = cur
  BY CurTyped DEF Return
<1> QED
  BY <1>1, RetUp DEF StepKind, Same

LEMMA RaiseKind ==
  ASSUME Raise, Up
  PROVE  StepKind
  BY DEF Raise, ProcessDown, GoTo, StepKind, GoesDown, Same, Up, exchange

LEMMA SignalKind == IInv /\ Signal => StepKind
<1> SUFFICES ASSUME IInv, Signal PROVE StepKind
  OBVIOUS
<1> USE DEF Up
<1>1. CASE Arm
  <2>1. PICK n \in Trades : Fresh(n) /\ cur' = n /\ db' = [db EXCEPT ![n].st = "IDLE"]
    BY <1>1 DEF Arm, Fresh
  <2>2. db[n] = NoTrade /\ db[n] \in TradeRecord
    BY <2>1 DEF IInv, TypeOK, RecordsInOrder, Fresh
  <2> DEFINE r == [db[n] EXCEPT !.st = "IDLE"]
  <2>3. r \in TradeRecord /\ r.st = "IDLE" /\ ~r.filled
    <3>1. db[n].filled = FALSE
      BY <2>2 DEF NoTrade
    <3>2. r \in TradeRecord /\ r.st = "IDLE"
      BY <2>2, StateNames DEF TradeRecord
    <3>3. r.filled = db[n].filled
      BY <2>2 DEF TradeRecord
    <3> QED
      BY <3>1, <3>2, <3>3
  <2>4. NewRecord(n, r)
    BY <1>1, <2>1, <2>3 DEF NewRecord, Arm
  <2> QED
    BY <2>3, <2>4 DEF StepKind
<1>2. CASE ArmSignal
  BY <1>2, StateWrite, StateNames DEF ArmSignal, GoTo, IInv, FrameOK, HasTrade
<1>3. CASE ArmPending
  BY <1>3, StateWrite, StateNames DEF ArmPending, GoTo, IInv, FrameOK, HasTrade
<1>4. CASE CancelWait
  BY <1>4, ReturnState, StateNames DEF CancelWait, Waiting
<1>5. CASE Trigger
  BY <1>5 DEF Trigger, Waiting, GoTo, StepKind, Same
<1> QED
  BY <1>1, <1>2, <1>3, <1>4, <1>5 DEF Signal

LEMMA FilledKind ==
  ASSUME IInv, cur /= 0, Up, MarkFilled
  PROVE  StepKind
<1> DEFINE r == [db[cur] EXCEPT !.st = "ENTRY_FILLED", !.filled = TRUE]
<1>1. cur \in Trades /\ db[cur] \in TradeRecord
  BY CurTyped
<1>2. r \in TradeRecord /\ r.st = "ENTRY_FILLED" /\ r.filled /\ r.att = db[cur].att
  BY <1>1, StateNames DEF TradeRecord
<1>3. db' = [db EXCEPT ![cur] = r] /\ cur' = cur /\ Up'
  BY <1>1 DEF MarkFilled, GoTo, Up, IInv, TypeOK
<1>4. Write(r)
  BY <1>1, <1>2, <1>3 DEF Write
<1> QED
  BY <1>2, <1>4 DEF StepKind

LEMMA AdoptKind ==
  ASSUME IInv, cur /= 0, Up, AdoptPosition
  PROVE  StepKind
  BY FilledKind, ReturnState, StateNames DEF AdoptPosition

LEMMA EntryKind == IInv /\ Entry => StepKind
<1> SUFFICES ASSUME IInv, Entry PROVE StepKind
  OBVIOUS
<1> USE DEF Up
<1>1. CASE \/ CheckFails \/ Submit \/ Answered \/ AnswerLost \/ NotSent
           \/ EntryFound \/ EntryNotFound \/ EntryUnresolved \/ WaitFinal \/ WaitFails
  BY <1>1 DEF CheckFails, Submit, Answered, AnswerLost, NotSent, EntryFound, EntryNotFound,
              EntryUnresolved, WaitFinal, WaitFails, Lookup, GoTo, StepKind, Same
<1>2. CASE CheckRefuses \/ Refused("REJECTED") \/ Refused("NOT_PLACED")
  <2>1. cur /= 0 /\ Return(WithState("CLOSED")) /\ Up
    BY <1>2 DEF CheckRefuses, Refused, IInv, FrameOK, HasTrade, EntryPc
  <2> QED
    BY <2>1, ReturnState, StateNames
<1>3. CASE CheckPasses
  <2> DEFINE r == [db[cur] EXCEPT !.att = db[cur].att + 1]
  <2>1. cur \in Trades /\ db[cur] \in TradeRecord /\ db[cur].st \notin {"none", "CLOSED"}
    BY <1>3, CurTyped DEF CheckPasses, IInv, FrameOK, HasTrade, EntryPc
  <2>2. db[cur].att + 1 \in 0..MaxSeq
    BY <1>3, <2>1 DEF CheckPasses, TradeRecord
  <2>3. r \in TradeRecord /\ r.st = db[cur].st /\ r.filled = db[cur].filled /\ r.att = db[cur].att + 1
    BY <2>1, <2>2 DEF TradeRecord
  <2>4. db' = [db EXCEPT ![cur] = r] /\ cur' = cur /\ Up /\ Up'
    BY <1>3 DEF CheckPasses, GoTo
  <2>5. Write(r)
    BY <2>1, <2>3, <2>4 DEF Write
  <2> QED
    BY <2>3, <2>5 DEF StepKind
<1>4. CASE NotFoundNext
  BY <1>4, AdoptKind, ReturnState, ReturnSame, StateNames
     DEF NotFoundNext, IInv, FrameOK, HasTrade, EntryPc
<1>5. CASE ByPosition
  BY <1>5, AdoptKind, ReturnState, StateNames DEF ByPosition, IInv, FrameOK, HasTrade
<1>6. CASE ConfirmFill
  BY <1>6, AdoptKind, FilledKind, ReturnState, StateNames DEF ConfirmFill, IInv, FrameOK, HasTrade
<1>7. CASE NotFoundFails \/ ConfirmFails
  BY <1>7, RaiseKind DEF NotFoundFails, ConfirmFails
<1> QED
  BY <1>1, <1>2, <1>3, <1>4, <1>5, <1>6, <1>7 DEF Entry

LEMMA CloseKind ==
  ASSUME IInv, cur /= 0, Up, NEW where \in {"close", "final"}, BeginClose(where)
  PROVE  StepKind
<1> DEFINE r == [db[cur] EXCEPT !.st = "CLOSING", !.cr = TRUE]
<1>1. cur \in Trades /\ db[cur] \in TradeRecord
  BY CurTyped
<1>2. r \in TradeRecord /\ r.st = "CLOSING" /\ r.filled = db[cur].filled /\ r.att = db[cur].att
  BY <1>1, StateNames DEF TradeRecord
<1>3. db' = [db EXCEPT ![cur] = r] /\ cur' = cur /\ Up'
  BY <1>1 DEF BeginClose, GoTo, Up, IInv, TypeOK
<1>4. Write(r)
  BY <1>1, <1>2, <1>3 DEF Write
<1> QED
  BY <1>2, <1>4 DEF StepKind

LEMMA GuardKind == IInv /\ Guard => StepKind
<1> SUFFICES ASSUME IInv, Guard PROVE StepKind
  OBVIOUS
<1> USE DEF Up
<1>1. cur /= 0
  BY DEF Guard, Protect, StopPlaced, StopRefused, CloseOrder, CloseSeen, CloseFails, Finalize,
         IInv, FrameOK, HasTrade, GuardPc
<1>2. CASE Protect
  BY <1>1, <1>2, StateWrite, StateNames DEF Protect, GoTo
<1>3. CASE StopPlaced
  <2> DEFINE r == [db[cur] EXCEPT !.st = "PROTECTED", !.sl = cur]
  <2>1. cur \in Trades /\ db[cur] \in TradeRecord /\ cur \in 0..MaxTrades
    BY <1>1, CurTyped DEF IInv, TypeOK
  <2>2. r \in TradeRecord /\ r.st = "PROTECTED" /\ r.filled = db[cur].filled /\ r.att = db[cur].att
    BY <2>1, StateNames DEF TradeRecord
  <2>3. [db EXCEPT ![cur].st = "PROTECTED", ![cur].sl = cur] = [db EXCEPT ![cur] = r]
    BY <2>1 DEF IInv, TypeOK
  <2>4. Return([db EXCEPT ![cur] = r])
    BY <1>3, <2>3 DEF StopPlaced
  <2> QED
    BY <1>1, <1>3, <2>2, <2>4, ReturnWrite DEF StopPlaced
<1>4. CASE StopRefused
  BY <1>1, <1>4, CloseKind DEF StopRefused
<1>5. CASE CloseOrder \/ CloseSeen
  BY <1>5 DEF CloseOrder, CloseSeen, GoTo, StepKind, Same
<1>6. CASE CloseFails
  BY <1>1, <1>6, ReturnState, StateNames DEF CloseFails
<1>7. CASE Finalize
  BY <1>1, <1>7, ReturnState, StateNames DEF Finalize
<1> QED
  BY <1>2, <1>3, <1>4, <1>5, <1>6, <1>7 DEF Guard

LEMMA RecoveryKind == IInv /\ Recovery => StepKind
<1> SUFFICES ASSUME IInv, Recovery PROVE StepKind
  OBVIOUS
<1> USE DEF Up
<1>1. CASE Query
  <2>1. db' = db /\ cur' = cur
    BY <1>1, QuerySame DEF IInv
  <2>2. Up /\ Up'
    BY <1>1 DEF Query
  <2> QED
    BY <2>1, <2>2 DEF StepKind, Same
<1>2. CASE QueryFails \/ ResolveMiss \/ StaleUnresolved \/ NothingHeld
           \/ OrphanOrders \/ SweepNext \/ SweepResolve \/ Finish
  BY <1>2 DEF QueryFails, ResolveMiss, StaleUnresolved, NothingHeld, OrphanOrders, SweepNext,
              SweepResolve, SweepDone, Finish, Lookup, Step7, GoTo, StepKind, Same
<1>3. CASE StaleFound
  <2>1. cur /= 0 /\ Up
    BY <1>3 DEF StaleFound, Lookup, IInv, FrameOK, HasTrade
  <2>2. CASE db' = db /\ GoTo("wait")
    BY <2>1, <2>2 DEF GoTo, StepKind, Same
  <2>3. CASE db' = WithState("RECOVERY_REQUIRED") /\ GoTo("wait")
    BY <2>1, <2>3, StateWrite, StateNames DEF GoTo
  <2>4. CASE Return(WithState("CLOSED"))
    BY <2>1, <2>4, ReturnState, StateNames
  <2>5. CASE Return(db)
    BY <2>1, <2>5, ReturnSame
  <2> QED
    BY <1>3, <2>2, <2>3, <2>4, <2>5 DEF StaleFound
<1>4. CASE StaleNotFound
  <2>1. cur /= 0 /\ Up
    BY <1>4 DEF StaleNotFound, Lookup, IInv, FrameOK, HasTrade
  <2> QED
    BY <1>4, <2>1, ReturnState, ReturnSame, StateNames DEF StaleNotFound
<1>5. CASE StalePending
  <2>1. CASE db' = db
    <3>1. cur' = cur
      BY <1>5, <2>1, CurTyped DEF StalePending
    <3> QED
      BY <1>5, <2>1, <3>1 DEF StalePending, StepKind, Same
  <2>2. CASE cur /= 0 /\ db' = WithState("CLOSED")
    <3>1. cur \in Trades /\ db \in [Trades -> TradeRecord] /\ db[cur] \in TradeRecord
      BY <2>2, CurTyped DEF IInv, TypeOK
    <3>2. WithState("CLOSED")[cur].st = "CLOSED"
      BY <3>1 DEF WithState, TradeRecord
    <3>3. cur' = 0
      BY <1>5, <2>2, <3>2 DEF StalePending
    <3> QED
      BY <1>5, <2>2, <3>3, StateWrite, StateNames DEF StalePending
  <2> QED
    BY <1>5, <2>1, <2>2 DEF StalePending
<1>6. CASE Orphan
  <2>1. CASE cur = 0
    BY <1>6, <2>1 DEF Orphan, Step7, StepKind, Same
  <2>2. CASE cur /= 0
    BY <1>6, <2>2, StateWrite, StateNames DEF Orphan, Step7
  <2> QED
    BY <2>1, <2>2
<1>7. CASE AdoptNew
  <2>1. PICK n \in Trades :
          /\ Fresh(n) /\ cur' = n
          /\ db' = [db EXCEPT ![n].st = "IDLE", ![n].adopted = TRUE, ![n].dir = Sgn(h.qty)]
    BY <1>7 DEF AdoptNew
  <2>2. db[n] = NoTrade /\ db[n] \in TradeRecord
    BY <2>1 DEF IInv, TypeOK, RecordsInOrder, Fresh
  <2>3. Sgn(h.qty) \in {-1, 1}
    <3>1. h.qty \in Int
      BY DEF IInv, TypeOK, Frame
    <3>2. h.qty /= 0
      BY <1>7 DEF AdoptNew, IInv, FrameOK
    <3> QED
      BY <3>1, <3>2 DEF Sgn
  <2> DEFINE r == [db[n] EXCEPT !.st = "IDLE", !.adopted = TRUE, !.dir = Sgn(h.qty)]
  <2>4. r \in TradeRecord /\ r.st = "IDLE" /\ ~r.filled
    <3>1. db[n].filled = FALSE
      BY <2>2 DEF NoTrade
    <3>2. r \in TradeRecord /\ r.st = "IDLE"
      BY <2>2, <2>3, StateNames DEF TradeRecord
    <3>3. r.filled = db[n].filled
      BY <2>2 DEF TradeRecord
    <3> QED
      BY <3>1, <3>2, <3>3
  <2>5. db' = [db EXCEPT ![n] = r]
    BY <2>1 DEF IInv, TypeOK
  <2>6. cur = 0 /\ Up /\ Up'
    BY <1>7 DEF AdoptNew, IInv, FrameOK
  <2>7. NewRecord(n, r)
    BY <2>1, <2>4, <2>5, <2>6 DEF NewRecord
  <2> QED
    BY <2>4, <2>7 DEF StepKind
<1>8. CASE AdoptRecovery
  BY <1>8, StateWrite, StateNames DEF AdoptRecovery, GoTo, IInv, FrameOK, HasTrade
<1>9. CASE AdoptGuard
  <2>1. cur \in Trades /\ db[cur] \in TradeRecord /\ h.algos \subseteq 0..MaxTrades
    BY <1>9, CurTyped, SMTT(30) DEF AdoptGuard, IInv, TypeOK, FrameOK, HasTrade, Trades, Frame
  <2>2. Up /\ Up' /\ cur' = cur
    BY <1>9 DEF AdoptGuard
  <2>3. ASSUME NEW r \in TradeRecord, r.st \notin {"none", "CLOSED"}, r.filled = TRUE,
               r.att = db[cur].att, db' = [db EXCEPT ![cur] = r]
        PROVE  StepKind
    BY <2>1, <2>2, <2>3 DEF StepKind, Write
  <2>4. CASE db' = [[db EXCEPT ![cur].filled = TRUE] EXCEPT ![cur].st = "CLOSING", ![cur].cr = TRUE]
    <3> DEFINE r == [db[cur] EXCEPT !.filled = TRUE, !.st = "CLOSING", !.cr = TRUE]
    <3>1. r \in TradeRecord /\ r.st = "CLOSING" /\ r.filled = TRUE /\ r.att = db[cur].att
      BY <2>1, StateNames DEF TradeRecord
    <3>2. db' = [db EXCEPT ![cur] = r]
      BY <2>1, <2>4 DEF IInv, TypeOK
    <3> QED
      BY <2>3, <3>1, <3>2
  <2>5. ASSUME NEW s \in h.algos,
               db' = [[db EXCEPT ![cur].filled = TRUE] EXCEPT ![cur].st = "PROTECTED", ![cur].sl = s]
        PROVE  StepKind
    <3> DEFINE r == [db[cur] EXCEPT !.filled = TRUE, !.st = "PROTECTED", !.sl = s]
    <3>1. r \in TradeRecord /\ r.st = "PROTECTED" /\ r.filled = TRUE /\ r.att = db[cur].att
      BY <2>1, StateNames DEF TradeRecord
    <3>2. db' = [db EXCEPT ![cur] = r]
      BY <2>1, <2>5 DEF IInv, TypeOK
    <3> QED
      BY <2>3, <3>1, <3>2
  <2>6. CASE db' = [[db EXCEPT ![cur].filled = TRUE] EXCEPT ![cur].st = "PROTECTING"]
    <3> DEFINE r == [db[cur] EXCEPT !.filled = TRUE, !.st = "PROTECTING"]
    <3>1. r \in TradeRecord /\ r.st = "PROTECTING" /\ r.filled = TRUE /\ r.att = db[cur].att
      BY <2>1, StateNames DEF TradeRecord
    <3>2. db' = [db EXCEPT ![cur] = r]
      BY <2>1, <2>6 DEF IInv, TypeOK
    <3> QED
      BY <2>3, <3>1, <3>2
  <2> QED
    BY <1>9, <2>4, <2>5, <2>6 DEF AdoptGuard
<1>10. CASE DirectionMismatch
  BY <1>10, StateWrite, StateNames DEF DirectionMismatch, Step7, Owned
<1>11. CASE ResumeClose \/ ClosedOffline
  BY <1>11, CloseKind DEF ResumeClose, ClosedOffline, SameWay, Step7, Owned
<1>12. CASE ProtectAgain
  BY <1>12, StateWrite, StateNames DEF ProtectAgain, SameWay, Step7, Owned, GoTo
<1>13. CASE StopInPlace
  <2>1. cur \in Trades /\ db[cur] \in TradeRecord /\ cur /= 0 /\ cur \in 0..MaxTrades /\ Up
    BY <1>13, CurTyped DEF StopInPlace, SameWay, Step7, Owned, IInv, TypeOK
  <2> DEFINE s == IF db[cur].st \in Holding THEN db[cur].st ELSE "PROTECTED"
             r == [db[cur] EXCEPT !.st = s, !.sl = cur]
  <2>2. s \in TradeState /\ s /= "none"
    BY <2>1, CurTyped, StateNames
  <2>3. r \in TradeRecord /\ r.st = s /\ r.filled = db[cur].filled /\ r.att = db[cur].att
    BY <2>1, <2>2 DEF TradeRecord
  <2>4. [db EXCEPT ![cur].st = IF @ \in Holding THEN @ ELSE "PROTECTED", ![cur].sl = cur]
          = [db EXCEPT ![cur] = r]
    BY <2>1 DEF IInv, TypeOK
  <2>5. Return([db EXCEPT ![cur] = r])
    BY <1>13, <2>4 DEF StopInPlace
  <2> QED
    BY <2>1, <2>2, <2>3, <2>5, ReturnWrite
<1> QED
  BY <1>1, <1>2, <1>3, <1>4, <1>5, <1>6, <1>7, <1>8, <1>9, <1>10, <1>11, <1>12, <1>13 DEF Recovery

LEMMA NextKind == IInv /\ [Next]_vars => StepKind
<1> SUFFICES ASSUME IInv, [Next]_vars PROVE StepKind
  OBVIOUS
<1> USE DEF Up
<1>1. CASE Exchange
  BY <1>1 DEF Exchange, Land, Match, Lose, Buy, StopFires, ManualTrade, memory, StepKind, Same
<1>2. CASE BarExit \/ NoticeFlat
  BY <1>2, CloseKind DEF BarExit, NoticeFlat
<1>3. CASE \E i \in Ids : UserEvent(i)
  BY <1>3 DEF UserEvent, memory, StepKind, Same
<1>4. CASE Reconcile
  BY <1>4 DEF Reconcile, GoTo, StepKind, Same
<1>5. CASE Crash
  BY <1>5 DEF Crash, ProcessDown, StepKind, GoesDown
<1>6. CASE Restart
  BY <1>6 DEF Restart, StepKind, GoesUp
<1>7. CASE UNCHANGED vars
  BY <1>7 DEF vars, StepKind, Same
<1> QED
  BY <1>1, <1>2, <1>3, <1>4, <1>5, <1>6, <1>7, SignalKind, EntryKind, GuardKind, RecoveryKind
     DEF Next, Events

----------------------------------------------------------------------------
(* The kinds of step keep the invariant of the slot.                        *)

LEMMA WriteKeepsSlot ==
  ASSUME IInv, NEW r \in TradeRecord, Write(r)
  PROVE  OneActive' /\ CurActive' /\ RecordsInOrder'
<1>1. cur \in Trades /\ cur /= 0 /\ Active(cur) /\ (\A t \in Trades : Active(t) => t = cur)
  BY DEF Write, Up, IInv, OneActive, CurActive, Trades
<1>2. db'[cur] = r /\ \A t \in Trades : t /= cur => db'[t] = db[t]
  BY <1>1 DEF Write, IInv, TypeOK
<1>3. \A t \in Trades : Active(t)' => t = cur /\ r.st /= "CLOSED"
  BY <1>1, <1>2 DEF Active
<1>4. OneActive'
  BY <1>3 DEF Write, OneActive
<1>5. CurActive'
  BY <1>1, <1>2 DEF Write, CurActive, Active
<1>6. RecordsInOrder'
  <2> SUFFICES ASSUME NEW t \in Trades, db'[t].st = "none"
               PROVE  /\ db'[t] = NoTrade
                      /\ \A u \in Trades : t < u => db'[u].st = "none"
    BY DEF RecordsInOrder, NoTrade
  <2>1. t /= cur /\ db[t].st = "none"
    BY <1>2 DEF Write
  <2>2. db[t] = NoTrade /\ \A u \in Trades : t < u => db[u].st = "none"
    BY <2>1 DEF IInv, RecordsInOrder
  <2>3. \A u \in Trades : t < u => u /= cur
    BY <1>1, <2>2 DEF Active
  <2> QED
    BY <1>2, <2>1, <2>2, <2>3
<1> QED
  BY <1>4, <1>5, <1>6

LEMMA NewRecordKeepsSlot ==
  ASSUME IInv, NEW n \in Trades, NEW r \in TradeRecord, NewRecord(n, r)
  PROVE  OneActive' /\ CurActive' /\ RecordsInOrder'
<1>1. \A t \in Trades : ~Active(t)
  BY DEF NewRecord, Up, IInv, OneActive, CurActive, Trades
<1>2. db'[n] = r /\ \A t \in Trades : t /= n => db'[t] = db[t]
  BY DEF NewRecord, IInv, TypeOK
<1>3. \A t \in Trades : Active(t)' => t = n
  BY <1>1, <1>2 DEF Active
<1>4. OneActive'
  BY <1>3 DEF NewRecord, OneActive
<1>5. CurActive'
  BY <1>2 DEF NewRecord, CurActive, Active
<1>6. RecordsInOrder'
  <2> SUFFICES ASSUME NEW t \in Trades, db'[t].st = "none"
               PROVE  /\ db'[t] = NoTrade
                      /\ \A u \in Trades : t < u => db'[u].st = "none"
    BY DEF RecordsInOrder, NoTrade
  <2>1. t /= n /\ db[t].st = "none"
    BY <1>2 DEF NewRecord
  <2>2. db[t] = NoTrade /\ \A u \in Trades : t < u => db[u].st = "none"
    BY <2>1 DEF IInv, RecordsInOrder
  <2>3. ~(t < n)
    BY <2>1 DEF NewRecord, Fresh
  <2>4. \A u \in Trades : t < u => u /= n
    BY <2>3
  <2> QED
    BY <1>2, <2>1, <2>2, <2>4
<1> QED
  BY <1>4, <1>5, <1>6

LEMMA KindKeepsSlot ==
  ASSUME IInv, StepKind
  PROVE  OneActive' /\ CurActive' /\ RecordsInOrder'
<1>1. CASE Same
  BY <1>1 DEF Same, Up, IInv, OneActive, CurActive, RecordsInOrder, Active
<1>2. CASE GoesDown
  BY <1>2 DEF GoesDown, Up, IInv, OneActive, CurActive, RecordsInOrder, Active
<1>3. CASE GoesUp
  <2>1. RecordsInOrder'
    BY <1>3 DEF GoesUp, IInv, RecordsInOrder
  <2>2. OneActive' /\ CurActive'
    BY <1>3, NewestIsOpen DEF GoesUp, IInv, OneActive, CurActive, Active
  <2> QED
    BY <2>1, <2>2
<1> QED
  BY <1>1, <1>2, <1>3, WriteKeepsSlot, NewRecordKeepsSlot DEF StepKind

LEMMA InitInv == Init => IInv
<1> SUFFICES ASSUME Init PROVE IInv
  OBVIOUS
<1>1. TypeOK /\ FrameOK
  BY InitTyped DEF Typed
<1>2. \A t \in Trades : db[t] = NoTrade /\ db[t].st = "none"
  BY DEF Init, NoTrade
<1>3. OneActive /\ CurActive /\ RecordsInOrder
  BY <1>2 DEF Init, OneActive, CurActive, RecordsInOrder, Active
<1> QED
  BY <1>1, <1>3 DEF IInv

LEMMA NextInv == IInv /\ [Next]_vars => IInv'
<1> SUFFICES ASSUME IInv, [Next]_vars PROVE IInv'
  OBVIOUS
<1>1. TypeOK' /\ FrameOK'
  BY NextTyped DEF IInv, Typed
<1>2. OneActive' /\ CurActive' /\ RecordsInOrder'
  BY NextKind, KindKeepsSlot
<1> QED
  BY <1>1, <1>2 DEF IInv

\* The inductive invariant holds in every reachable state: the step from a
\* state of IInv is the code of engine.py, entry_manager.py and
\* recovery_manager.py with any lost answer, crash or foreign trade.
THEOREM Invariant == Spec => []IInv
  BY InitInv, NextInv, PTL DEF Spec

\* Every variable keeps its type, for any number of trades, orders, lost
\* answers and crashes.
THEOREM TypeCorrect == Spec => []TypeOK
<1>1. IInv => TypeOK
  BY DEF IInv
<1> QED
  BY <1>1, Invariant, PTL

\* There is at most one open trade record, and while the process runs it is
\* the one engine.trade refers to: no handler, adoption or restart leaves a
\* second one behind.
THEOREM SlotSafe == Spec => []OneActive
<1>1. IInv => OneActive
  BY DEF IInv
<1> QED
  BY <1>1, Invariant, PTL

----------------------------------------------------------------------------
(* The refinement of TradeSlot.                                             *)

LEMMA PhaseOf ==
  ASSUME NEW t \in Trades
  PROVE  SlotPhase[t] = IF db[t].st = "none" THEN "none"
                        ELSE IF db[t].st = "CLOSED" THEN "done"
                        ELSE IF db[t].filled THEN "holding" ELSE "waiting"
  BY DEF SlotPhase

LEMMA PhaseWritten ==
  ASSUME IInv, NEW n \in Trades, NEW r \in TradeRecord, r.st /= "none",
         db' = [db EXCEPT ![n] = r]
  PROVE  SlotPhase' = [SlotPhase EXCEPT ![n] = IF r.st = "CLOSED" THEN "done"
                                               ELSE IF r.filled THEN "holding" ELSE "waiting"]
<1>1. db'[n] = r /\ \A t \in Trades : t /= n => db'[t] = db[t]
  BY DEF IInv, TypeOK
<1> QED
  BY <1>1 DEF SlotPhase

LEMMA WriteRefines ==
  ASSUME IInv, NEW r \in TradeRecord, Write(r)
  PROVE  [Slot!Next]_SlotPhase
<1> DEFINE p == IF r.st = "CLOSED" THEN "done" ELSE IF r.filled THEN "holding" ELSE "waiting"
<1>1. cur \in Trades /\ cur /= 0 /\ SlotPhase' = [SlotPhase EXCEPT ![cur] = p]
  <2>1. cur \in Trades /\ r.st /= "none" /\ db' = [db EXCEPT ![cur] = r]
    BY DEF Write
  <2>2. SlotPhase' = [SlotPhase EXCEPT ![cur] = p]
    BY <2>1, PhaseWritten
  <2> QED
    BY <2>1, <2>2 DEF Trades
<1>2. SlotPhase[cur] = IF db[cur].filled THEN "holding" ELSE "waiting"
  BY <1>1, PhaseOf, CurTyped
<1>3. CASE p = "done"
  <2>1. Slot!Finish(cur)
    BY <1>1, <1>2, <1>3 DEF Slot!Finish, Slot!Open
  <2> QED
    BY <1>1, <2>1 DEF Slot!Next
<1>4. CASE p = "holding" /\ SlotPhase[cur] = "waiting"
  <2>1. Slot!Hold(cur)
    BY <1>1, <1>4 DEF Slot!Hold
  <2> QED
    BY <1>1, <2>1 DEF Slot!Next
<1>5. CASE p = SlotPhase[cur]
  BY <1>1, <1>5, ZenonT(30) DEF SlotPhase
<1>6. p = "done" \/ (p = "holding" /\ SlotPhase[cur] = "waiting") \/ p = SlotPhase[cur]
  BY <1>2 DEF Write
<1> QED
  BY <1>3, <1>4, <1>5, <1>6

LEMMA NewRecordRefines ==
  ASSUME IInv, NEW n \in Trades, NEW r \in TradeRecord, NewRecord(n, r)
  PROVE  Slot!Next
<1>1. \A t \in Trades : ~Active(t)
  BY DEF NewRecord, Up, IInv, OneActive, CurActive, Trades
<1>2. SlotPhase' = [SlotPhase EXCEPT ![n] = "waiting"]
  BY PhaseWritten DEF NewRecord
<1>3. SlotPhase[n] = "none"
  BY PhaseOf DEF NewRecord, Fresh
<1>4. ASSUME NEW u \in Trades PROVE SlotPhase[u] = IF u < n THEN "done" ELSE "none"
  <2>1. CASE u < n
    BY <1>1, <2>1, PhaseOf DEF NewRecord, Fresh, Active
  <2>2. CASE u = n
    BY <1>3, <2>2 DEF Trades
  <2>3. CASE n < u
    BY <2>3, PhaseOf DEF NewRecord, Fresh, IInv, RecordsInOrder
  <2> QED
    BY <2>1, <2>2, <2>3 DEF Trades
<1>5. Slot!Start(n)
  BY <1>2, <1>3, <1>4 DEF Slot!Start
<1> QED
  BY <1>5 DEF Slot!Next

LEMMA StepRefines == IInv /\ [Next]_vars => [Slot!Next]_SlotPhase
<1> SUFFICES ASSUME IInv, [Next]_vars PROVE [Slot!Next]_SlotPhase
  OBVIOUS
<1>1. CASE Same \/ GoesDown \/ GoesUp
  BY <1>1 DEF Same, GoesDown, GoesUp, SlotPhase
<1> QED
  BY <1>1, NextKind, WriteRefines, NewRecordRefines DEF StepKind

LEMMA InitRefines == Init => Slot!Init
  BY DEF Init, Slot!Init, SlotPhase, NoTrade

\* The trade records implement TradeSlot: they are used in order, one trade
\* ends before the next starts, and a trade that ended never comes back.
THEOREM SlotImplemented == Spec => SlotSpec
  BY InitRefines, StepRefines, Invariant, PTL DEF Spec, SlotSpec, Slot!Spec

----------------------------------------------------------------------------
(* No handler asks for a transition the table forbids.                      *)

Unfilled == {"IDLE", "SIGNAL_DETECTED", "ENTRY_PENDING", "RECOVERY_REQUIRED"}
Bought   == {"ENTRY_FILLED", "PROTECTING", "CLOSING", "RECOVERY_REQUIRED", "ERROR"}
              \union Holding

RecordState(r) ==
  /\ r.filled => r.st \notin {"IDLE", "SIGNAL_DETECTED", "ENTRY_PENDING"}
  /\ ~r.filled => r.st \in {"none", "CLOSED"} \union Unfilled
  /\ r.att > 0 => r.st \notin {"IDLE", "SIGNAL_DETECTED"}

LEMMA RecordStatesParts ==
  /\ RecordStates <=> \A t \in Trades : RecordState(db[t])
  /\ (\A t \in Trades : RecordState(db'[t])) => RecordStates'
  BY DEF RecordStates, RecordState, Unfilled

LegalStep == \A t \in Trades :
  LET from == db[t].st
      to   == db'[t].st
  IN  IF from = "none" THEN to \in {"none", "IDLE"}
      ELSE CanMove(from, to) \/ (h.why /= "none" /\ CanForce(from, to))

LEMMA EntryMoves ==
  /\ CanMove("IDLE", "SIGNAL_DETECTED") /\ CanMove("SIGNAL_DETECTED", "ENTRY_PENDING")
  /\ CanMove("IDLE", "RECOVERY_REQUIRED")
  /\ \A s \in {"ENTRY_PENDING", "RECOVERY_REQUIRED"} :
       CanMove(s, "CLOSED") /\ CanMove(s, "ENTRY_FILLED") /\ CanMove(s, "RECOVERY_REQUIRED")
  /\ CanMove("SIGNAL_DETECTED", "CLOSED")
  /\ CanMove("ENTRY_FILLED", "PROTECTING") /\ CanMove("PROTECTING", "PROTECTED")
  /\ CanMove("CLOSING", "CLOSED")
  BY DEF CanMove, Allowed, IsForward, WithPosition, Holding

LEMMA BoughtMoves ==
  ASSUME NEW s \in Bought
  PROVE  CanMove(s, "CLOSING") /\ CanMove(s, "ERROR")
  BY DEF Bought, CanMove, Allowed, IsForward, WithPosition, Holding

LEMMA ForcedMoves ==
  /\ \A s \in Unfilled : CanForce(s, "CLOSED")
  /\ \A s \in Bought \ {"CLOSING"} : CanForce(s, "PROTECTING")
  /\ \A s \in {"RECOVERY_REQUIRED", "ERROR"} : CanForce(s, "PROTECTED")
  /\ \A s \in {"PROTECTED", "PROTECTING", "CLOSING"} : CanMove("RECOVERY_REQUIRED", s)
  /\ \A s : CanMove(s, s)
<1>1. \A s \in Unfilled : CanForce(s, "CLOSED")
  BY DEF Unfilled, CanForce, CanMove, Allowed, IsForward, WithPosition, Holding
<1>2. \A s \in Holding : CanForce(s, "PROTECTING")
  BY DEF CanForce, CanMove, Allowed, IsForward, WithPosition, Holding
<1>3. \A s \in {"ENTRY_FILLED", "PROTECTING", "RECOVERY_REQUIRED", "ERROR"} :
        CanForce(s, "PROTECTING")
  BY DEF CanForce, CanMove, Allowed, IsForward, WithPosition, Holding
<1>4. \A s \in {"RECOVERY_REQUIRED", "ERROR"} : CanForce(s, "PROTECTED")
  BY DEF CanForce, CanMove, Allowed, IsForward, WithPosition, Holding
<1>5. \A s \in {"PROTECTED", "PROTECTING", "CLOSING"} : CanMove("RECOVERY_REQUIRED", s)
  BY DEF CanMove, Allowed, IsForward, WithPosition, Holding
<1> QED
  BY <1>1, <1>2, <1>3, <1>4, <1>5 DEF Bought, CanMove

LEMMA CurState ==
  ASSUME IInv, RecordStates, cur /= 0
  PROVE  /\ db[cur].filled => db[cur].st \in Bought
         /\ ~db[cur].filled => db[cur].st \in Unfilled
         /\ RecordState(db[cur]) /\ cur \in Trades
<1>1. /\ cur \in Trades /\ db[cur].st \in TradeState /\ db[cur].st /= "CLOSED"
      /\ db[cur].filled \in BOOLEAN
  BY CurTyped DEF TradeRecord
<1>2. RecordState(db[cur])
  BY <1>1, RecordStatesParts
<1>3. db[cur].filled => db[cur].st \in Bought
  <2> DEFINE s == db[cur].st
  <2>1. db[cur].filled => s \notin {"IDLE", "SIGNAL_DETECTED", "ENTRY_PENDING"}
    BY <1>2 DEF RecordState
  <2>2. s \in TradeState /\ s /= "CLOSED"
    BY <1>1
  <2> HIDE DEF s
  <2>3. s \notin {"IDLE", "SIGNAL_DETECTED", "ENTRY_PENDING"} => s \in Bought
    BY <2>2 DEF Bought, TradeState, WithPosition
  <2> QED
    BY <2>1, <2>3 DEF s
<1>4. ~db[cur].filled => db[cur].st \in Unfilled
  <2>1. db[cur].st \notin {"none", "CLOSED"}
    BY CurTyped
  <2>2. ~db[cur].filled => db[cur].st \in {"none", "CLOSED"} \union Unfilled
    BY <1>2 DEF RecordState
  <2> QED
    BY <2>1, <2>2
<1> QED
  BY <1>1, <1>2, <1>3, <1>4

LEMMA MoveSame ==
  ASSUME RecordStates, db' = db
  PROVE  RecordStates' /\ LegalStep
  BY RecordStatesParts DEF LegalStep, CanMove

LEMMA MoveWrite ==
  ASSUME IInv, RecordStates, cur /= 0, NEW r, RecordState(r), db' = [db EXCEPT ![cur] = r],
         CanMove(db[cur].st, r.st) \/ (h.why /= "none" /\ CanForce(db[cur].st, r.st))
  PROVE  RecordStates' /\ LegalStep /\ db'[cur].st = r.st
<1>1. cur \in Trades /\ db[cur].st /= "none"
  BY CurTyped
<1>2. db'[cur] = r /\ \A t \in Trades : t /= cur => db'[t] = db[t]
  BY <1>1 DEF IInv, TypeOK
<1>3. RecordStates'
  BY <1>2, RecordStatesParts
<1>4. LegalStep
  BY <1>1, <1>2 DEF LegalStep, CanMove
<1> QED
  BY <1>2, <1>3, <1>4

LEMMA MoveState ==
  ASSUME IInv, RecordStates, cur /= 0, NEW s, db' = WithState(s),
         db[cur].filled => s \notin {"IDLE", "SIGNAL_DETECTED", "ENTRY_PENDING"},
         ~db[cur].filled => s \in {"CLOSED"} \union Unfilled,
         db[cur].att > 0 => s \notin {"IDLE", "SIGNAL_DETECTED"},
         CanMove(db[cur].st, s) \/ (h.why /= "none" /\ CanForce(db[cur].st, s))
  PROVE  RecordStates' /\ LegalStep /\ db'[cur].st = s
<1> DEFINE r == [db[cur] EXCEPT !.st = s]
<1>1. r.st = s /\ r.filled = db[cur].filled /\ r.att = db[cur].att
  BY CurTyped DEF TradeRecord
<1>2. RecordState(r)
  BY <1>1 DEF RecordState
<1>3. db' = [db EXCEPT ![cur] = r]
  BY DEF WithState
<1> HIDE DEF r
<1> QED
  BY <1>1, <1>2, <1>3, MoveWrite

LEMMA ReturnAt ==
  ASSUME IInv, Recovering, NEW d, Return(d)
  PROVE  StateAt' /\ Recovering'
<1>1. h.ret \in {"idle", "r10b", "r8", "sweep"}
  BY DEF IInv, TypeOK, Frame
<1>2. pc' = h.ret /\ h' = IF h.ret = "idle" THEN NoFrame ELSE h
  BY DEF Return
<1> QED
  BY <1>1, <1>2 DEF StateAt, Recovering, NoFrame

\* The handler ends with the trade in state s.
LEMMA ReturnMoves ==
  ASSUME IInv, StatesKnown, cur /= 0, NEW s, Return(WithState(s)),
         db[cur].filled => s \notin {"IDLE", "SIGNAL_DETECTED", "ENTRY_PENDING"},
         ~db[cur].filled => s \in {"CLOSED", "RECOVERY_REQUIRED"},
         CanMove(db[cur].st, s) \/ (h.why /= "none" /\ CanForce(db[cur].st, s)),
         s \notin {"IDLE", "SIGNAL_DETECTED"}
  PROVE  StatesKnown' /\ LegalStep
<1>1. db' = WithState(s)
  BY DEF Return
<1>2. RecordStates' /\ LegalStep
  BY <1>1, MoveState DEF StatesKnown, Unfilled
<1>3. StateAt' /\ Recovering'
  BY ReturnAt DEF StatesKnown
<1> QED
  BY <1>2, <1>3 DEF StatesKnown

LEMMA ReturnStays ==
  ASSUME IInv, StatesKnown, Return(db)
  PROVE  StatesKnown' /\ LegalStep
<1>1. db' = db
  BY DEF Return
<1> QED
  BY <1>1, MoveSame, ReturnAt DEF StatesKnown

\* Nothing but the process, or where the handler is, changes.
LEMMA GoneMoves ==
  ASSUME StatesKnown, db' = db, h'.ret = "idle", pc' \in {"down", "idle"}
  PROVE  StatesKnown' /\ LegalStep
<1>1. RecordStates' /\ LegalStep
  BY MoveSame DEF StatesKnown
<1> QED
  BY <1>1 DEF StatesKnown, StateAt, Recovering

LEMMA RaiseMoves ==
  ASSUME StatesKnown, Raise
  PROVE  StatesKnown' /\ LegalStep
  BY GoneMoves DEF Raise, ProcessDown, GoTo, NoFrame

LEMMA SignalMoves ==
  ASSUME IInv, StatesKnown, Signal
  PROVE  StatesKnown' /\ LegalStep
<1>1. CASE Arm
  <2>1. PICK n \in Trades : Fresh(n) /\ cur' = n /\ db' = [db EXCEPT ![n].st = "IDLE"]
    BY <1>1 DEF Arm, Fresh
  <2>2. db[n] = NoTrade /\ db[n].st = "none"
    BY <2>1 DEF IInv, RecordsInOrder, Fresh
  <2>3. /\ db'[n] = [NoTrade EXCEPT !.st = "IDLE"]
        /\ \A t \in Trades : t /= n => db'[t] = db[t]
    BY <2>1, <2>2 DEF IInv, TypeOK
  <2>4. db'[n].st = "IDLE" /\ RecordState(db'[n])
    BY <2>3 DEF NoTrade, RecordState, Unfilled
  <2>5. RecordStates'
    BY <2>3, <2>4, RecordStatesParts DEF StatesKnown
  <2>6. LegalStep
    BY <2>2, <2>3, <2>4 DEF LegalStep, CanMove
  <2>7. pc' = "arm1" /\ h' = h /\ pc = "idle"
    BY <1>1 DEF Arm
  <2> QED
    BY <2>1, <2>4, <2>5, <2>6, <2>7 DEF StatesKnown, StateAt, Recovering
<1>2. CASE ArmSignal
  <2>1. /\ db' = WithState("SIGNAL_DETECTED") /\ pc' = "arm2" /\ cur' = cur /\ h' = h
        /\ cur /= 0 /\ db[cur].st = "IDLE"
    BY <1>2 DEF ArmSignal, GoTo, StatesKnown, StateAt, IInv, FrameOK, HasTrade
  <2>2. ~db[cur].filled /\ ~(db[cur].att > 0)
    BY <2>1, CurState DEF StatesKnown, RecordState
  <2>3. RecordStates' /\ LegalStep /\ db'[cur].st = "SIGNAL_DETECTED"
    BY <2>1, <2>2, MoveState, EntryMoves DEF StatesKnown, Unfilled
  <2> QED
    BY <2>1, <2>3 DEF StatesKnown, StateAt, Recovering
<1>3. CASE ArmPending
  <2>1. /\ db' = WithState("ENTRY_PENDING") /\ pc' = "idle" /\ cur' = cur /\ h' = h
        /\ cur /= 0 /\ db[cur].st = "SIGNAL_DETECTED"
    BY <1>3 DEF ArmPending, GoTo, StatesKnown, StateAt, IInv, FrameOK, HasTrade
  <2>2. ~db[cur].filled
    BY <2>1, CurState DEF StatesKnown, RecordState
  <2>3. RecordStates' /\ LegalStep
    BY <2>1, <2>2, MoveState, EntryMoves DEF StatesKnown, Unfilled
  <2> QED
    BY <2>1, <2>3 DEF StatesKnown, StateAt, Recovering
<1>4. CASE CancelWait
  BY <1>4, ReturnMoves, EntryMoves DEF CancelWait, Waiting
<1>5. CASE Trigger
  <2>1. RecordStates' /\ LegalStep
    BY <1>5, MoveSame DEF Trigger, StatesKnown
  <2> QED
    BY <1>5, <2>1 DEF Trigger, Waiting, GoTo, StatesKnown, StateAt, Recovering
<1> QED
  BY <1>1, <1>2, <1>3, <1>4, <1>5 DEF Signal

\* The record stays, the handler goes on with the same trade.
LEMMA GoMoves ==
  ASSUME StatesKnown, db' = db, cur' = cur, h'.why = h.why, h'.ret = h.ret,
         StateAt', pc' \notin {"rq", "r10b", "r7", "adopt", "adopt1", "adopt2", "r8"}
  PROVE  StatesKnown' /\ LegalStep
<1>1. RecordStates' /\ LegalStep
  BY MoveSame DEF StatesKnown
<1> QED
  BY <1>1 DEF StatesKnown, Recovering

LEMMA FilledMoves ==
  ASSUME IInv, StatesKnown, cur /= 0, MarkFilled,
         db[cur].st \in {"ENTRY_PENDING", "RECOVERY_REQUIRED"}
  PROVE  StatesKnown' /\ LegalStep
<1> DEFINE r == [db[cur] EXCEPT !.st = "ENTRY_FILLED", !.filled = TRUE]
<1>1. r.st = "ENTRY_FILLED" /\ r.filled
  BY CurTyped DEF TradeRecord
<1>2. RecordState(r)
  BY <1>1 DEF RecordState
<1>3. db' = [db EXCEPT ![cur] = r]
  BY CurTyped DEF MarkFilled, IInv, TypeOK
<1> HIDE DEF r
<1>4. RecordStates' /\ LegalStep /\ db'[cur].st = "ENTRY_FILLED"
  BY <1>1, <1>2, <1>3, MoveWrite, EntryMoves DEF StatesKnown
<1>5. pc' = "guard0" /\ cur' = cur /\ h' = h
  BY DEF MarkFilled, GoTo
<1> QED
  BY <1>4, <1>5 DEF StatesKnown, StateAt, Recovering

LEMMA PendingMoves ==
  ASSUME IInv, StatesKnown, cur /= 0, db[cur].st \in {"ENTRY_PENDING", "RECOVERY_REQUIRED"}
  PROVE  /\ Return(WithState("CLOSED")) => StatesKnown' /\ LegalStep
         /\ Return(WithState("RECOVERY_REQUIRED")) => StatesKnown' /\ LegalStep
         /\ AdoptPosition => StatesKnown' /\ LegalStep
<1>1. Return(WithState("CLOSED")) => StatesKnown' /\ LegalStep
  BY ReturnMoves, EntryMoves
<1>2. Return(WithState("RECOVERY_REQUIRED")) => StatesKnown' /\ LegalStep
  BY ReturnMoves, EntryMoves
<1> QED
  BY <1>1, <1>2, FilledMoves DEF AdoptPosition

LEMMA EntryStepMoves ==
  ASSUME IInv, StatesKnown, Entry
  PROVE  StatesKnown' /\ LegalStep
<1>0. pc \in EntryPc \union ConfirmPc
  BY DEF Entry, CheckFails, CheckRefuses, CheckPasses, Submit, Answered, AnswerLost, NotSent,
         Refused, EntryFound, EntryNotFound, EntryUnresolved, Lookup, NotFoundNext, NotFoundFails,
         ByPosition, WaitFinal, WaitFails, ConfirmFill, ConfirmFails, EntryPc, ConfirmPc
<1>1. \/ pc \in {"check", "submit", "sent", "notfound", "wait", "fillpos", "bypos"}
      \/ pc = "resolve" /\ h.ret = "idle"
  BY DEF Entry, CheckFails, CheckRefuses, CheckPasses, Submit, Answered, AnswerLost, NotSent,
         Refused, EntryFound, EntryNotFound, EntryUnresolved, Lookup, NotFoundNext, NotFoundFails,
         ByPosition, WaitFinal, WaitFails, ConfirmFill, ConfirmFails
<1>2. /\ cur /= 0 /\ db[cur].st \in {"ENTRY_PENDING", "RECOVERY_REQUIRED"}
      /\ pc \in {"check", "submit", "sent"} => db[cur].st = "ENTRY_PENDING"
  BY <1>1 DEF StatesKnown, StateAt, IInv, FrameOK, HasTrade, EntryPc
<1>3. CASE CheckFails
  <2>1. StateAt'
    BY <1>3 DEF CheckFails, GoTo, StateAt
  <2> QED
    BY <1>3, <2>1, GoMoves DEF CheckFails, GoTo
<1>4. CASE CheckRefuses \/ Refused("REJECTED") \/ Refused("NOT_PLACED")
  BY <1>2, <1>4, PendingMoves DEF CheckRefuses, Refused
<1>5. CASE CheckPasses
  <2> DEFINE r == [db[cur] EXCEPT !.att = @ + 1]
  <2>1. /\ r.st = db[cur].st /\ r.filled = db[cur].filled
        /\ cur \in Trades /\ db[cur] \in TradeRecord
    BY <1>2, CurTyped DEF TradeRecord
  <2>2. db' = [db EXCEPT ![cur] = r]
    BY <1>5, <2>1 DEF CheckPasses, IInv, TypeOK
  <2>3. db[cur].st = "ENTRY_PENDING" /\ RecordState(db[cur])
    BY <1>2, <1>5, CurState DEF CheckPasses, StatesKnown
  <2>4. RecordState(r)
    BY <2>1, <2>3 DEF RecordState
  <2> HIDE DEF r
  <2>5. RecordStates' /\ LegalStep /\ db'[cur].st = "ENTRY_PENDING"
    BY <1>2, <2>1, <2>2, <2>3, <2>4, MoveWrite, ForcedMoves DEF StatesKnown
  <2>6. h'.ret = h.ret /\ h'.why = h.why /\ pc' = "submit" /\ cur' = cur
    BY <1>5 DEF CheckPasses, GoTo, IInv, TypeOK, Frame
  <2> QED
    BY <2>5, <2>6 DEF StatesKnown, StateAt, Recovering
<1>6. CASE Submit \/ Answered \/ AnswerLost \/ EntryFound \/ EntryNotFound \/ EntryUnresolved
           \/ WaitFails
  <2>1. db' = db /\ cur' = cur /\ h' = h
    BY <1>6 DEF Submit, Answered, AnswerLost, EntryFound, EntryNotFound, EntryUnresolved,
                WaitFails, GoTo
  <2>2. /\ pc' \in {"sent", "wait", "resolve", "notfound", "bypos"}
        /\ pc' = "sent" => pc = "submit"
    BY <1>6 DEF Submit, Answered, AnswerLost, EntryFound, EntryNotFound, EntryUnresolved,
                WaitFails, GoTo
  <2>3. StateAt'
    BY <1>2, <2>1, <2>2 DEF StateAt
  <2> QED
    BY <2>1, <2>2, <2>3, GoMoves
<1>7. CASE NotSent
  BY <1>7, GoneMoves DEF NotSent, GoTo, NoFrame
<1>8. CASE NotFoundNext
  BY <1>2, <1>8, PendingMoves, ReturnStays DEF NotFoundNext
<1>9. CASE NotFoundFails \/ ConfirmFails
  BY <1>9, RaiseMoves DEF NotFoundFails, ConfirmFails
<1>10. CASE ByPosition
  BY <1>2, <1>10, PendingMoves DEF ByPosition
<1>11. CASE WaitFinal
  <2>1. /\ db' = db /\ cur' = cur /\ pc' = "fillpos" /\ h'.ret = h.ret /\ h'.why = h.why
    BY <1>11 DEF WaitFinal, GoTo, IInv, TypeOK, Frame
  <2>2. StateAt'
    BY <1>2, <2>1 DEF StateAt
  <2> QED
    BY <2>1, <2>2, GoMoves
<1>12. CASE ConfirmFill
  BY <1>2, <1>12, PendingMoves, FilledMoves DEF ConfirmFill
<1> QED
  BY <1>3, <1>4, <1>5, <1>6, <1>7, <1>8, <1>9, <1>10, <1>11, <1>12 DEF Entry

LEMMA CloseMoves ==
  ASSUME IInv, StatesKnown, cur /= 0, db[cur].st \in Bought, db[cur].filled,
         NEW where \in {"close", "final"}, BeginClose(where)
  PROVE  StatesKnown' /\ LegalStep
<1> DEFINE r == [db[cur] EXCEPT !.st = "CLOSING", !.cr = TRUE]
<1>1. r.st = "CLOSING" /\ r.filled = db[cur].filled
  BY CurTyped DEF TradeRecord
<1>2. RecordState(r)
  BY <1>1 DEF RecordState
<1>3. db' = [db EXCEPT ![cur] = r]
  BY CurTyped DEF BeginClose, IInv, TypeOK
<1> HIDE DEF r
<1>4. RecordStates' /\ LegalStep /\ db'[cur].st = "CLOSING"
  BY <1>1, <1>2, <1>3, MoveWrite, BoughtMoves DEF StatesKnown
<1>5. pc' = where /\ cur' = cur /\ h' = h
  BY DEF BeginClose, GoTo
<1> QED
  BY <1>4, <1>5 DEF StatesKnown, StateAt, Recovering

LEMMA GuardMoves ==
  ASSUME IInv, StatesKnown, Guard
  PROVE  StatesKnown' /\ LegalStep
<1>1. /\ cur /= 0 /\ pc \in GuardPc
      /\ pc = "guard0" => db[cur].st = "ENTRY_FILLED"
      /\ pc = "guard" => db[cur].st = "PROTECTING"
      /\ pc \in {"close", "final"} => db[cur].st = "CLOSING"
  BY DEF Guard, Protect, StopPlaced, StopRefused, CloseOrder, CloseSeen, CloseFails, Finalize,
         IInv, FrameOK, HasTrade, GuardPc, StatesKnown, StateAt
<1>2. db[cur].filled = TRUE /\ db[cur].st \in Bought
  <2>1. db[cur].filled \in BOOLEAN
    BY <1>1, CurTyped DEF TradeRecord
  <2>2. db[cur].st \notin Unfilled
    BY <1>1 DEF GuardPc, Unfilled
  <2> QED
    BY <1>1, <2>1, <2>2, CurState DEF StatesKnown
<1>3. CASE Protect
  <2>1. /\ db' = WithState("PROTECTING") /\ pc' = "guard" /\ cur' = cur /\ h' = h
        /\ db[cur].st = "ENTRY_FILLED"
    BY <1>1, <1>3 DEF Protect, GoTo
  <2>2. RecordStates' /\ LegalStep /\ db'[cur].st = "PROTECTING"
    BY <1>1, <1>2, <2>1, MoveState, EntryMoves DEF StatesKnown
  <2> QED
    BY <2>1, <2>2 DEF StatesKnown, StateAt, Recovering
<1>4. CASE StopPlaced
  <2> DEFINE r == [db[cur] EXCEPT !.st = "PROTECTED", !.sl = cur]
  <2>1. cur \in Trades /\ r.st = "PROTECTED" /\ r.filled = db[cur].filled
    BY <1>1, CurTyped DEF TradeRecord
  <2>2. [db EXCEPT ![cur].st = "PROTECTED", ![cur].sl = cur] = [db EXCEPT ![cur] = r]
    BY <2>1 DEF IInv, TypeOK
  <2>3. RecordState(r)
    BY <1>2, <2>1 DEF RecordState
  <2> HIDE DEF r
  <2>4. Return([db EXCEPT ![cur] = r]) /\ db[cur].st = "PROTECTING"
    BY <1>1, <1>4, <2>2 DEF StopPlaced
  <2>5. RecordStates' /\ LegalStep
    BY <1>1, <2>1, <2>3, <2>4, MoveWrite, EntryMoves DEF Return, StatesKnown
  <2> QED
    BY <2>4, <2>5, ReturnAt DEF StatesKnown
<1>5. CASE StopRefused
  BY <1>1, <1>2, <1>5, CloseMoves DEF StopRefused
<1>6. CASE CloseOrder \/ CloseSeen
  <2>1. db' = db /\ cur' = cur /\ h' = h /\ pc' \in {"close", "final"} /\ pc = "close"
    BY <1>6 DEF CloseOrder, CloseSeen, GoTo
  <2>2. StateAt'
    BY <1>1, <2>1 DEF StateAt
  <2> QED
    BY <2>1, <2>2, GoMoves
<1>7. CASE CloseFails
  BY <1>1, <1>2, <1>7, ReturnMoves, BoughtMoves DEF CloseFails
<1>8. CASE Finalize
  BY <1>1, <1>2, <1>8, ReturnMoves, EntryMoves DEF Finalize
<1> QED
  BY <1>3, <1>4, <1>5, <1>6, <1>7, <1>8 DEF Guard

LEMMA StaleMoves ==
  ASSUME IInv, StatesKnown, StaleFound \/ StaleNotFound \/ StaleUnresolved \/ StalePending
  PROVE  StatesKnown' /\ LegalStep
<1>1. /\ h.ret = "r10b" => h.why /= "none"
      /\ pc = "resolve" /\ h.ret = "r10b"
           => cur /= 0 /\ db[cur].st \in {"ENTRY_PENDING", "RECOVERY_REQUIRED"}
  BY DEF StatesKnown, StateAt, Recovering, IInv, FrameOK, HasTrade
<1>2. CASE StaleFound
  <2>1. cur /= 0 /\ db[cur].st \in {"ENTRY_PENDING", "RECOVERY_REQUIRED"}
    BY <1>1, <1>2 DEF StaleFound, Lookup
  <2>2. CASE db' = db /\ GoTo("wait") /\ UNCHANGED h
    <3>1. StateAt'
      BY <2>1, <2>2 DEF GoTo, StateAt
    <3> QED
      BY <2>2, <3>1, GoMoves DEF GoTo
  <2>3. CASE Return(WithState("CLOSED")) \/ Return(db)
    BY <2>1, <2>3, PendingMoves, ReturnStays
  <2> QED
    BY <1>2, <2>1, <2>2, <2>3 DEF StaleFound
<1>3. CASE StaleNotFound
  BY <1>1, <1>3, PendingMoves, ReturnStays DEF StaleNotFound, Lookup
<1>4. CASE StaleUnresolved
  <2>1. db' = db /\ h' = h /\ pc' = "r10b" /\ h.ret = "r10b"
    BY <1>4 DEF StaleUnresolved
  <2>2. RecordStates' /\ LegalStep
    BY <2>1, MoveSame DEF StatesKnown
  <2> QED
    BY <1>1, <2>1, <2>2 DEF StatesKnown, StateAt, Recovering
<1>5. CASE StalePending
  <2>1. h'.why = h.why /\ h'.ret = "r8" /\ pc' = "r7" /\ h.why /= "none"
    BY <1>5 DEF StalePending, IInv, TypeOK, Frame, StatesKnown, Recovering
  <2>2. CASE db' = db
    <3>1. RecordStates' /\ LegalStep
      BY <2>2, MoveSame DEF StatesKnown
    <3> QED
      BY <2>1, <3>1 DEF StatesKnown, StateAt, Recovering
  <2>3. CASE cur /= 0 /\ db[cur].st \in {"SIGNAL_DETECTED", "ENTRY_PENDING"}
             /\ db' = WithState("CLOSED")
    <3>1. RecordStates' /\ LegalStep
      BY <2>3, MoveState, EntryMoves DEF StatesKnown
    <3> QED
      BY <2>1, <3>1 DEF StatesKnown, StateAt, Recovering
  <2> QED
    BY <1>5, <2>2, <2>3 DEF StalePending
<1> QED
  BY <1>2, <1>3, <1>4, <1>5

\* A position nobody bought is taken over: closed, kept under its stop, or protected.
LEMMA AdoptionMoves ==
  ASSUME IInv, StatesKnown, Orphan \/ AdoptNew \/ AdoptRecovery \/ AdoptGuard
  PROVE  StatesKnown' /\ LegalStep
<1>1. CASE Orphan
  <2>1. pc' = "adopt" /\ h' = h /\ h.why /= "none" /\ h.ret /= "idle"
    BY <1>1 DEF Orphan, Step7, StatesKnown, Recovering
  <2>2. CASE cur = 0
    <3>1. RecordStates' /\ LegalStep
      BY <1>1, <2>2, MoveSame DEF Orphan, StatesKnown
    <3> QED
      BY <2>1, <3>1 DEF StatesKnown, StateAt, Recovering
  <2>3. CASE cur /= 0
    <3>1. ~db[cur].filled /\ db' = WithState("CLOSED")
      BY <1>1, <2>3 DEF Orphan, Owned
    <3>2. db[cur].st \in Unfilled
      BY <2>3, <3>1, CurState DEF StatesKnown
    <3>3. RecordStates' /\ LegalStep
      BY <2>1, <2>3, <3>1, <3>2, MoveState, ForcedMoves DEF StatesKnown
    <3> QED
      BY <2>1, <3>3 DEF StatesKnown, StateAt, Recovering
  <2> QED
    BY <2>2, <2>3
<1>2. CASE AdoptNew
  <2>1. PICK n \in Trades :
          /\ Fresh(n) /\ cur' = n
          /\ db' = [db EXCEPT ![n].st = "IDLE", ![n].adopted = TRUE, ![n].dir = Sgn(h.qty)]
    BY <1>2 DEF AdoptNew
  <2>2. db[n] = NoTrade /\ db[n].st = "none"
    BY <2>1 DEF IInv, RecordsInOrder, Fresh
  <2>3. /\ db'[n] = [NoTrade EXCEPT !.st = "IDLE", !.adopted = TRUE, !.dir = Sgn(h.qty)]
        /\ \A t \in Trades : t /= n => db'[t] = db[t]
    BY <2>1, <2>2 DEF IInv, TypeOK
  <2>4. db'[n].st = "IDLE" /\ RecordState(db'[n])
    BY <2>3 DEF NoTrade, RecordState, Unfilled
  <2>5. RecordStates'
    BY <2>3, <2>4, RecordStatesParts DEF StatesKnown
  <2>6. LegalStep
    BY <2>2, <2>3, <2>4 DEF LegalStep, CanMove
  <2>7. pc' = "adopt1" /\ h' = h /\ pc = "adopt"
    BY <1>2 DEF AdoptNew
  <2> QED
    BY <2>1, <2>4, <2>5, <2>6, <2>7 DEF StatesKnown, StateAt, Recovering
<1>3. CASE AdoptRecovery
  <2>1. /\ db' = WithState("RECOVERY_REQUIRED") /\ pc' = "adopt2" /\ cur' = cur /\ h' = h
        /\ cur /= 0 /\ db[cur].st = "IDLE" /\ pc = "adopt1"
    BY <1>3 DEF AdoptRecovery, GoTo, StatesKnown, StateAt, IInv, FrameOK, HasTrade
  <2>2. RecordStates' /\ LegalStep /\ db'[cur].st = "RECOVERY_REQUIRED"
    BY <2>1, MoveState, EntryMoves DEF StatesKnown, Unfilled
  <2> QED
    BY <2>1, <2>2 DEF StatesKnown, StateAt, Recovering
<1>4. CASE AdoptGuard
  <2>1. /\ cur /= 0 /\ cur \in Trades /\ db[cur] \in TradeRecord
        /\ db[cur].st = "RECOVERY_REQUIRED" /\ cur' = cur /\ h' = h /\ pc = "adopt2"
    BY <1>4, CurTyped DEF AdoptGuard, StatesKnown, StateAt, IInv, FrameOK, HasTrade
  <2>2. ASSUME NEW r, r.filled = TRUE, r.st \in {"CLOSING", "PROTECTED", "PROTECTING"},
               db' = [db EXCEPT ![cur] = r]
        PROVE  RecordStates' /\ LegalStep /\ db'[cur].st = r.st
    <3>1. RecordState(r)
      BY <2>2 DEF RecordState
    <3>2. CanMove(db[cur].st, r.st)
      BY <2>1, <2>2, ForcedMoves
    <3> QED
      BY <2>1, <2>2, <3>1, <3>2, MoveWrite DEF StatesKnown
  <2>3. CASE /\ db' = [[db EXCEPT ![cur].filled = TRUE] EXCEPT ![cur].st = "CLOSING", ![cur].cr = TRUE]
             /\ pc' = "close"
    <3> DEFINE r == [db[cur] EXCEPT !.filled = TRUE, !.st = "CLOSING", !.cr = TRUE]
    <3>1. r.st = "CLOSING" /\ r.filled = TRUE
      BY <2>1 DEF TradeRecord
    <3>2. db' = [db EXCEPT ![cur] = r]
      BY <2>1, <2>3 DEF IInv, TypeOK
    <3> HIDE DEF r
    <3>3. RecordStates' /\ LegalStep /\ db'[cur].st = "CLOSING"
      BY <2>2, <3>1, <3>2
    <3> QED
      BY <2>1, <2>3, <3>3 DEF StatesKnown, StateAt, Recovering
  <2>4. ASSUME NEW s \in h.algos, pc' = "r8",
               db' = [[db EXCEPT ![cur].filled = TRUE] EXCEPT ![cur].st = "PROTECTED", ![cur].sl = s]
        PROVE  StatesKnown' /\ LegalStep
    <3> DEFINE r == [db[cur] EXCEPT !.filled = TRUE, !.st = "PROTECTED", !.sl = s]
    <3>1. r.st = "PROTECTED" /\ r.filled = TRUE
      BY <2>1 DEF TradeRecord
    <3>2. db' = [db EXCEPT ![cur] = r]
      BY <2>1, <2>4 DEF IInv, TypeOK
    <3> HIDE DEF r
    <3>3. RecordStates' /\ LegalStep
      BY <2>2, <3>1, <3>2
    <3> QED
      BY <2>1, <2>4, <3>3 DEF StatesKnown, StateAt, Recovering
  <2>5. CASE /\ db' = [[db EXCEPT ![cur].filled = TRUE] EXCEPT ![cur].st = "PROTECTING"]
             /\ pc' = "guard"
    <3> DEFINE r == [db[cur] EXCEPT !.filled = TRUE, !.st = "PROTECTING"]
    <3>1. r.st = "PROTECTING" /\ r.filled = TRUE
      BY <2>1 DEF TradeRecord
    <3>2. db' = [db EXCEPT ![cur] = r]
      BY <2>1, <2>5 DEF IInv, TypeOK
    <3> HIDE DEF r
    <3>3. RecordStates' /\ LegalStep /\ db'[cur].st = "PROTECTING"
      BY <2>2, <3>1, <3>2
    <3> QED
      BY <2>1, <2>5, <3>3 DEF StatesKnown, StateAt, Recovering
  <2> QED
    BY <1>4, <2>3, <2>4, <2>5 DEF AdoptGuard
<1> QED
  BY <1>1, <1>2, <1>3, <1>4

\* Steps 9 and 11: a position and the trade that knows what it bought.
LEMMA OwnedMoves ==
  ASSUME IInv, StatesKnown,
         DirectionMismatch \/ ResumeClose \/ ProtectAgain \/ StopInPlace \/ ClosedOffline
  PROVE  StatesKnown' /\ LegalStep
<1>1. cur /= 0 /\ db[cur].filled /\ pc = "r7"
  BY DEF DirectionMismatch, ResumeClose, ProtectAgain, StopInPlace, ClosedOffline, SameWay, Step7, Owned
<1>2. db[cur].st \in Bought /\ h.why /= "none" /\ cur \in Trades /\ db[cur] \in TradeRecord
  BY <1>1, CurState, CurTyped DEF StatesKnown, Recovering
<1>3. CASE DirectionMismatch
  <2>1. db' = WithState("ERROR") /\ pc' = "r8" /\ h' = h
    BY <1>3 DEF DirectionMismatch
  <2>2. RecordStates' /\ LegalStep
    BY <1>1, <1>2, <2>1, MoveState, BoughtMoves DEF StatesKnown
  <2> QED
    BY <1>1, <1>2, <2>1, <2>2 DEF StatesKnown, StateAt, Recovering
<1>4. CASE ResumeClose \/ ClosedOffline
  BY <1>1, <1>2, <1>4, CloseMoves DEF ResumeClose, ClosedOffline
<1>5. CASE ProtectAgain
  <2>1. /\ db' = WithState("PROTECTING") /\ pc' = "guard" /\ h' = h /\ cur' = cur
        /\ db[cur].st /= "CLOSING"
    BY <1>5 DEF ProtectAgain, GoTo, Resuming
  <2>2. RecordStates' /\ LegalStep /\ db'[cur].st = "PROTECTING"
    BY <1>1, <1>2, <2>1, MoveState, ForcedMoves DEF StatesKnown
  <2> QED
    BY <1>2, <2>1, <2>2 DEF StatesKnown, StateAt, Recovering
<1>6. CASE StopInPlace
  <2> DEFINE s == IF db[cur].st \in Holding THEN db[cur].st ELSE "PROTECTED"
             r == [db[cur] EXCEPT !.st = s, !.sl = cur]
  <2>1. db[cur].st \in Holding \union {"RECOVERY_REQUIRED", "ERROR"}
    BY <1>2, <1>6 DEF StopInPlace, Resuming, Bought
  <2>2. s \in Holding /\ CanForce(db[cur].st, s)
    BY <2>1, ForcedMoves DEF CanForce, Holding
  <2>3. r.st = s /\ r.filled = db[cur].filled
    BY <1>2 DEF TradeRecord
  <2>4. RecordState(r)
    BY <1>1, <2>2, <2>3 DEF RecordState, Holding
  <2>5. [db EXCEPT ![cur].st = IF @ \in Holding THEN @ ELSE "PROTECTED", ![cur].sl = cur]
          = [db EXCEPT ![cur] = r]
    BY <1>2 DEF IInv, TypeOK
  <2> HIDE DEF r, s
  <2>6. Return([db EXCEPT ![cur] = r])
    BY <1>6, <2>5 DEF StopInPlace
  <2>7. RecordStates' /\ LegalStep
    BY <1>1, <1>2, <2>2, <2>3, <2>4, <2>6, MoveWrite DEF Return, StatesKnown
  <2> QED
    BY <2>6, <2>7, ReturnAt DEF StatesKnown
<1> QED
  BY <1>3, <1>4, <1>5, <1>6

LEMMA RecoveryMoves ==
  ASSUME IInv, StatesKnown, Recovery
  PROVE  StatesKnown' /\ LegalStep
<1>1. CASE Query
  <2>1. db' = db /\ cur' = cur /\ Newest = cur
    BY <1>1, QuerySame DEF IInv
  <2>2. h'.why = h.why /\ h.why /= "none" /\ h'.ret /= "idle"
    BY <1>1 DEF Query, IInv, TypeOK, Frame, StatesKnown, Recovering
  <2>3. pc' \in {"r7", "resolve", "r10b"}
    BY <1>1 DEF Query
  <2>4. pc' = "resolve" => cur /= 0 /\ ~db[cur].filled /\ db[cur].att > 0
    BY <1>1, <2>1 DEF Query
  <2>5. pc' = "resolve" => db[cur].st \in {"ENTRY_PENDING", "RECOVERY_REQUIRED"}
    BY <2>4, CurState DEF StatesKnown, RecordState, Unfilled
  <2>6. RecordStates' /\ LegalStep
    BY <2>1, MoveSame DEF StatesKnown
  <2>7. StateAt'
    BY <2>1, <2>3, <2>5 DEF StateAt
  <2> QED
    BY <2>2, <2>6, <2>7 DEF StatesKnown, Recovering
<1>2. CASE QueryFails \/ Finish
  BY <1>2, GoneMoves DEF QueryFails, Finish, NoFrame
<1>3. CASE ResolveMiss
  <2>1. db' = db /\ cur' = cur /\ h'.why = h.why /\ h'.ret = h.ret /\ pc' = "resolve" /\ pc = "resolve"
    BY <1>3 DEF ResolveMiss, Lookup, GoTo, IInv, TypeOK, Frame
  <2>2. StateAt'
    BY <2>1 DEF StatesKnown, StateAt
  <2> QED
    BY <2>1, <2>2, GoMoves
<1>4. CASE NothingHeld
  <2>1. db' = db /\ cur' = cur /\ h' = h /\ pc' = "r8" /\ pc = "r7"
    BY <1>4 DEF NothingHeld, Step7, GoTo
  <2>2. StateAt' /\ Recovering'
    BY <2>1 DEF StateAt, StatesKnown, Recovering
  <2> QED
    BY <2>1, <2>2, MoveSame DEF StatesKnown
<1>5. CASE OrphanOrders
  <2>1. h.why /= "none"
    BY <1>5 DEF OrphanOrders, StatesKnown, Recovering
  <2>2. db' = db /\ cur' = cur /\ h'.why = h.why /\ pc' = "sweep"
    BY <1>5 DEF OrphanOrders, GoTo, IInv, TypeOK, Frame
  <2>3. StateAt' /\ Recovering'
    BY <2>1, <2>2 DEF StateAt, Recovering
  <2> QED
    BY <2>2, <2>3, MoveSame DEF StatesKnown
<1>6. CASE SweepNext \/ SweepResolve
  <2>1. db' = db /\ cur' = cur /\ h'.why = h.why /\ h'.ret = "sweep" /\ h.ret = "sweep" /\ pc' \in {"resolve", "sweep"}
    BY <1>6 DEF SweepNext, SweepResolve, SweepDone, Lookup, GoTo, IInv, TypeOK, Frame, FrameOK
  <2>2. StateAt'
    BY <2>1 DEF StateAt
  <2> QED
    BY <2>1, <2>2, GoMoves
<1> QED
  BY <1>1, <1>2, <1>3, <1>4, <1>5, <1>6, StaleMoves, AdoptionMoves, OwnedMoves DEF Recovery

LEMMA NextMoves ==
  ASSUME IInv, StatesKnown, [Next]_vars
  PROVE  StatesKnown' /\ LegalStep
<1>1. CASE Exchange \/ \E i \in Ids : UserEvent(i)
  <2>1. db' = db /\ cur' = cur /\ h' = h /\ pc' = pc
    BY <1>1 DEF Exchange, Land, Match, Lose, Buy, StopFires, ManualTrade, UserEvent, memory
  <2>2. RecordStates' /\ LegalStep
    BY <2>1, MoveSame DEF StatesKnown
  <2> QED
    BY <2>1, <2>2 DEF StatesKnown, StateAt, Recovering
<1>2. CASE BarExit \/ NoticeFlat
  <2>1. cur /= 0 /\ (db[cur].st \in Holding \/ db[cur].filled)
    BY <1>2 DEF BarExit, NoticeFlat
  <2>2. db[cur].filled = TRUE /\ db[cur].st \in Bought
    <3>1. db[cur].filled \in BOOLEAN
      BY <2>1, CurTyped DEF TradeRecord
    <3>2. db[cur].st \in Holding => db[cur].st \notin Unfilled
      BY DEF Holding, Unfilled
    <3> QED
      BY <2>1, <3>1, <3>2, CurState DEF StatesKnown
  <2> QED
    BY <1>2, <2>1, <2>2, CloseMoves DEF BarExit, NoticeFlat
<1>3. CASE Reconcile
  <2>1. db' = db /\ h'.why = "periodic" /\ pc' = "rq"
    BY <1>3 DEF Reconcile, GoTo, NoFrame
  <2>2. RecordStates' /\ LegalStep
    BY <2>1, MoveSame DEF StatesKnown
  <2> QED
    BY <2>1, <2>2 DEF StatesKnown, StateAt, Recovering
<1>4. CASE Crash
  BY <1>4, GoneMoves DEF Crash, ProcessDown, NoFrame
<1>5. CASE Restart
  <2>1. db' = db /\ h'.why = "startup" /\ pc' = "rq"
    BY <1>5 DEF Restart, NoFrame
  <2>2. RecordStates' /\ LegalStep
    BY <2>1, MoveSame DEF StatesKnown
  <2> QED
    BY <2>1, <2>2 DEF StatesKnown, StateAt, Recovering
<1>6. CASE UNCHANGED vars
  <2>1. db' = db /\ cur' = cur /\ h' = h /\ pc' = pc
    BY <1>6 DEF vars
  <2>2. RecordStates' /\ LegalStep
    BY <2>1, MoveSame DEF StatesKnown
  <2> QED
    BY <2>1, <2>2 DEF StatesKnown, StateAt, Recovering
<1> QED
  BY <1>1, <1>2, <1>3, <1>4, <1>5, <1>6, SignalMoves, EntryStepMoves, GuardMoves, RecoveryMoves
     DEF Next, Events

LEMMA InitStates == Init => StatesKnown
<1> SUFFICES ASSUME Init PROVE StatesKnown
  OBVIOUS
<1>1. \A t \in Trades : db[t] = NoTrade
  BY DEF Init
<1>2. RecordStates
  BY <1>1 DEF NoTrade, RecordStates
<1> QED
  BY <1>2 DEF Init, NoFrame, StatesKnown, StateAt, Recovering

\* Whatever fails, crashes or is done by hand: no handler asks the state machine
\* for a transition its table forbids (context.py transition, state_machine.py),
\* and only recovery goes through RECOVERY_REQUIRED to get where it wants.
THEOREM TransitionsLegal == Spec => NoInvalidTransition
<1>1. Init => StatesKnown
  BY InitStates
<1>2. IInv /\ StatesKnown /\ [Next]_vars => StatesKnown'
  BY NextMoves
<1>3. IInv /\ StatesKnown /\ [Next]_vars =>
        [\A t \in Trades :
           LET from == db[t].st
               to   == db'[t].st
           IN  IF from = "none" THEN to \in {"none", "IDLE"}
               ELSE \/ CanMove(from, to)
                    \/ h.why /= "none" /\ CanForce(from, to)]_vars
  BY NextMoves DEF LegalStep
<1> QED
  BY <1>1, <1>2, <1>3, Invariant, PTL DEF Spec, NoInvalidTransition

============================================================================
