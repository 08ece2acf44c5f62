----------------------------- MODULE EntryFlow -----------------------------
(***************************************************************************)
(* How the COIN-M bot gets into a position and how it finds its way back   *)
(* after an unknown answer or a crash: engine.py, entry_manager.py,        *)
(* context.py and recovery_manager.py against an exchange that may accept  *)
(* an order whose answer is lost.                                          *)
(*                                                                         *)
(* One step is the code between two awaits of the task that holds the      *)
(* engine lock (pc says where it is), one step of the exchange, or one     *)
(* persisted write where a crash could fall between two writes.  The       *)
(* database is sqlite in autocommit mode, so db and row survive a crash    *)
(* and everything in "memory" does not.  Protection and closing are kept   *)
(* to what this component needs of them (PROTECTED with a stop, CLOSED     *)
(* flat, or ERROR).  Bounds: MaxArms signals, MaxFaults failed calls,      *)
(* MaxCrashes crashes, MaxManual interventions of a person on the account, *)
(* MaxSlow orders the exchange does not match at once.                     *)
(***************************************************************************)
EXTENDS TradeStates

CONSTANTS
  MaxTrades,     \* trade records: armed signals and adopted orphans
  MaxArms,       \* how many of them a signal may start
  MaxSeq,        \* entry order numbers EN0, EN1, ... of one trade
  MaxAttempts,   \* settings.entry_max_attempts
  Qty,           \* contracts of one sized entry
  MaxFaults, MaxCrashes, MaxManual,
  MaxSlow,       \* accepted orders that rest before they are matched
  MaxTroubles    \* all of these together

ASSUME BoundsAssumption ==
  /\ MaxTrades \in Nat /\ MaxArms \in 0..MaxTrades
  /\ MaxSeq \in Nat \ {0} /\ MaxAttempts \in Nat \ {0} /\ Qty \in Nat \ {0}
  /\ MaxFaults \in Nat /\ MaxCrashes \in Nat /\ MaxManual \in Nat
  /\ MaxSlow \in Nat /\ MaxTroubles \in Nat

Trades == 1..MaxTrades
Ids    == Trades \X (1..MaxSeq)      \* <<t, n>>: the n-th entry order of t
NoId   == <<0, 0>>

VARIABLES
  ex,      \* exchange: state and executed quantity of every entry order
  pos,     \* exchange: the signed net position
  stops,   \* exchange: trades that have a resting close-position stop
  db,      \* disk: the trade records
  row,     \* disk: the status of every entry order row
  cur,     \* memory: engine.trade (0: none)
  ta,      \* memory: engine.trading_allowed
  halts,   \* memory: the keys of engine.halts this component sets
  pc,      \* where the task that holds engine.lock is
  h,       \* its local variables
  bud      \* bounds spent so far

exchange == <<ex, pos, stops>>
memory   == <<cur, ta, halts, pc, h>>
vars     == <<ex, pos, stops, db, row, cur, ta, halts, pc, h, bud>>

----------------------------------------------------------------------------
(* Orders as the exchange and the order rows see them. *)

Resting  == {"NEW", "PARTIALLY_FILLED"}
Final    == {"FILLED", "EXPIRED", "CANCELED"}
OrderState == [st: {"none", "flight"} \union Resting \union Final, q: 0..Qty]
Landed(i) == ex[i].st \in Resting \union Final
UnderWay  == \E i \in Ids : ex[i].st = "flight"
\* what a restart must resolve before it may act (recovery step 10)
Unresolved == {"PENDING_SUBMIT", "UNKNOWN"} \union Resting
RowStatus  == {"none", "REJECTED", "NOT_PLACED"} \union Unresolved \union Final

\* Mutated form: the signed amount itself serves as a direction.
Sgn_Amount(n) == n

Sgn(n) == IF n > 0 THEN 1 ELSE IF n < 0 THEN -1 ELSE 0

NoTrade == [st |-> "none", filled |-> FALSE, att |-> 0, adopted |-> FALSE,
            dir |-> 1, cr |-> FALSE, sl |-> 0]
\* filled: entry_avg_price is set; att: the last entry order (0: none yet);
\* cr: close_reason is set; sl: the trade whose stop orders["stop"] names.
TradeRecord == [st: TradeState \union {"none"}, filled: BOOLEAN, att: 0..MaxSeq,
                adopted: BOOLEAN, dir: {-1, 1}, cr: BOOLEAN, sl: 0..MaxTrades]

Active(t) == db[t].st \notin {"none", "CLOSED"}      \* db.active_positions
Newest    == IF \E t \in Trades : Active(t)
             THEN CHOOSE t \in Trades : /\ Active(t)
                                        /\ \A u \in Trades : Active(u) => u <= t
             ELSE 0
\* Mutated form: a closed record is taken again for the next trade.
Fresh_Reuse(n) == /\ n \in Trades /\ db[n].st \in {"none", "CLOSED"}
                  /\ \A u \in Trades : u < n => db[u].st /= "none"

\* the number the next record of the database gets
Fresh(n)  == /\ n \in Trades /\ db[n].st = "none"
             /\ \A u \in Trades : u < n => db[u].st /= "none"

\* ret: where the handler returns to; why: what started recovery; id, miss:
\* the order being resolved; qty, algos: the snapshot recovery works from;
\* xq: executed quantity of the confirmed order; todo: rows still to refresh.
NoFrame == [ret |-> "idle", why |-> "none", id |-> NoId, miss |-> 0, qty |-> 0,
            algos |-> {}, xq |-> 0, todo |-> {}]

Frame == [ret: {"idle", "r10b", "r8", "sweep"}, why: {"none", "startup", "periodic"},
          id: Ids \union {NoId}, miss: 0..2, qty: Int, algos: SUBSET Trades,
          xq: 0..Qty, todo: SUBSET Ids]

EntryPc    == {"check", "submit", "sent", "notfound"}
ConfirmPc  == {"resolve", "wait", "fillpos", "bypos"}
GuardPc    == {"guard0", "guard", "close", "final"}
RecoveryPc == {"rq", "r10b", "r7", "adopt", "adopt1", "adopt2", "r8", "sweep"}
Pc == {"down", "idle", "arm1", "arm2"} \union EntryPc \union ConfirmPc
        \union GuardPc \union RecoveryPc

\* hasty: recovery failed after a crash, and ended before the request that was
\* under way at the crash was decided; alien: a stop of an earlier trade closed
\* a position while the trade that may have bought it still waited.
Budget == [fault: 0..MaxFaults, crash: 0..MaxCrashes, manual: 0..MaxManual,
           slow: 0..MaxSlow, hasty: BOOLEAN, alien: BOOLEAN]

Init ==
  /\ ex = [i \in Ids |-> [st |-> "none", q |-> 0]]
  /\ pos = 0 /\ stops = {}
  /\ db = [t \in Trades |-> NoTrade]
  /\ row = [i \in Ids |-> "none"]
  /\ cur = 0 /\ ta = FALSE /\ halts = {} /\ pc = "down" /\ h = NoFrame
  /\ bud = [fault |-> 0, crash |-> 0, manual |-> 0, slow |-> 0, hasty |-> FALSE, alien |-> FALSE]

----------------------------------------------------------------------------
(* Bounds, and how a handler ends. *)

Troubles == bud.fault + bud.crash + bud.manual + bud.slow

Fault == /\ bud.fault < MaxFaults /\ Troubles < MaxTroubles
         /\ bud' = [bud EXCEPT !.fault = @ + 1]

GoTo(where) == /\ pc' = where
               /\ UNCHANGED <<cur, ta, halts>>

\* The handler is over and leaves d in the database: engine._sync_trade drops
\* a closed trade (and the orphan halt), recovery drops it with the halt kept.
Return(d) ==
  LET closed == d[cur].st = "CLOSED" IN
  /\ db' = d
  /\ pc' = h.ret
  /\ cur' = IF closed THEN 0 ELSE cur
  /\ halts' = IF closed /\ d[cur].adopted /\ h.ret = "idle"
              THEN halts \ {"orphan"} ELSE halts
  /\ h' = IF h.ret = "idle" THEN NoFrame ELSE h
  /\ UNCHANGED ta

WithState(s) == [db EXCEPT ![cur].st = s]

ProcessDown == /\ pc' = "down" /\ cur' = 0 /\ ta' = FALSE /\ halts' = {}
               /\ h' = NoFrame

\* An ExchangeError leaves the handler: bot.setup lets the process end, every
\* other caller logs it and goes on with what is in memory.
Raise ==
  /\ Fault
  /\ \/ /\ h.why = "startup"
        /\ ProcessDown
     \/ /\ h.why /= "startup"
        /\ h' = NoFrame
        /\ GoTo("idle")
  /\ UNCHANGED <<exchange, db, row>>

----------------------------------------------------------------------------
(* The exchange, a person on the account, and the process. *)

Buy(i, e) == /\ ex' = [ex EXCEPT ![i] = e]
             /\ pos' = pos + (e.q - ex[i].q)
             /\ UNCHANGED <<stops, db, row, memory>>

\* The request reaches the exchange: it is matched at once, or it rests.
Land(i) ==
  /\ ex[i].st = "flight"
  /\ \/ /\ \/ Buy(i, [st |-> "FILLED", q |-> Qty])
           \/ \E q \in 0..(Qty - 1) : Buy(i, [st |-> "EXPIRED", q |-> q])
        /\ UNCHANGED bud
     \/ /\ bud.slow < MaxSlow /\ Troubles < MaxTroubles
        /\ bud' = [bud EXCEPT !.slow = @ + 1]
        /\ Buy(i, [st |-> "NEW", q |-> 0])

Match(i) ==
  /\ ex[i].st \in Resting
  /\ \/ Buy(i, [st |-> "FILLED", q |-> Qty])
     \/ Buy(i, [st |-> "EXPIRED", q |-> ex[i].q])
     \/ \E q \in (ex[i].q + 1)..(Qty - 1) : Buy(i, [st |-> "PARTIALLY_FILLED", q |-> q])
  /\ UNCHANGED bud

\* A request nobody waits for any more never arrives, or arrives after its
\* recvWindow and is refused.
Lose(i) ==
  /\ ex[i].st = "flight" /\ ~(pc = "sent" /\ h.id = i)
  /\ ex' = [ex EXCEPT ![i].st = "none"]
  /\ UNCHANGED <<pos, stops, db, row, memory, bud>>

StopFires ==
  /\ pos /= 0
  /\ \E s \in stops : stops' = stops \ {s}
  /\ pos' = 0
  /\ bud' = [bud EXCEPT !.alien = @ \/ \E t \in Trades : Active(t) /\ ~db[t].filled]
  /\ UNCHANGED <<ex, db, row, memory>>

\* Somebody trades the same account by hand: opens either way, or flattens.
ManualTrade ==
  /\ bud.manual < MaxManual /\ Troubles < MaxTroubles
  /\ bud' = [bud EXCEPT !.manual = @ + 1]
  /\ \/ pos = 0 /\ pos' \in {-Qty, Qty}
     \/ pos /= 0 /\ pos' = 0
  /\ UNCHANGED <<ex, stops, db, row, memory>>

Crash ==
  /\ pc /= "down" /\ bud.crash < MaxCrashes /\ Troubles < MaxTroubles
  /\ bud' = [bud EXCEPT !.crash = @ + 1]
  /\ ProcessDown
  /\ UNCHANGED <<exchange, db, row>>

Restart ==
  /\ pc = "down"
  /\ pc' = "rq" /\ cur' = Newest
  /\ h' = [NoFrame EXCEPT !.why = "startup"]
  /\ UNCHANGED <<exchange, db, row, ta, halts, bud>>

\* Mutated form: reconciled only while new entries are blocked.
Reconcile_WhenBlocked ==
  /\ pc = "idle" /\ ~ta
  /\ h' = [NoFrame EXCEPT !.why = "periodic"]
  /\ GoTo("rq")
  /\ UNCHANGED <<exchange, db, row, bud>>

\* Every five minutes, and whenever the user stream reconnects.
Reconcile ==
  /\ pc = "idle"
  /\ h' = [NoFrame EXCEPT !.why = "periodic"]
  /\ GoTo("rq")
  /\ UNCHANGED <<exchange, db, row, bud>>

\* ORDER_TRADE_UPDATE of an entry order: the row follows the exchange.
UserEvent(i) ==
  /\ pc = "idle" /\ Landed(i) /\ row[i] \notin {"none", ex[i].st}
  /\ row' = [row EXCEPT ![i] = ex[i].st]
  /\ UNCHANGED <<exchange, db, memory, bud>>

----------------------------------------------------------------------------
(* EntryManager: arm, wait for the breakout, buy once. *)

\* A signal of a closed bar takes the free slot: three persisted states.
Arm ==
  /\ pc = "idle" /\ cur = 0 /\ ta /\ halts = {}
  /\ \E n \in 1..MaxArms :
       /\ Fresh(n)
       /\ cur' = n
       /\ db' = [db EXCEPT ![n].st = "IDLE"]
  /\ pc' = "arm1"
  /\ UNCHANGED <<exchange, row, ta, halts, h, bud>>

ArmSignal ==
  /\ pc = "arm1"
  /\ db' = WithState("SIGNAL_DETECTED")
  /\ GoTo("arm2")
  /\ UNCHANGED <<exchange, row, h, bud>>

ArmPending ==
  /\ pc = "arm2"
  /\ db' = WithState("ENTRY_PENDING")
  /\ GoTo("idle")
  /\ UNCHANGED <<exchange, row, h, bud>>

Waiting == pc = "idle" /\ cur /= 0 /\ db[cur].st = "ENTRY_PENDING"

\* Expired, stopped before entry, blocked, opposite signal: the wait is over.
CancelWait ==
  /\ Waiting
  /\ Return(WithState("CLOSED"))
  /\ UNCHANGED <<exchange, row, bud>>

Trigger ==
  /\ Waiting /\ ta /\ halts = {}
  /\ GoTo("check")
  /\ UNCHANGED <<exchange, db, row, h, bud>>

\* get_position and get_account before the order is sized.
CheckFails ==
  /\ pc = "check" /\ Fault
  /\ GoTo("idle")
  /\ UNCHANGED <<exchange, db, row, h>>

\* A position is there, or the risk limits or the sizing say no.
CheckRefuses ==
  /\ pc = "check"
  /\ Return(WithState("CLOSED"))
  /\ UNCHANGED <<exchange, row, bud>>

\* A new order id is drawn and saved with the trade before anything is sent.
CheckPasses ==
  /\ pc = "check" /\ pos = 0 /\ db[cur].att < MaxSeq
  /\ db' = [db EXCEPT ![cur].att = @ + 1]
  /\ h' = [h EXCEPT !.id = <<cur, db[cur].att + 1>>]
  /\ GoTo("submit")
  /\ UNCHANGED <<exchange, row, bud>>

\* ExecutionContext.submit: the row first, then the request.
Submit ==
  /\ pc = "submit"
  /\ row' = [row EXCEPT ![h.id] = "PENDING_SUBMIT"]
  /\ ex' = [ex EXCEPT ![h.id].st = "flight"]
  /\ GoTo("sent")
  /\ UNCHANGED <<pos, stops, db, h, bud>>

Answered ==
  /\ pc = "sent" /\ Landed(h.id)
  /\ row' = [row EXCEPT ![h.id] = ex[h.id].st]
  /\ GoTo("wait")
  /\ UNCHANGED <<exchange, db, h, bud>>

\* A timeout, a dropped connection or a 5xx: nobody knows.
AnswerLost ==
  /\ pc = "sent" /\ Fault
  /\ row' = [row EXCEPT ![h.id] = "UNKNOWN"]
  /\ GoTo("resolve")
  /\ UNCHANGED <<exchange, db, h>>

\* The exchange or the live gate refuses the order: the trade is cancelled.
Refused(status) ==
  /\ pc = "sent" /\ ex[h.id].st = "flight"
  /\ ex' = [ex EXCEPT ![h.id].st = "none"]
  /\ row' = [row EXCEPT ![h.id] = status]
  /\ Return(WithState("CLOSED"))
  /\ UNCHANGED <<pos, stops, bud>>

\* Rate limited or not connected: known not to be sent, and not caught by
\* EntryManager.execute, so the trade stays where it is.
NotSent ==
  /\ pc = "sent" /\ ex[h.id].st = "flight" /\ Fault
  /\ ex' = [ex EXCEPT ![h.id].st = "none"]
  /\ row' = [row EXCEPT ![h.id] = "REJECTED"]
  /\ h' = NoFrame
  /\ GoTo("idle")
  /\ UNCHANGED <<pos, stops, db>>

----------------------------------------------------------------------------
(* ExecutionContext.resolve: up to five queries with pauses of 11.5 s in    *)
(* total, longer than the recvWindow of the request, so an order that is    *)
(* not there at the end will not arrive any more.  Three callers.           *)

Lookup == pc = "resolve" /\ UNCHANGED <<exchange, bud>>

\* Mutated form: the last query is made while the request may still arrive.
Missing_Early == ~Landed(h.id)

Missing == ex[h.id].st = "none"

ResolveMiss ==
  /\ Lookup /\ ~Landed(h.id) /\ h.miss < 2
  /\ h' = [h EXCEPT !.miss = @ + 1]
  /\ GoTo("resolve")
  /\ UNCHANGED <<db, row>>

\* submit() finds its order: the fill is confirmed next.
EntryFound ==
  /\ Lookup /\ h.ret = "idle" /\ Landed(h.id)
  /\ row' = [row EXCEPT ![h.id] = ex[h.id].st]
  /\ GoTo("wait")
  /\ UNCHANGED <<db, h>>

EntryNotFound ==
  /\ Lookup /\ h.ret = "idle" /\ Missing /\ h.miss = 2
  /\ row' = [row EXCEPT ![h.id] = "NOT_PLACED"]
  /\ GoTo("notfound")
  /\ UNCHANGED <<db, h>>

EntryUnresolved ==
  /\ pc = "resolve" /\ h.ret = "idle" /\ ex[h.id].st /= "flight" /\ Fault
  /\ GoTo("bypos")
  /\ UNCHANGED <<exchange, db, row, h>>

\* Recovery step 10 finds the entry order of an unfilled trade.
StaleFound ==
  /\ Lookup /\ h.ret = "r10b" /\ Landed(h.id)
  /\ row' = [row EXCEPT ![h.id] = ex[h.id].st]
  /\ \/ /\ ex[h.id].q > 0
        /\ db' = IF db[cur].st \in {"ENTRY_PENDING", "RECOVERY_REQUIRED"} THEN db
                 ELSE WithState("RECOVERY_REQUIRED")
        /\ GoTo("wait")
        /\ UNCHANGED h
     \/ /\ ex[h.id].q = 0 /\ ex[h.id].st \in Final
        /\ Return(WithState("CLOSED"))
     \/ /\ ex[h.id].q = 0 /\ ex[h.id].st \in Resting
        /\ Return(db)

StaleNotFound ==
  /\ Lookup /\ h.ret = "r10b" /\ Missing /\ h.miss = 2
  /\ row' = [row EXCEPT ![h.id] = "NOT_PLACED"]
  /\ Return(IF h.qty = 0 THEN WithState("CLOSED") ELSE db)

StaleUnresolved ==
  /\ pc = "resolve" /\ h.ret = "r10b" /\ ex[h.id].st /= "flight" /\ Fault
  /\ pc' = "r10b" /\ halts' = halts \union {"recovery"}
  /\ UNCHANGED <<exchange, db, row, cur, ta, h>>

\* The last part of recovery refreshes every row that still looks open.
SweepDone(status) ==
  /\ row' = [row EXCEPT ![h.id] = status]
  /\ h' = [h EXCEPT !.todo = @ \ {h.id}, !.id = NoId, !.miss = 0]
  /\ GoTo("sweep")

SweepResolve ==
  /\ pc = "resolve" /\ h.ret = "sweep"
  /\ \/ Lookup /\ Landed(h.id) /\ SweepDone(ex[h.id].st)
     \/ Lookup /\ Missing /\ h.miss = 2 /\ SweepDone("NOT_PLACED")
     \/ ex[h.id].st /= "flight" /\ Fault /\ SweepDone(row[h.id]) /\ UNCHANGED exchange
  /\ UNCHANGED db

----------------------------------------------------------------------------
(* EntryManager: what was bought, and the way to a protected position.     *)

MarkFilled ==
  /\ db' = [db EXCEPT ![cur].st = "ENTRY_FILLED", ![cur].filled = TRUE]
  /\ GoTo("guard0")
  /\ UNCHANGED h

\* _adopt_from_position: a position the wrong way round is left to recovery.
AdoptPosition ==
  \/ Sgn(pos) = db[cur].dir /\ MarkFilled
  \/ Sgn(pos) = -db[cur].dir /\ Return(WithState("RECOVERY_REQUIRED"))

\* The order never reached the exchange: look at the position, then give up
\* or leave the trade waiting for the next price.
NotFoundNext ==
  /\ pc = "notfound"
  /\ \/ pos /= 0 /\ AdoptPosition
     \/ pos = 0 /\ db[cur].att >= MaxAttempts /\ Return(WithState("CLOSED"))
     \/ pos = 0 /\ db[cur].att < MaxAttempts /\ Return(db)
  /\ UNCHANGED <<exchange, row, bud>>

NotFoundFails == pc = "notfound" /\ Raise

\* _resolve_by_position: a failed query counts as no position.
ByPosition ==
  /\ pc = "bypos"
  /\ \/ pos /= 0 /\ AdoptPosition /\ UNCHANGED bud
     \/ pos = 0 /\ Return(WithState("RECOVERY_REQUIRED")) /\ UNCHANGED bud
     \/ Fault /\ Return(WithState("RECOVERY_REQUIRED"))
  /\ UNCHANGED <<exchange, row>>

\* wait_final: poll until the order is final, or take the last answer.
WaitFinal ==
  /\ pc = "wait"
  /\ row' = [row EXCEPT ![h.id] = ex[h.id].st]
  /\ h' = [h EXCEPT !.xq = ex[h.id].q]
  /\ GoTo("fillpos")
  /\ UNCHANGED <<exchange, db, bud>>

WaitFails ==
  /\ pc = "wait" /\ Fault
  /\ GoTo("bypos")
  /\ UNCHANGED <<exchange, db, row, h>>

\* _confirm_fill after its position query.
ConfirmFill ==
  /\ pc = "fillpos"
  /\ \/ h.xq > 0 /\ MarkFilled
     \/ h.xq = 0 /\ pos /= 0 /\ AdoptPosition
     \/ h.xq = 0 /\ pos = 0 /\ Return(WithState("CLOSED"))
  /\ UNCHANGED <<exchange, row, bud>>

ConfirmFails == pc = "fillpos" /\ Raise

----------------------------------------------------------------------------
(* ProtectionManager.protect and ExitManager, kept to their outcomes.      *)

\* Mutated form: the stop is placed without entering PROTECTING first.
Protect_Skipped ==
  /\ pc = "guard0"
  /\ GoTo("guard")
  /\ UNCHANGED <<exchange, db, row, h, bud>>

Protect ==
  /\ pc = "guard0"
  /\ db' = WithState("PROTECTING")
  /\ GoTo("guard")
  /\ UNCHANGED <<exchange, row, h, bud>>

StopPlaced ==
  /\ pc = "guard"
  /\ stops' = stops \union {cur}
  /\ Return([db EXCEPT ![cur].st = "PROTECTED", ![cur].sl = cur])
  /\ UNCHANGED <<ex, pos, row, bud>>

BeginClose(where) ==
  /\ db' = [db EXCEPT ![cur].st = "CLOSING", ![cur].cr = TRUE]
  /\ GoTo(where)
  /\ UNCHANGED h

\* No stop can be placed, or it would trigger at once: close instead.
StopRefused ==
  /\ pc = "guard"
  /\ BeginClose("close")
  /\ UNCHANGED <<exchange, row, bud>>

\* A bar closes against the position.
BarExit ==
  /\ pc = "idle" /\ cur /= 0 /\ db[cur].st \in Holding
  /\ BeginClose("close")
  /\ UNCHANGED <<exchange, row, bud>>

\* A user event of a stop or of the account shows that the position is gone.
NoticeFlat ==
  /\ pc = "idle" /\ cur /= 0 /\ db[cur].filled /\ pos = 0
  /\ BeginClose("final")
  /\ UNCHANGED <<exchange, row, bud>>

\* A reduce-only market order for the position the exchange reports.
CloseOrder ==
  /\ pc = "close" /\ Sgn(pos) = db[cur].dir
  /\ pos' = 0
  /\ GoTo("close")
  /\ UNCHANGED <<ex, stops, db, row, h, bud>>

CloseSeen ==
  /\ pc = "close" /\ pos = 0
  /\ GoTo("final")
  /\ UNCHANGED <<exchange, db, row, h, bud>>

CloseFails ==
  /\ pc = "close"
  /\ \/ Fault
     \/ Sgn(pos) = -db[cur].dir /\ UNCHANGED bud
  /\ Return(WithState("ERROR"))
  /\ UNCHANGED <<exchange, row>>

\* finalize: cancel what is left of this trade (a failed cancel is logged).
Finalize ==
  /\ pc = "final"
  /\ \/ stops' = stops \ {cur} /\ UNCHANGED bud
     \/ cur \in stops /\ Fault /\ UNCHANGED stops
  /\ Return(WithState("CLOSED"))
  /\ UNCHANGED <<ex, pos, row>>

----------------------------------------------------------------------------
(* RecoveryManager.run.                                                    *)

\* Steps 1 to 6: the exchange, then the newest active record of the database.
Query ==
  /\ pc = "rq"
  /\ LET c == Newest
         i == <<c, db[c].att>>
         stale == db[c].att > 0 /\ row[i] \in Unresolved IN
     /\ db' = [t \in Trades |-> IF Active(t) /\ t /= c
                                THEN [db[t] EXCEPT !.st = "CLOSED"] ELSE db[t]]
     /\ cur' = c
     /\ IF c = 0 \/ db[c].filled
        THEN /\ pc' = "r7"
             /\ h' = [h EXCEPT !.qty = pos, !.algos = stops, !.ret = "r8"]
        ELSE /\ pc' = IF stale THEN "resolve" ELSE "r10b"
             /\ h' = [h EXCEPT !.qty = pos, !.algos = stops, !.ret = "r10b",
                               !.id = IF stale THEN i ELSE NoId]
  /\ ta' = FALSE /\ halts' = halts \ {"recovery"}
  /\ UNCHANGED <<exchange, row, bud>>

QueryFails ==
  /\ pc = "rq" /\ bud.fault < MaxFaults /\ Troubles < MaxTroubles
  /\ bud' = [bud EXCEPT !.fault = @ + 1, !.hasty = @ \/ UnderWay]
  /\ pc' = "idle" /\ h' = NoFrame
  /\ ta' = FALSE /\ halts' = halts \union {"recovery"}
  /\ UNCHANGED <<exchange, db, row, cur>>

\* End of step 10: a signal that never sent an order may be too old, after a
\* long absence or because it expired.
StalePending ==
  /\ pc = "r10b"
  /\ \/ db' = db
     \/ /\ cur /= 0 /\ db[cur].att = 0
        /\ db[cur].st \in {"SIGNAL_DETECTED", "ENTRY_PENDING"}
        /\ db' = WithState("CLOSED")
  /\ cur' = IF cur /= 0 /\ db'[cur].st = "CLOSED" THEN 0 ELSE cur
  /\ pc' = "r7"
  /\ h' = [h EXCEPT !.ret = "r8", !.id = NoId, !.miss = 0, !.xq = 0]
  /\ UNCHANGED <<exchange, row, ta, halts, bud>>

Owned == cur /= 0 /\ db[cur].filled      \* a trade that knows its entry price
Step7 == pc = "r7" /\ UNCHANGED <<exchange, row, bud>>

\* Step 7: a position without a trade that bought it.
Orphan ==
  /\ Step7 /\ h.qty /= 0 /\ ~Owned
  /\ db' = IF cur = 0 THEN db ELSE WithState("CLOSED")
  /\ pc' = "adopt" /\ cur' = 0
  /\ UNCHANGED <<ta, halts, h>>

\* _adopt_orphan, with its two first saves.
AdoptNew ==
  /\ pc = "adopt"
  /\ \E n \in Trades :
       /\ Fresh(n)
       /\ cur' = n
       /\ db' = [db EXCEPT ![n].st = "IDLE", ![n].adopted = TRUE, ![n].dir = Sgn(h.qty)]
  /\ pc' = "adopt1"
  /\ UNCHANGED <<exchange, row, ta, halts, h, bud>>

AdoptRecovery ==
  /\ pc = "adopt1"
  /\ db' = WithState("RECOVERY_REQUIRED")
  /\ GoTo("adopt2")
  /\ UNCHANGED <<exchange, row, h, bud>>

\* Entry price and stop are known: close it, keep a stop of this bot that the
\* snapshot shows, or protect it.
AdoptGuard ==
  LET d == [db EXCEPT ![cur].filled = TRUE] IN
  /\ pc = "adopt2"
  /\ halts' = halts \union {"orphan"}
  /\ \/ /\ db' = [d EXCEPT ![cur].st = "CLOSING", ![cur].cr = TRUE]
        /\ pc' = "close"
     \/ \E s \in h.algos :
          /\ db' = [d EXCEPT ![cur].st = "PROTECTED", ![cur].sl = s]
          /\ pc' = "r8"
     \/ /\ h.algos = {}
        /\ db' = [d EXCEPT ![cur].st = "PROTECTING"]
        /\ pc' = "guard"
  /\ UNCHANGED <<exchange, row, cur, ta, h, bud>>

\* Steps 9 and 11: a position and the trade that bought it.
SameWay == Step7 /\ h.qty /= 0 /\ Owned /\ Sgn(h.qty) = db[cur].dir

DirectionMismatch ==
  /\ Step7 /\ h.qty /= 0 /\ Owned /\ Sgn(h.qty) /= db[cur].dir
  /\ db' = WithState("ERROR")
  /\ pc' = "r8" /\ halts' = halts \union {"recovery"}
  /\ UNCHANGED <<cur, ta, h>>

Resuming == db[cur].st = "CLOSING" \/ (db[cur].st = "ERROR" /\ db[cur].cr)

ResumeClose ==
  /\ SameWay /\ Resuming
  /\ BeginClose("close")

\* Missing protection, whichever state lost it.
ProtectAgain ==
  /\ SameWay /\ ~Resuming
  /\ db[cur].st \in {"ENTRY_FILLED", "PROTECTING"} \/ cur \notin h.algos
  /\ db' = WithState("PROTECTING")
  /\ GoTo("guard")
  /\ UNCHANGED h

StopInPlace ==
  /\ SameWay /\ ~Resuming
  /\ db[cur].st \notin {"ENTRY_FILLED", "PROTECTING"} /\ cur \in h.algos
  /\ Return([db EXCEPT ![cur].st = IF @ \in Holding THEN @ ELSE "PROTECTED",
                       ![cur].sl = cur])

\* Step 11, no position: the trade was closed while the bot was away.
ClosedOffline ==
  /\ Step7 /\ h.qty = 0 /\ Owned
  /\ BeginClose("final")

NothingHeld ==
  /\ Step7 /\ h.qty = 0 /\ ~Owned
  /\ GoTo("r8")
  /\ UNCHANGED <<db, h>>

\* Mutated form: rows whose outcome is UNKNOWN are not refreshed.
OpenRows_NotUnknown ==
  {i \in Ids : row[i] \in Unresolved \ {"UNKNOWN"} /\ ex[i].st \notin Resting}

\* The rows that look open and are not in the exchange's list of open orders.
OpenRows == {i \in Ids : row[i] \in Unresolved /\ ex[i].st \notin Resting}

\* Step 8: orders of this bot that are not of the current trade are cancelled;
\* with the lists stale or a cancel failing some of them stay for the next run.
OrphanOrders ==
  LET gone == {i \in Ids : ex[i].st \in Resting /\ i[1] /= cur}
      old  == stops \ {cur} IN
  /\ pc = "r8"
  /\ \E part \in SUBSET gone, cut \in SUBSET old, todo \in SUBSET OpenRows :
       /\ \/ part = gone /\ cut = old /\ todo = OpenRows /\ UNCHANGED bud
          \/ Fault
       /\ ex' = [i \in Ids |-> IF i \in part THEN [ex[i] EXCEPT !.st = "CANCELED"] ELSE ex[i]]
       /\ row' = [i \in Ids |-> IF i \in part /\ row[i] /= "none" THEN "CANCELED" ELSE row[i]]
       /\ stops' = stops \ cut
       /\ h' = [h EXCEPT !.todo = todo, !.ret = "sweep"]
  /\ GoTo("sweep")
  /\ UNCHANGED <<pos, db>>

SweepNext ==
  /\ pc = "sweep" /\ h.todo /= {}
  /\ \E i \in h.todo : h' = [h EXCEPT !.id = i]
  /\ GoTo("resolve")
  /\ UNCHANGED <<exchange, db, row, bud>>

\* Step 12.
Finish ==
  /\ pc = "sweep" /\ h.todo = {}
  /\ ta' = ("recovery" \notin halts)
  /\ pc' = "idle" /\ h' = NoFrame
  /\ UNCHANGED <<exchange, db, row, cur, halts, bud>>

----------------------------------------------------------------------------
Exchange == \/ \E i \in Ids : Land(i) \/ Match(i) \/ Lose(i)
            \/ StopFires \/ ManualTrade

Signal   == Arm \/ ArmSignal \/ ArmPending \/ CancelWait \/ Trigger
Entry    == \/ CheckFails \/ CheckRefuses \/ CheckPasses \/ Submit
            \/ Answered \/ AnswerLost \/ NotSent
            \/ Refused("REJECTED") \/ Refused("NOT_PLACED")
            \/ EntryFound \/ EntryNotFound \/ EntryUnresolved
            \/ NotFoundNext \/ NotFoundFails \/ ByPosition
            \/ WaitFinal \/ WaitFails \/ ConfirmFill \/ ConfirmFails
Guard    == \/ Protect \/ StopPlaced \/ StopRefused
            \/ CloseOrder \/ CloseSeen \/ CloseFails \/ Finalize
Recovery == \/ Query \/ QueryFails \/ ResolveMiss
            \/ StaleFound \/ StaleNotFound \/ StaleUnresolved \/ StalePending
            \/ Orphan \/ AdoptNew \/ AdoptRecovery \/ AdoptGuard
            \/ DirectionMismatch \/ ResumeClose \/ ProtectAgain \/ StopInPlace
            \/ ClosedOffline \/ NothingHeld
            \/ OrphanOrders \/ SweepNext \/ SweepResolve \/ Finish
Events   == BarExit \/ NoticeFlat \/ \E i \in Ids : UserEvent(i)

Next == Exchange \/ Signal \/ Entry \/ Guard \/ Recovery \/ Events
          \/ Reconcile \/ Crash \/ Restart

Spec == Init /\ [][Next]_vars

----------------------------------------------------------------------------
(* What the scheduling of the code justifies: a handler that started goes   *)
(* on to its end (every await returns or raises), a request that is under   *)
(* way arrives or dies, an accepted market order is matched, systemd        *)
(* restarts the process, and the periodic task gets the engine lock again   *)
(* and again (asyncio.Lock is first come first served).                     *)
Handlers == ArmSignal \/ ArmPending \/ Entry \/ Guard \/ Recovery

FairSpec == /\ Spec
            /\ WF_vars(Handlers)
            /\ WF_vars(\E i \in Ids : Land(i) \/ Match(i) \/ Lose(i))
            /\ WF_vars(Restart)
            /\ SF_vars(Reconcile)

----------------------------------------------------------------------------
(* Properties. *)

\* Every variable stays in its range.
TypeOK ==
  /\ ex \in [Ids -> OrderState]
  /\ pos \in Int /\ stops \subseteq Trades
  /\ db \in [Trades -> TradeRecord]
  /\ row \in [Ids -> RowStatus]
  /\ cur \in 0..MaxTrades /\ ta \in BOOLEAN /\ halts \subseteq {"recovery", "orphan"}
  /\ pc \in Pc
  /\ h \in Frame
  /\ bud \in Budget

\* Nobody else trades on the account, market orders match at once, and a
\* recovery that fails after a crash takes longer than the recvWindow of a
\* request the crash left under way (three attempts with pauses).
Undisturbed == bud.manual = 0 /\ bud.slow = 0 /\ ~bud.hasty

\* With nobody else on the account the bot never holds more than one sized
\* entry, however answers are lost and wherever it crashes.
NoDoubleEntry == Undisturbed => pos \in 0..Qty

\* However often an entry is retried, crashed or left unanswered, at most one
\* entry order of a trade is executed, if no stop left over from another trade
\* hides what the first one bought.
BoughtOnce == Undisturbed /\ ~bud.alien => \A t \in Trades, m, n \in 1..MaxSeq :
  m /= n => ex[<<t, m>>].q = 0 \/ ex[<<t, n>>].q = 0

\* The bot never buys twice: not for one trade, and not one trade beside another
\* (context.py:153-192, entry_manager.py:104-139).
EnteredOnce == NoDoubleEntry /\ BoughtOnce

\* While the process is up the database has no open trade besides the one in
\* memory; while it is down there is at most one.
OneActive == /\ \A t, u \in Trades : Active(t) /\ Active(u) => t = u
             /\ pc /= "down" => \A t \in Trades : Active(t) => t = cur

\* The trade in memory is an open one.
CurActive == cur /= 0 => Active(cur)

\* Records are numbered without gaps and an unused one is blank.
RecordsInOrder == \A t \in Trades :
  db[t].st = "none" => /\ db[t] = NoTrade
                       /\ \A u \in Trades : t < u => db[u].st = "none"

\* Where a handler is working on a trade, and on an order of it.
HasTrade == \/ pc \in {"arm1", "arm2", "adopt1", "adopt2", "wait", "fillpos", "bypos"}
                      \union EntryPc \union GuardPc
            \/ pc = "resolve" /\ h.ret /= "sweep"
HasOrder == pc \in {"submit", "sent", "resolve", "wait"}
FrameOK == /\ HasTrade => cur /= 0
           /\ HasOrder => h.id \in Ids
           /\ pc = "wait" => Landed(h.id)
           /\ pc = "sweep" => h.ret = "sweep"
           /\ pc = "adopt" => cur = 0 /\ h.qty /= 0

\* The inductive invariant behind OneActive and SlotSpec.
IInv == TypeOK /\ OneActive /\ CurActive /\ RecordsInOrder /\ FrameOK

\* A trade knows its entry price from the fill on, and not before.
FillsKnown ==
  /\ pc \in {"arm1", "arm2", "check", "submit"} => ~db[cur].filled
  /\ pc \in GuardPc => db[cur].filled
  /\ \A t \in Trades : /\ db[t].st \in {"IDLE", "SIGNAL_DETECTED", "ENTRY_PENDING"} => ~db[t].filled
                       /\ db[t].st \in Holding => db[t].filled

\* An entry order is matched at once, and its number was drawn before it.
OrdersPlain == \A i \in Ids :
  /\ ex[i].st \notin Resting \union {"CANCELED"}
  /\ ex[i].st \in {"none", "flight"} => ex[i].q = 0
  /\ ex[i].st /= "none" => i[2] <= db[i[1]].att

\* The one request that may be under way is the last one of an open trade that
\* holds nothing yet; its row says so, and somebody waits for it or will.
UnderWayKnown == \A i \in Ids : ex[i].st = "flight" =>
  /\ pos = 0 /\ row[i] \in Unresolved
  /\ Active(i[1]) /\ ~db[i[1]].filled /\ i[2] = db[i[1]].att
  /\ pc \in {"down", "rq"} \/ (pc \in {"sent", "resolve"} /\ h.id = i)

\* A request goes out for a fresh number while nothing is held.
SubmitFresh == pc = "submit" => h.id = <<cur, db[cur].att>> /\ ex[h.id].st = "none" /\ pos = 0

\* What an open trade bought without knowing it is still held.
BoughtHeld == \A t \in Trades :
  Active(t) /\ ~db[t].filled /\ pos = 0 => \A n \in 1..MaxSeq : ex[<<t, n>>].q = 0

\* The inductive invariant behind EnteredOnce.
EntryInv ==
  /\ FillsKnown
  /\ Undisturbed => OrdersPlain /\ UnderWayKnown /\ SubmitFresh
  /\ Undisturbed /\ ~bud.alien => BoughtHeld
  /\ EnteredOnce

\* The state of the trade a handler works on, whether recovery is running, and
\* what a record's state says of its fill and its orders: the inductive invariant
\* behind NoInvalidTransition.
StateAt ==
  /\ pc \in {"arm1", "adopt1"} => db[cur].st = "IDLE"
  /\ pc = "arm2" => db[cur].st = "SIGNAL_DETECTED"
  /\ pc \in {"check", "submit", "sent"} => db[cur].st = "ENTRY_PENDING"
  /\ pc \in {"notfound", "wait", "fillpos", "bypos"} \/ (pc = "resolve" /\ h.ret /= "sweep")
       => db[cur].st \in {"ENTRY_PENDING", "RECOVERY_REQUIRED"}
  /\ pc = "guard0" => db[cur].st = "ENTRY_FILLED"
  /\ pc = "guard" => db[cur].st = "PROTECTING"
  /\ pc \in {"close", "final"} => db[cur].st = "CLOSING"
  /\ pc = "adopt2" => db[cur].st = "RECOVERY_REQUIRED"
Recovering ==
  /\ pc = "rq" \/ h.ret /= "idle" => h.why /= "none"
  /\ pc \in {"r10b", "r7", "adopt", "adopt1", "adopt2", "r8"} => h.ret /= "idle"
RecordStates == \A t \in Trades :
  /\ db[t].filled => db[t].st \notin {"IDLE", "SIGNAL_DETECTED", "ENTRY_PENDING"}
  /\ ~db[t].filled => db[t].st \in {"none", "IDLE", "SIGNAL_DETECTED", "ENTRY_PENDING",
                                   "RECOVERY_REQUIRED", "CLOSED"}
  /\ db[t].att > 0 => db[t].st \notin {"IDLE", "SIGNAL_DETECTED"}
StatesKnown == StateAt /\ Recovering /\ RecordStates

\* No handler asks for a transition the table forbids (it would raise
\* InvalidTransition half way); only recovery may detour.
NoInvalidTransition ==
  [][\A t \in Trades :
       LET from == db[t].st
           to   == db'[t].st
       IN  IF from = "none" THEN to \in {"none", "IDLE"}
           ELSE \/ CanMove(from, to)
                \/ h.why /= "none" /\ CanForce(from, to)]_vars

\* Where each trade record stands in the abstract slot.
SlotPhase == [t \in Trades |-> IF db[t].st = "none" THEN "none"
                              ELSE IF db[t].st = "CLOSED" THEN "done"
                              ELSE IF db[t].filled THEN "holding" ELSE "waiting"]

\* The trade records implement the abstract slot.
Slot == INSTANCE TradeSlot WITH phase <- SlotPhase
SlotSpec == Slot!Spec

\* A position is in the end flat, or under a stop of the open trade, or
\* reported as an error to a person.
Guarded == \/ pos = 0
           \/ \E t \in stops : Active(t)
           \/ \E t \in Trades : db[t].st = "ERROR"
ExposureGetsGuarded == pos /= 0 ~> Guarded

\* No order row keeps an unknown outcome for ever.
RowsSettle == \A i \in Ids :
  row[i] \in {"PENDING_SUBMIT", "UNKNOWN"} ~> row[i] \notin {"PENDING_SUBMIT", "UNKNOWN"}

(* What comments of the code say and the code does not do. *)

\* Outside recovery a waiting trade is never cancelled when its own entry
\* order was executed: it is handed to recovery.
OwnFillIsNotDropped ==
  [][\A t \in Trades :
       h.why = "none" /\ db[t].st = "ENTRY_PENDING" /\ db'[t].st = "CLOSED"
         => \A n \in 1..MaxSeq : ex[<<t, n>>].q = 0]_vars
=============================================================================
