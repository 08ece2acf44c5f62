---------------------------- MODULE ProtectExit ----------------------------
(***************************************************************************)
(* One COIN-M trade from its confirmed fill to CLOSED or ERROR: the        *)
(* protective stop, the target orders, stop moves, closing and what        *)
(* recovery does to them (protection_manager.py, exit_manager.py,          *)
(* engine.py and recovery_manager.py) against an exchange where stops and  *)
(* targets trigger at any moment.                                          *)
(*                                                                         *)
(* The trade is long; a stop is known by its level, 0 for the initial one  *)
(* and higher for better ones, and there is no price: what may happen at   *)
(* some price may happen.  One step is the code between two awaits of the  *)
(* task that holds the engine lock.  The record t and the order rows are   *)
(* on disk and survive a crash.                                            *)
(***************************************************************************)
EXTENDS TradeStates, FiniteSets

CONSTANTS
  Qty,         \* contracts of the position at the start
  NT,          \* target levels, each with a planned quantity of one contract
  MaxLvl,      \* stop levels: up to NT the ladder steps, above it trailing
  MaxTp,       \* order numbers of one target level
  MaxFaults, MaxRejects, MaxExternal, MaxLost, MaxCrashes,
  MaxTroubles  \* all of these together

ASSUME ProtectAssumption ==
  /\ NT \in 0..3 /\ Qty \in Nat \ {0} /\ NT <= Qty
  /\ MaxLvl \in Nat /\ MaxTp \in Nat \ {0}
  /\ MaxFaults \in Nat /\ MaxRejects \in Nat /\ MaxExternal \in Nat
  /\ MaxLost \in Nat /\ MaxCrashes \in Nat /\ MaxTroubles \in Nat

\* Stop orders SL0, SL1, ...: the first, one per move, one per failure, and
\* one that recovery adds when the stop has just fired.
MaxSl   == 2 + MaxLvl + MaxFaults + MaxRejects + MaxExternal + MaxCrashes
Stops   == 1..MaxSl
Levels  == 1..NT
Targets == Levels \X (1..MaxTp)      \* <<l, n>>: the n-th order of level l

VARIABLES
  pos,      \* exchange: contracts held
  sl,       \* exchange: the stop orders, with their level
  tp,       \* exchange: the target orders
  ev,       \* user events that are on their way to the engine
  t,        \* disk: the trade record
  slRow,    \* disk: the order rows of the stops
  tpRow,    \* disk: the order rows of the targets
  pc, h,    \* memory: where the task with the lock is, its local variables
  bud       \* bounds spent so far

exchange == <<pos, sl, tp>>
rows     == <<slRow, tpRow>>
vars     == <<pos, sl, tp, ev, t, slRow, tpRow, pc, h, bud>>

----------------------------------------------------------------------------
(* Orders, events and the record. *)

\* flight: sent and not there yet; mflight: a market order on its way;
\* fired: executed; gone: cancelled, expired or rejected.
StopOrder   == [st: {"none", "flight", "open", "fired", "gone"}, lvl: 0..MaxLvl]
TargetOrder == {"none", "flight", "mflight", "open", "fired", "gone"}
OpenStops   == {n \in Stops : sl[n].st = "open"}
OpenTargets == {i \in Targets : tp[i] = "open"}

\* What a query of the exchange makes of a row.
Status(st) == CASE st = "open"  -> "NEW"
                [] st = "fired" -> "FINISHED"
                [] st = "gone"  -> "CANCELED"
                [] OTHER        -> "NOT_PLACED"
RowPending == {"NEW", "PENDING_SUBMIT", "UNKNOWN"}
RowStatus  == {"none", "FINISHED", "CANCELED", "NOT_PLACED", "REJECTED"} \union RowPending

Event == {[kind |-> "flat"]} \union [kind: {"tp"}, l: Levels]
                             \union [kind: {"gone"}, n: Stops]

\* stop: stop_price; logic: logic.stop; stopId: orders["stop"]; nsl, ntp: the
\* order numbers drawn; filled: tp_filled; cr: close_reason is set.
TradeRecord == [st: TradeState, stop: 0..MaxLvl, logic: 0..MaxLvl,
                stopId: 0..MaxSl, nsl: 0..MaxSl, ntp: [Levels -> 0..MaxTp],
                filled: SUBSET Levels, cr: BOOLEAN]

\* The label of ladder step, targets and trailing, and refresh_state.
Label(r) == ProgressState(IF r.logic < NT THEN r.logic ELSE NT,
                          {l - 1 : l \in r.filled}, r.logic > NT)
Refreshed(r) == IF r.st \in Holding /\ IsForward(r.st, Label(r))
                THEN [r EXCEPT !.st = Label(r)] ELSE r

\* ret: where the handler returns to; job, att, want: why a stop is placed,
\* the attempt, its level and the stop it replaces; lev, todo: the target level
\* in work and those that are left; qty: the position recovery has read.
NoFrame == [ret |-> "idle", job |-> "none", att |-> 0, want |-> 0, old |-> 0,
            lev |-> 0, todo |-> {}, qty |-> 0]
Frame == [ret: {"idle", "sweep"}, job: {"none", "protect", "move", "replace"},
          att: 0..3, want: 0..MaxLvl, old: 0..MaxSl,
          lev: 0..NT, todo: SUBSET Levels, qty: 0..Qty]

Pc == {"down", "idle", "guard0", "stop", "sent", "resolve", "verify",
       "moved", "replace", "tps", "tpsent", "tpresolve", "now",
       "closetp", "closeq", "closesend", "closeend", "final", "final2",
       "flat", "mark", "ensure", "rq", "ralgos", "sweep"}

\* entry_manager has just confirmed the fill and calls protect().
Init ==
  /\ pos = Qty
  /\ sl = [n \in Stops |-> [st |-> "none", lvl |-> 0]]
  /\ tp = [i \in Targets |-> "none"]
  /\ ev = {}
  /\ t = [st |-> "ENTRY_FILLED", stop |-> 0, logic |-> 0, stopId |-> 0, nsl |-> 0,
          ntp |-> [l \in Levels |-> 0], filled |-> {}, cr |-> FALSE]
  /\ slRow = [n \in Stops |-> "none"]
  /\ tpRow = [i \in Targets |-> "none"]
  /\ pc = "guard0" /\ h = NoFrame
  /\ bud = [fault |-> 0, reject |-> 0, ext |-> 0, lost |-> 0, crash |-> 0]

Troubles == bud.fault + bud.reject + bud.ext + bud.lost + bud.crash

Fault == /\ bud.fault < MaxFaults /\ Troubles < MaxTroubles
         /\ bud' = [bud EXCEPT !.fault = @ + 1]

GoTo(where) == pc' = where /\ UNCHANGED h
\* The handler returns; a recovery goes on with its last part.
Done == pc' = h.ret /\ h' = NoFrame

----------------------------------------------------------------------------
(* The exchange, the account and the process. *)

Flattened(p) == IF p = 0 THEN {[kind |-> "flat"]} ELSE {}

StopLands(n) ==
  /\ sl[n].st = "flight"
  /\ sl' = [sl EXCEPT ![n].st = "open"]
  /\ UNCHANGED <<pos, tp, ev, t, rows, pc, h, bud>>

TargetLands(i) ==
  /\ \/ /\ tp[i] = "flight"
        /\ tp' = [tp EXCEPT ![i] = "open"]
        /\ UNCHANGED <<pos, ev>>
     \/ /\ tp[i] = "mflight" /\ pos > 0
        /\ tp' = [tp EXCEPT ![i] = "fired"]
        /\ pos' = pos - 1
        /\ ev' = ev \union {[kind |-> "tp", l |-> i[1]]} \union Flattened(pos')
     \/ /\ tp[i] = "mflight" /\ pos = 0          \* reduce-only, nothing to reduce
        /\ tp' = [tp EXCEPT ![i] = "gone"]
        /\ UNCHANGED <<pos, ev>>
  /\ UNCHANGED <<sl, t, rows, pc, h, bud>>

\* A request nobody waits for any more never arrives.
RequestDies ==
  /\ \/ /\ pc /= "sent"
        /\ \E n \in Stops : sl[n].st = "flight" /\ sl' = [sl EXCEPT ![n].st = "none"]
        /\ UNCHANGED tp
     \/ /\ pc /= "tpsent"
        /\ \E i \in Targets : tp[i] \in {"flight", "mflight"} /\ tp' = [tp EXCEPT ![i] = "none"]
        /\ UNCHANGED sl
  /\ UNCHANGED <<pos, ev, t, rows, pc, h, bud>>

StopFires(n) ==
  /\ n \in OpenStops /\ pos > 0
  /\ sl' = [sl EXCEPT ![n].st = "fired"]
  /\ pos' = 0
  /\ ev' = ev \union Flattened(0)
  /\ UNCHANGED <<tp, t, rows, pc, h, bud>>

TargetFires(i) ==
  /\ i \in OpenTargets /\ pos > 0
  /\ tp' = [tp EXCEPT ![i] = "fired"]
  /\ pos' = pos - 1
  /\ ev' = ev \union {[kind |-> "tp", l |-> i[1]]} \union Flattened(pos')
  /\ UNCHANGED <<sl, t, rows, pc, h, bud>>

\* Somebody else, a person or the exchange, takes an order away or closes
\* the position.
External ==
  /\ bud.ext < MaxExternal /\ Troubles < MaxTroubles
  /\ bud' = [bud EXCEPT !.ext = @ + 1]
  /\ \/ \E n \in OpenStops :
          /\ sl' = [sl EXCEPT ![n].st = "gone"]
          /\ ev' = ev \union {[kind |-> "gone", n |-> n]}
          /\ UNCHANGED <<pos, tp>>
     \/ \E i \in OpenTargets : tp' = [tp EXCEPT ![i] = "gone"] /\ UNCHANGED <<pos, sl, ev>>
     \/ pos > 0 /\ pos' = 0 /\ ev' = ev \union Flattened(0) /\ UNCHANGED <<sl, tp>>
  /\ UNCHANGED <<t, rows, pc, h>>

\* The user stream breaks and what was under way is lost.
EventsLost ==
  /\ ev /= {} /\ bud.lost < MaxLost /\ Troubles < MaxTroubles
  /\ bud' = [bud EXCEPT !.lost = @ + 1]
  /\ ev' = {}
  /\ UNCHANGED <<exchange, t, rows, pc, h>>

Crash ==
  /\ pc /= "down" /\ bud.crash < MaxCrashes /\ Troubles < MaxTroubles
  /\ bud' = [bud EXCEPT !.crash = @ + 1]
  /\ pc' = "down" /\ h' = NoFrame /\ ev' = {}
  /\ UNCHANGED <<exchange, t, rows>>

Restart ==
  /\ pc = "down"
  /\ pc' = "rq" /\ h' = [NoFrame EXCEPT !.ret = "sweep"]
  /\ UNCHANGED <<exchange, ev, t, rows, bud>>

\* Every five minutes: user events of the last period are through by then.
Reconcile ==
  /\ pc = "idle" /\ ev = {}
  /\ pc' = "rq" /\ h' = [NoFrame EXCEPT !.ret = "sweep"]
  /\ UNCHANGED <<exchange, ev, t, rows, bud>>

----------------------------------------------------------------------------
(* protection_manager: placing a stop. *)

\* exits.close, its part before the first await.
CloseNow(r) ==
  /\ t' = [r EXCEPT !.st = "CLOSING", !.cr = TRUE]
  /\ pc' = "closetp" /\ h' = [NoFrame EXCEPT !.ret = h.ret]

Protect ==
  /\ pc = "guard0"
  /\ t' = [t EXCEPT !.st = "PROTECTING"]
  /\ pc' = "stop"
  /\ h' = [h EXCEPT !.job = "protect", !.att = 1, !.want = t.stop]
  /\ UNCHANGED <<exchange, ev, rows, bud>>

\* _place_stop draws a number, saves it, writes the row and sends.
StopSend ==
  /\ pc = "stop" /\ t.nsl < MaxSl
  /\ LET n == t.nsl + 1 IN
     /\ t' = [t EXCEPT !.nsl = n]
     /\ slRow' = [slRow EXCEPT ![n] = "PENDING_SUBMIT"]
     /\ sl' = [sl EXCEPT ![n] = [st |-> "flight", lvl |-> h.want]]
  /\ GoTo("sent")
  /\ UNCHANGED <<pos, tp, ev, tpRow, bud>>

\* What the caller makes of the result of _place_stop; r is the record so far.
StopConfirmed ==
  LET r == [t EXCEPT !.stopId = t.nsl] IN
  \/ /\ h.job = "protect"
     /\ t' = [r EXCEPT !.st = "PROTECTED"]
     /\ pc' = "tps" /\ h' = [h EXCEPT !.todo = Levels]
  \/ /\ h.job = "move"
     /\ t' = [r EXCEPT !.stop = h.want]
     /\ pc' = "moved" /\ h' = [h EXCEPT !.old = t.stopId]
  \/ /\ h.job = "replace"
     /\ t' = Refreshed([r EXCEPT !.stop = h.want])
     /\ Done

StopFailed ==
  \/ /\ h.job = "protect" /\ h.att < 3
     /\ pc' = "stop" /\ h' = [h EXCEPT !.att = @ + 1]
     /\ UNCHANGED t
  \/ h.job = "protect" /\ h.att = 3 /\ CloseNow(t)
  \/ h.job = "move" /\ t' = Refreshed(t) /\ Done
  \/ h.job = "replace" /\ CloseNow(t)

StopAnswered ==
  /\ pc = "sent" /\ sl[t.nsl].st \notin {"none", "flight"}
  /\ slRow' = [slRow EXCEPT ![t.nsl] = "NEW"]
  /\ GoTo("verify")
  /\ UNCHANGED <<exchange, ev, t, tpRow, bud>>

StopUnknown ==
  /\ pc = "sent" /\ Fault
  /\ slRow' = [slRow EXCEPT ![t.nsl] = "UNKNOWN"]
  /\ GoTo("resolve")
  /\ UNCHANGED <<exchange, ev, t, tpRow>>

\* Not accepted, for whatever reason: the request has no effect.
StopNotTaken(status) ==
  /\ pc = "sent" /\ sl[t.nsl].st = "flight"
  /\ sl' = [sl EXCEPT ![t.nsl].st = "none"]
  /\ slRow' = [slRow EXCEPT ![t.nsl] = status]
  /\ UNCHANGED <<pos, tp, ev, tpRow>>

\* -2021: it would trigger at once.
StopImmediate == StopNotTaken("REJECTED") /\ CloseNow(t) /\ UNCHANGED bud

\* Another code: retried by protect, replaced by move_stop.
StopRejected ==
  /\ bud.reject < MaxRejects /\ Troubles < MaxTroubles
  /\ bud' = [bud EXCEPT !.reject = @ + 1]
  /\ StopNotTaken("REJECTED")
  /\ IF h.job = "move" /\ t.stopId /= 0 THEN GoTo("replace") /\ UNCHANGED t ELSE StopFailed

\* The live gate or the rate limiter keeps it back.
StopBlocked == Fault /\ StopNotTaken("NOT_PLACED") /\ StopFailed

\* Mutated form: that the lookup does not find the stop is not noticed.
StopResolved_Trusting ==
  /\ pc = "resolve" /\ sl[t.nsl].st /= "flight"
  /\ slRow' = [slRow EXCEPT ![t.nsl] = Status(sl[t.nsl].st)]
  /\ StopConfirmed
  /\ UNCHANGED <<exchange, ev, tpRow, bud>>

\* resolve() outlasts the request, so it is there or it never will be.
StopResolved ==
  /\ pc = "resolve" /\ sl[t.nsl].st /= "flight"
  /\ slRow' = [slRow EXCEPT ![t.nsl] = Status(sl[t.nsl].st)]
  /\ IF sl[t.nsl].st = "none" THEN StopFailed ELSE GoTo("verify") /\ UNCHANGED t
  /\ UNCHANGED <<exchange, ev, tpRow, bud>>

StopUnresolved ==
  /\ pc = "resolve" /\ sl[t.nsl].st /= "flight" /\ Fault
  /\ StopFailed
  /\ UNCHANGED <<exchange, ev, rows>>

\* GET algoOrder: the stop must be there.
Verify ==
  /\ pc = "verify"
  /\ slRow' = [slRow EXCEPT ![t.nsl] = Status(sl[t.nsl].st)]
  /\ IF sl[t.nsl].st \in {"none", "gone"} THEN StopFailed ELSE StopConfirmed
  /\ UNCHANGED <<exchange, ev, tpRow, bud>>

VerifyFails ==
  /\ pc = "verify" /\ Fault
  /\ StopFailed
  /\ UNCHANGED <<exchange, ev, rows>>

\* The new stop is confirmed and saved: the old one is cancelled.
CancelOld ==
  /\ pc = "moved"
  /\ \/ /\ sl' = IF h.old \in OpenStops THEN [sl EXCEPT ![h.old].st = "gone"] ELSE sl
        /\ slRow' = IF h.old = 0 THEN slRow
                    ELSE [slRow EXCEPT ![h.old] = Status(sl'[h.old].st)]
        /\ UNCHANGED bud
     \/ Fault /\ UNCHANGED <<sl, slRow>>
  /\ t' = Refreshed(t)
  /\ Done
  /\ UNCHANGED <<pos, tp, ev, tpRow>>

\* The new stop was refused: the old one goes first, then one more try.
CancelFirst ==
  /\ pc = "replace"
  /\ \/ /\ sl' = IF t.stopId \in OpenStops THEN [sl EXCEPT ![t.stopId].st = "gone"] ELSE sl
        /\ slRow' = [slRow EXCEPT ![t.stopId] = Status(sl'[t.stopId].st)]
        /\ UNCHANGED bud
     \/ Fault /\ UNCHANGED <<sl, slRow>>
  /\ pc' = "stop" /\ h' = [h EXCEPT !.job = "replace"]
  /\ UNCHANGED <<pos, tp, ev, t, tpRow>>

----------------------------------------------------------------------------
(* protection_manager.place_tps and exit_manager.partial_now. *)

\* Mutated form: an order that was refused counts as placed.
HasTarget_Refused(l) == t.ntp[l] > 0 /\ tpRow[<<l, t.ntp[l]>>] \in RowPending \union {"REJECTED"}

\* Mutated form: an order whose outcome is unknown is placed again.
HasTarget_NotUnknown(l) == t.ntp[l] > 0 /\ tpRow[<<l, t.ntp[l]>>] \in RowPending \ {"UNKNOWN"}

HasTarget(l) == t.ntp[l] > 0 /\ tpRow[<<l, t.ntp[l]>>] \in RowPending

\* A level is passed over when it is filled or its last order looks alive
\* (or, the bound, when its numbers are used up).
NextTarget ==
  /\ pc = "tps" /\ h.todo /= {}
  /\ LET l == CHOOSE k \in h.todo : \A m \in h.todo : k <= m
         n == t.ntp[l] + 1
         skip == l \in t.filled \/ HasTarget(l) \/ n >= MaxTp IN
     IF skip
     THEN /\ h' = [h EXCEPT !.todo = @ \ {l}]
          /\ UNCHANGED <<t, tpRow, tp, pc>>
     ELSE /\ h' = [h EXCEPT !.todo = @ \ {l}, !.lev = l]
          /\ t' = [t EXCEPT !.ntp[l] = n]
          /\ tpRow' = [tpRow EXCEPT ![<<l, n>>] = "PENDING_SUBMIT"]
          /\ tp' = [tp EXCEPT ![<<l, n>>] = "flight"]
          /\ pc' = "tpsent"
  /\ UNCHANGED <<pos, sl, ev, slRow, bud>>

Sent == <<h.lev, t.ntp[h.lev]>>

TargetAnswered ==
  /\ pc = "tpsent" /\ tp[Sent] \notin {"none", "flight", "mflight"}
  /\ \E st \in {"open", tp[Sent]} :       \* the answer may be older than the fill
       tpRow' = [tpRow EXCEPT ![Sent] = Status(IF tp[Sent] = "fired" THEN st ELSE tp[Sent])]
  /\ GoTo("tps")
  /\ UNCHANGED <<exchange, ev, t, slRow, bud>>

TargetUnknown ==
  /\ pc = "tpsent" /\ Fault
  /\ tpRow' = [tpRow EXCEPT ![Sent] = "UNKNOWN"]
  /\ GoTo("tpresolve")
  /\ UNCHANGED <<exchange, ev, t, slRow>>

TargetResolved ==
  /\ pc = "tpresolve" /\ tp[Sent] \notin {"flight", "mflight"}
  /\ \/ tpRow' = [tpRow EXCEPT ![Sent] = Status(tp[Sent])] /\ UNCHANGED bud
     \/ Fault /\ UNCHANGED tpRow
  /\ GoTo("tps")
  /\ UNCHANGED <<exchange, ev, t, slRow>>

TargetNotTaken(status) ==
  /\ pc = "tpsent" /\ tp[Sent] \in {"flight", "mflight"}
  /\ tp' = [tp EXCEPT ![Sent] = "none"]
  /\ tpRow' = [tpRow EXCEPT ![Sent] = status]
  /\ UNCHANGED <<pos, sl, ev, t, slRow>>

TargetRefused == Fault /\ TargetNotTaken("REJECTED") /\ GoTo("tps")

\* The price is already there: this part is closed at once.
TargetImmediate ==
  /\ pc = "tpsent" /\ tp[Sent] = "flight"
  /\ TargetNotTaken("REJECTED")
  /\ GoTo("now")
  /\ UNCHANGED bud

PartialNow ==
  /\ pc = "now"
  /\ \/ /\ pos > 0
        /\ LET n == t.ntp[h.lev] + 1 IN
           /\ t' = [t EXCEPT !.ntp[h.lev] = n]
           /\ tpRow' = [tpRow EXCEPT ![<<h.lev, n>>] = "PENDING_SUBMIT"]
           /\ tp' = [tp EXCEPT ![<<h.lev, n>>] = "mflight"]
        /\ GoTo("tpsent")
        /\ UNCHANGED bud
     \/ pos = 0 /\ GoTo("tps") /\ UNCHANGED <<t, tp, tpRow, bud>>
     \/ Fault /\ GoTo("tps") /\ UNCHANGED <<t, tp, tpRow>>
  /\ UNCHANGED <<pos, sl, ev, slRow>>

\* Only protect() refreshes the label afterwards.
TargetsPlaced ==
  /\ pc = "tps" /\ h.todo = {}
  /\ t' = IF h.job = "protect" THEN Refreshed(t) ELSE t
  /\ Done
  /\ UNCHANGED <<exchange, ev, rows, bud>>

----------------------------------------------------------------------------
(* exit_manager: closing and cleaning up. *)

\* The orders once the ones of the set are cancelled.
StopsWithout(ns)   == [n \in Stops |-> IF n \in ns THEN [sl[n] EXCEPT !.st = "gone"] ELSE sl[n]]
TargetsWithout(is) == [i \in Targets |-> IF i \in is THEN "gone" ELSE tp[i]]

\* cancel_trade_orders: every open order of the sets, or with a failing query
\* or cancel only some of them; their rows follow.
Cancelled(stops, targets) ==
  \E ns \in SUBSET stops, is \in SUBSET targets :
    /\ \/ ns = stops /\ is = targets /\ UNCHANGED bud
       \/ Fault
    /\ sl' = StopsWithout(ns)
    /\ tp' = TargetsWithout(is)
    /\ slRow' = [n \in Stops |-> IF n \in ns THEN "CANCELED" ELSE slRow[n]]
    /\ tpRow' = [i \in Targets |-> IF i \in is THEN "CANCELED" ELSE tpRow[i]]
  /\ UNCHANGED <<pos, ev>>

\* Mutated form: the stops are cancelled together with the targets.
CloseTargets_AndStops ==
  /\ pc = "closetp"
  /\ Cancelled(OpenStops, OpenTargets)
  /\ pc' = "closeq" /\ h' = [h EXCEPT !.att = 1]
  /\ UNCHANGED t

\* close: the targets first, the stop stays.
CloseTargets ==
  /\ pc = "closetp"
  /\ Cancelled({}, OpenTargets)
  /\ pc' = "closeq" /\ h' = [h EXCEPT !.att = 1]
  /\ UNCHANGED t

NextAttempt == IF h.att < 3 THEN pc' = "closeq" /\ h' = [h EXCEPT !.att = @ + 1]
                            ELSE GoTo("closeend")

CloseQuery ==
  /\ pc = "closeq"
  /\ \/ pos = 0 /\ GoTo("closeend") /\ UNCHANGED bud
     \/ pos > 0 /\ GoTo("closesend") /\ UNCHANGED bud
     \/ Fault /\ NextAttempt
  /\ UNCHANGED <<exchange, ev, t, rows>>

\* A reduce-only market order: executed, partly executed, or with a failure
\* (refused, not sent, no answer) executed or not.
CloseSend ==
  /\ pc = "closesend"
  /\ \/ pos' \in 0..(IF pos = 0 THEN 0 ELSE pos - 1) /\ UNCHANGED bud
     \/ Fault /\ pos' \in 0..pos
  /\ NextAttempt
  /\ UNCHANGED <<sl, tp, ev, t, rows>>

CloseEnd ==
  /\ pc = "closeend"
  /\ \/ /\ pos > 0 /\ UNCHANGED bud
        /\ t' = [t EXCEPT !.st = "ERROR"] /\ Done
     \/ /\ Fault
        /\ t' = [t EXCEPT !.st = "ERROR"] /\ Done
     \/ pos = 0 /\ GoTo("final") /\ UNCHANGED <<t, bud>>
  /\ UNCHANGED <<exchange, ev, rows>>

\* on_flat: the position is gone.
OnFlat(r) ==
  /\ t' = [r EXCEPT !.st = "CLOSING", !.cr = TRUE]
  /\ pc' = "final" /\ h' = [NoFrame EXCEPT !.ret = h.ret]

\* finalize: what is left is cancelled, fills are fetched, then CLOSED.
FinalCancel ==
  /\ pc = "final"
  /\ Cancelled(OpenStops, OpenTargets)
  /\ GoTo("final2")
  /\ UNCHANGED t

FinalClosed ==
  /\ pc = "final2"
  /\ t' = [t EXCEPT !.st = "CLOSED"]
  /\ Done
  /\ UNCHANGED <<exchange, ev, rows, bud>>

----------------------------------------------------------------------------
(* engine: user events and bars. *)

Take(e) == /\ pc = "idle" /\ e \in ev
           /\ ev' = ev \ {e}

\* A fill or an account message says the position is zero.
FlatEvent ==
  /\ Take([kind |-> "flat"])
  /\ GoTo(IF t.st = "CLOSED" THEN "idle" ELSE "flat")
  /\ UNCHANGED <<exchange, t, rows, bud>>

\* A target order of level l was executed; its row follows.
TargetEvent(l) ==
  /\ Take([kind |-> "tp", l |-> l])
  /\ tpRow' = [i \in Targets |-> IF i[1] = l /\ tp[i] = "fired" THEN "FINISHED" ELSE tpRow[i]]
  /\ IF t.st = "CLOSED" THEN GoTo("idle")
     ELSE pc' = "mark" /\ h' = [h EXCEPT !.lev = l]
  /\ UNCHANGED <<exchange, t, slRow, bud>>

\* A stop was cancelled, and not by the bot.
GoneEvent(n) ==
  /\ Take([kind |-> "gone", n |-> n])
  /\ slRow' = [slRow EXCEPT ![n] = "CANCELED"]
  /\ GoTo(IF t.st \in Holding /\ n = t.stopId THEN "ensure" ELSE "idle")
  /\ UNCHANGED <<exchange, t, tpRow, bud>>

\* _check_flat
CheckFlat ==
  /\ pc = "flat"
  /\ \/ pos = 0 /\ OnFlat(t) /\ UNCHANGED bud
     \/ pos > 0 /\ Done /\ UNCHANGED <<t, bud>>
     \/ Fault /\ Done /\ UNCHANGED t
  /\ UNCHANGED <<exchange, ev, rows>>

\* _mark_tp_filled: the level is saved only after the position was queried.
MarkFilled ==
  LET r == [t EXCEPT !.filled = @ \union {h.lev}] IN
  /\ pc = "mark"
  /\ \/ pos = 0 /\ OnFlat(r) /\ UNCHANGED bud
     \/ pos > 0 /\ t' = Refreshed(r) /\ Done /\ UNCHANGED bud
     \/ Fault /\ t' = Refreshed(r) /\ Done
  /\ UNCHANGED <<exchange, ev, rows>>

\* Mutated form: protect() is called without asking for recovery first.
EnsureStop_NoDetour ==
  /\ pc = "ensure"
  /\ \/ /\ \E n \in OpenStops : t' = [t EXCEPT !.stopId = n]
        /\ Done /\ UNCHANGED bud
     \/ /\ OpenStops = {} /\ UNCHANGED t
        /\ GoTo("guard0") /\ UNCHANGED bud
     \/ Fault /\ Done /\ UNCHANGED t
  /\ UNCHANGED <<exchange, ev, rows>>

\* ensure_stop
EnsureStop ==
  /\ pc = "ensure"
  /\ \/ /\ \E n \in OpenStops : t' = [t EXCEPT !.stopId = n]
        /\ Done /\ UNCHANGED bud
     \/ /\ OpenStops = {}
        /\ t' = [t EXCEPT !.st = "RECOVERY_REQUIRED"]
        /\ GoTo("guard0") /\ UNCHANGED bud
     \/ Fault /\ Done /\ UNCHANGED t
  /\ UNCHANGED <<exchange, ev, rows>>

\* A bar closes: the ladder or the trail may lift logic.stop, which is saved;
\* then the position is closed, the stop moved, or only the label refreshed.
BarClose(lvl) ==
  LET r == [t EXCEPT !.logic = lvl] IN
  /\ pc = "idle" /\ t.st \in Holding /\ lvl >= t.logic
  /\ \/ CloseNow(r)
     \/ lvl = t.logic /\ t' = Refreshed(r) /\ Done
     \/ /\ lvl > t.logic
        /\ t' = r
        /\ pc' = "stop" /\ h' = [h EXCEPT !.job = "move", !.want = lvl]
  /\ UNCHANGED <<exchange, ev, rows, bud>>

----------------------------------------------------------------------------
(* recovery_manager.run for a trade that knows its entry price. *)

QueryPosition ==
  /\ pc = "rq"
  /\ \/ pc' = "ralgos" /\ h' = [h EXCEPT !.qty = pos] /\ UNCHANGED bud
     \/ Fault /\ pc' = "idle" /\ h' = NoFrame
  /\ UNCHANGED <<exchange, ev, t, rows>>

Compare == pc = "ralgos" /\ UNCHANGED <<exchange, ev, rows, bud>>
Has == h.qty > 0 /\ t.st /= "CLOSED"

\* Steps 9 and 11 with a position.
ResumeClose == Compare /\ Has /\ t.st \in {"CLOSING", "ERROR"} /\ CloseNow(t)

ProtectAgain ==
  /\ Compare /\ Has /\ t.st \in {"ENTRY_FILLED", "PROTECTING"}
  /\ GoTo("guard0") /\ UNCHANGED t

\* Mutated form: a trade that was on its way back is not looked at.
StopMissing_HoldingOnly ==
  /\ Compare /\ Has /\ t.st \in Holding \union {"RECOVERY_REQUIRED"} /\ OpenStops = {}
  /\ IF t.st = "RECOVERY_REQUIRED" THEN GoTo("sweep") /\ UNCHANGED t
     ELSE t' = [t EXCEPT !.st = "RECOVERY_REQUIRED"] /\ GoTo("guard0")

StopMissing ==
  /\ Compare /\ Has /\ t.st \in Holding \union {"RECOVERY_REQUIRED"} /\ OpenStops = {}
  /\ t' = [t EXCEPT !.st = "RECOVERY_REQUIRED"]
  /\ GoTo("guard0")

\* A stop is there: the trade is as protected as it says, and the targets that
\* are not out are placed.
StopThere ==
  /\ Compare /\ Has /\ t.st \in Holding \union {"RECOVERY_REQUIRED"}
  /\ \E n \in OpenStops :
       LET r == [t EXCEPT !.stopId = n] IN
       t' = IF t.st \in Holding THEN r ELSE Refreshed([r EXCEPT !.st = "PROTECTED"])
  /\ pc' = "tps" /\ h' = [h EXCEPT !.todo = Levels]

\* Step 11 without a position.
ClosedOffline == Compare /\ h.qty = 0 /\ t.st /= "CLOSED" /\ OnFlat(t)

NoTrade == Compare /\ t.st = "CLOSED" /\ GoTo("sweep") /\ UNCHANGED t

\* Mutated form: the rows are refreshed, orders of no trade are left alone.
Strays_None(open) == {}

\* Step 8: with the trade closed every order of the bot is an orphan.
Strays(open) == IF t.st = "CLOSED" THEN open ELSE {}

\* The rows once the orders of the set have been looked up.
StopRows(ns)   == [n \in Stops |-> IF n \in ns THEN Status(sl'[n].st) ELSE slRow[n]]
TargetRows(is) == [i \in Targets |-> IF i \in is THEN Status(tp'[i]) ELSE tpRow[i]]

\* Step 8 and the refresh of the rows: orders of a closed trade are cancelled,
\* rows that look open but are not in the list of open orders are looked up.
\* A lookup lasts until the request is there or dead.
Sweep ==
  LET stops   == Strays(OpenStops)
      targets == Strays(OpenTargets)
      settled(st) == st \notin {"flight", "mflight"} IN
  /\ pc = "sweep"
  /\ \A n \in Stops : settled(sl[n].st)
  /\ \A i \in Targets : settled(tp[i])
  /\ \E ns \in SUBSET stops, is \in SUBSET targets,
        looked \in SUBSET {"stop", "tp"} :
       /\ \/ ns = stops /\ is = targets /\ looked = {"stop", "tp"} /\ UNCHANGED bud
          \/ Fault
       /\ sl' = StopsWithout(ns)
       /\ tp' = TargetsWithout(is)
       /\ slRow' = StopRows(ns \union IF "stop" \in looked
                                      THEN {n \in Stops : slRow[n] \in RowPending} ELSE {})
       /\ tpRow' = TargetRows(is \union IF "tp" \in looked
                                        THEN {i \in Targets : tpRow[i] \in RowPending} ELSE {})
  /\ pc' = "idle" /\ h' = NoFrame
  /\ UNCHANGED <<pos, ev, t>>

----------------------------------------------------------------------------
Exchange == \/ \E n \in Stops : StopLands(n) \/ StopFires(n)
            \/ \E i \in Targets : TargetLands(i) \/ TargetFires(i)
            \/ RequestDies \/ External \/ EventsLost

Placing   == \/ Protect \/ StopSend \/ StopAnswered \/ StopUnknown \/ StopImmediate
             \/ StopRejected \/ StopBlocked \/ StopResolved \/ StopUnresolved
             \/ Verify \/ VerifyFails \/ CancelOld \/ CancelFirst
Targeting == \/ NextTarget \/ TargetAnswered \/ TargetUnknown \/ TargetResolved
             \/ TargetRefused \/ TargetImmediate \/ PartialNow \/ TargetsPlaced
Closing   == \/ CloseTargets \/ CloseQuery \/ CloseSend \/ CloseEnd
             \/ FinalCancel \/ FinalClosed
Checking  == CheckFlat \/ MarkFilled \/ EnsureStop
Recovery  == \/ QueryPosition \/ ResumeClose \/ ProtectAgain \/ StopMissing
             \/ StopThere \/ ClosedOffline \/ NoTrade \/ Sweep
Handlers  == Placing \/ Targeting \/ Closing \/ Checking \/ Recovery

UserEvent == \/ FlatEvent
             \/ \E l \in Levels : TargetEvent(l)
             \/ \E n \in Stops : GoneEvent(n)

Next == \/ Exchange \/ Handlers \/ UserEvent
        \/ \E lvl \in 0..MaxLvl : BarClose(lvl)
        \/ Reconcile \/ Crash \/ Restart

Spec == Init /\ [][Next]_vars

\* A handler runs to its end, a request arrives or dies, the event pump hands
\* over what has arrived, the process is restarted, and the periodic task gets
\* the lock between events and bars.
FairSpec == /\ Spec
            /\ WF_vars(Handlers)
            /\ WF_vars(\/ \E n \in Stops : StopLands(n)
                       \/ \E i \in Targets : TargetLands(i)
                       \/ RequestDies)
            /\ SF_vars(UserEvent)
            /\ SF_vars(Reconcile)
            /\ WF_vars(Restart)

----------------------------------------------------------------------------
(* Properties. *)

\* Every variable stays in its range.
TypeOK ==
  /\ pos \in 0..Qty
  /\ sl \in [Stops -> StopOrder] /\ tp \in [Targets -> TargetOrder]
  /\ ev \subseteq Event
  /\ t \in TradeRecord
  /\ slRow \in [Stops -> RowStatus] /\ tpRow \in [Targets -> RowStatus]
  /\ pc \in Pc /\ h \in Frame
  /\ bud \in [fault: 0..MaxFaults, reject: 0..MaxRejects, ext: 0..MaxExternal,
              lost: 0..MaxLost, crash: 0..MaxCrashes]

\* The numbers of a trade's stops are used in order, and a stop that has fired
\* has closed the position.
StopsInOrder == /\ t.stopId <= t.nsl
                /\ \A n \in Stops : n > t.nsl => sl[n].st = "none"
                /\ \A n \in Stops : sl[n].st = "fired" => pos = 0

\* What the handler knows where it waits.
ClosePc == {"closetp", "closeq", "closesend", "closeend", "final", "final2"}
FrameOK ==
  /\ pc \in {"sent", "resolve", "verify"} =>
       t.stopId < t.nsl /\ sl[t.nsl].lvl = h.want
  /\ pc = "verify" => sl[t.nsl].st /= "flight"
  /\ pc \in {"stop", "sent", "resolve", "verify"} =>
       \/ h.job = "protect" /\ h.want = t.stop
       \/ h.job \in {"move", "replace"} /\ t.st \in Holding
  /\ pc \in {"ensure", "moved", "replace"} => t.st \in Holding
  /\ pc \in ClosePc => t.st = "CLOSING"
  /\ pc = "moved" => h.old < t.nsl /\ sl[t.nsl].lvl = t.stop
  /\ pc = "now" => h.lev \in Levels /\ t.ntp[h.lev] < MaxTp
  /\ pc \in {"tpsent", "tpresolve"} => h.lev \in Levels /\ t.ntp[h.lev] > 0
  /\ (pc = "tpsent" /\ tp[Sent] = "flight") => t.ntp[h.lev] < MaxTp
  /\ pc = "mark" => h.lev \in Levels

\* Nobody else has touched the orders, and no stop was refused.
Untouched == bud.ext = 0 /\ bud.reject = 0

\* A trade that calls itself protected has a resting stop at its stop price or
\* better, through stop moves, unknown answers, failed checks and crashes.
Covered == (Untouched /\ t.st \in Holding /\ pos > 0)
             => \E n \in OpenStops : sl[n].lvl >= t.stop

\* Without outside interference a position never comes to the recovery of a
\* missing stop, and the old stop is cancelled only while the new one rests.
NeverMissed ==
  Untouched => /\ pos > 0 => t.st /= "RECOVERY_REQUIRED"
               /\ h.job /= "replace" /\ pc /= "replace"
               /\ \A e \in ev : e.kind /= "gone"
               /\ pc = "moved" => sl[t.nsl].st \in {"open", "fired"}

\* The inductive invariant behind Covered.
IInv == TypeOK /\ StopsInOrder /\ FrameOK /\ NeverMissed /\ Covered

Best == LET lvls == {sl[n].lvl : n \in OpenStops} IN
        IF lvls = {} THEN -1 ELSE CHOOSE m \in lvls : \A k \in lvls : k <= m

\* The position is gone once the trade is being finalized, and recovery has
\* read no less than there is.
FlatKnown == /\ pc \in {"final", "final2"} \/ t.st = "CLOSED" => pos = 0
             /\ pc = "ralgos" => pos <= h.qty

\* Stops are placed at the level the ladder has reached or below, a moved one
\* at that level: the one it replaces is not better.
LadderKnown ==
  /\ t.stop <= t.logic /\ \A n \in Stops : sl[n].lvl <= t.logic
  /\ (pc \in {"stop", "sent", "resolve", "verify"} /\ h.job /= "protect") \/ pc = "replace"
       => h.want = t.logic
  /\ pc = "moved" => /\ t.stop = t.logic
                     /\ bud.ext = 0 => sl[t.nsl].st \in {"open", "fired"}

\* The inductive invariant behind StopNeverWorse.
WorseInv == FlatKnown /\ LadderKnown

\* As long as nobody else touches the orders, no step leaves a position with a
\* worse stop than it had, not while closing and not in ERROR, except in the
\* replacement after a refusal.
StopNeverWorse ==
  [][pos' > 0 /\ bud'.ext = 0 /\ pc /= "replace" => Best' >= Best]_vars

\* A target level is sold at most once.
TpOncePerLevel == \A l \in Levels, m, n \in 1..MaxTp :
  tp[<<l, m>>] = "fired" /\ tp[<<l, n>>] = "fired" => m = n

Calm == bud.ext = 0 /\ bud.lost = 0 /\ bud.crash = 0

\* It is, as long as every event arrives, nobody else touches the orders and
\* the process does not die: lost answers and refusals alone do not sell twice.
TpOnceUndisturbed == Calm => TpOncePerLevel

\* All orders of a level but the last one came to nothing; the last one has a
\* row that looks alive as long as it may still sell.
LastOrderSells == \A i \in Targets :
  /\ i[2] > t.ntp[i[1]] => tp[i] = "none"
  /\ i[2] < t.ntp[i[1]] => tp[i] \in {"none", "gone"}
  /\ tp[i] \in {"flight", "mflight", "open"} => tpRow[i] \in RowPending

\* What was sold is recorded, or the event that says so is under way.
SaleKnown == \A i \in Targets : tp[i] = "fired" =>
  \/ i[1] \in t.filled \/ [kind |-> "tp", l |-> i[1]] \in ev
  \/ pc = "mark" /\ h.lev = i[1]
  \/ t.st = "CLOSED"

\* A level that is still to be placed is not sold, or its row or the record
\* says that it is.
Counted(l) == \A i \in Targets :
  i[1] = l /\ tp[i] = "fired" => l \in t.filled \/ HasTarget(l)
ToPlace == CASE pc \in {"guard0", "ralgos", "rq"} -> IF t.st = "CLOSED" THEN {} ELSE Levels
             [] pc \in {"stop", "sent", "resolve", "verify"} /\ h.job = "protect" -> Levels
             [] pc \in {"tps", "tpsent", "tpresolve", "now"} -> h.todo
             [] OTHER -> {}

\* The inductive invariant behind TpOnceUndisturbed.
TpInv ==
  /\ Calm => /\ LastOrderSells /\ SaleKnown /\ \A l \in ToPlace : Counted(l)
             /\ pc = "now" => Sent \in Targets /\ tp[Sent] = "none"
             /\ pc \in {"tpsent", "tpresolve", "now"} => h.lev \notin h.todo
             /\ pc \notin {"down", "ensure"} /\ \A e \in ev : e.kind /= "gone"
  /\ TpOnceUndisturbed

\* Where a handler stands, the trade is in a state it may go on from.
StateKnown ==
  /\ t.st \notin {"IDLE", "SIGNAL_DETECTED", "ENTRY_PENDING"}
  /\ pc = "guard0" => t.st \in {"ENTRY_FILLED", "PROTECTING", "RECOVERY_REQUIRED"}
  /\ pc \in {"stop", "sent", "resolve", "verify"} /\ h.job = "protect" => t.st = "PROTECTING"
  /\ pc \in {"flat", "mark"} => t.st /= "CLOSED"

\* No handler asks for a transition the table forbids.
LegalMoves == [][CanMove(t.st, t'.st)]_vars

\* A position is in the end gone, under a stop, or reported as an error.
PositionGetsGuarded == pos > 0 ~> (pos = 0 \/ OpenStops /= {} \/ t.st = "ERROR")

\* When the position is gone the trade gets closed and no order of it stays at
\* the exchange, whatever events were missed and whichever cancel failed.
FlatGetsClosed == pos = 0 ~> t.st = "CLOSED" /\ OpenStops = {} /\ OpenTargets = {}

\* A target that could not be placed, or was taken away, is placed again.
TargetsComeBack == \A l \in Levels :
  (t.st \in Holding /\ l \notin t.filled)
    ~> (t.st \notin Holding \/ l \in t.filled \/ \E n \in 1..MaxTp : tp[<<l, n>>] = "open")
=============================================================================
