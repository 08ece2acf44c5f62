----------------------------- MODULE SpotTrades -----------------------------
(***************************************************************************)
(* The Upbit bot: the live trades of naked_strategy.py, the orders that     *)
(* execution_engine.py sends for them, the limits of risk_manager.py and    *)
(* the breaker and gate of main.py.                                        *)
(*                                                                         *)
(* Upbit has no stop orders: a trade is bought and sold at market by the    *)
(* bot, so what protects a coin is the record of its trade, in memory and   *)
(* in naked/state.json.  One task drives the trades, one after the other;   *)
(* scans, the synchronisation of orders, the breaker and the exchange take  *)
(* their steps between its awaits.  DRY_RUN is left out.                    *)
(*                                                                         *)
(* A trade buys Size parts of its coin (two when half of them is sold at    *)
(* the first target).  Prices are not modelled: an entry, an expiry, a      *)
(* stop or a target may be due whenever the price is read, and a falling    *)
(* price may leave what a sale would fetch below the exchange's minimum.     *)
(***************************************************************************)
EXTENDS Naturals, FiniteSets, Functions

CONSTANTS
  Tickers,     \* markets with a live trade
  MaxTrades,   \* trades that are opened
  Market,      \* the ticker of each, in the order of their signals
  Size,        \* parts of its coin that a trade buys: two in split mode
  Prior,       \* parts of each coin the account holds from elsewhere
  MaxBuys,     \* MAX_BUYS_PER_DAY
  MaxPosition, \* MAX_POSITION_KRW, in parts
  MaxExposure, \* MAX_TOTAL_EXPOSURE_KRW, in parts
  MaxOrders,   \* orders open or tracked at a time
  MaxTrouble,  \* answers lost, queries and requests failed, timeouts
  MaxCrashes,  \* kills of the process
  MaxTurns     \* midnights, halts, trips, changes of the gate, signals

ASSUME SpotAssumption ==
  /\ MaxTrades \in Nat /\ Market \in [1..MaxTrades -> Tickers]
  /\ Size \in Nat \ {0} /\ Prior \in [Tickers -> Nat]
  /\ MaxBuys \in Nat /\ MaxPosition \in Nat /\ MaxExposure \in Nat
  /\ MaxOrders \in Nat
  /\ MaxTrouble \in Nat /\ MaxCrashes \in Nat /\ MaxTurns \in Nat

Trades == 1..MaxTrades

VARIABLES
  coin,    \* exchange: parts of each coin that are free
  ords,    \* exchange and active_orders: orders that are open or tracked
  tr,      \* memory: the Trade records
  nt,      \* trades opened
  live,    \* memory: NakedStrategy.live, 0 for none
  file,    \* disk: the live trades in naked/state.json
  dirty,   \* a scan is under way and will save
  cache,   \* memory: ExecutionEngine.balances
  aged,    \* the cache is older than BALANCE_REFRESH_SEC
  buys,    \* disk: RiskManager.buys_today
  halted,  \* disk: RiskManager.halted
  newday,  \* the trade_date of the risk manager is over
  cool,    \* disk: the cooldown of each ticker, see CooldownEnds
  brk,     \* the circuit breaker in process_tick
  enabled, \* live_enabled: the validation gate
  pc, h,   \* the driving task: where it waits, its local variables
  stopping,\* a signal asked the bot to stop
  thin,    \* markets where a sale is worth less than MIN_ORDER_KRW at the price
  have,    \* history: parts each trade bought and did not sell
  bought,  \* history: orders accepted that buy for a trade
  today,   \* history: buys accepted since midnight
  late,    \* history: one of them was checked before midnight
  clean,   \* history: no order had an outcome the bot could not know
  cut,     \* history: trades marked as sold for more than was sold
  trouble, crashes, turns

exchange == <<coin, ords>>
memory   == <<tr, nt, live>>
balances == <<cache, aged>>
risk     == <<buys, halted, newday, cool>>
control  == <<brk, enabled, stopping, thin>>
task     == <<pc, h>>
history  == <<have, bought, today, late, clean, cut>>
budget   == <<trouble, crashes, turns>>
vars == <<exchange, memory, file, dirty, balances, risk, control, task, history, budget>>

----------------------------------------------------------------------------
(* An order is "sent" until the bot has its answer, then "tracked" in       *)
(* active_orders, "loose" when the bot does not know it (any more).         *)
Statuses == {"none", "pending", "open", "closed", "cancelled"}
Trade    == [st: Statuses, vol: 0..Size, pend: BOOLEAN]
Entry    == [id: 0..MaxTrades, st: Statuses, vol: 0..Size, pend: BOOLEAN]
Order    == [n: Nat, id: Trades, side: {"bid", "ask"}, qty: 1..Size,
             ended: BOOLEAN, by: {"sent", "tracked", "loose"}]
Absent   == [id |-> 0, st |-> "none", vol |-> 0, pend |-> FALSE]
NoJob    == [left |-> {}, id |-> 0, can |-> FALSE, want |-> 0, qty |-> 0]

Landed  == {"buyLanded", "buyTold", "sellLanded", "sellTold"}
Waiting == {"buyBal", "buySend", "buyFailed", "sellBal", "sellFresh", "sellSend",
            "sellFailed"} \cup Landed
Up      == pc # "off"
\* The task holds the event loop from one wait to the next.
Free    == Up /\ pc # "next"

\* Mutated form: a scan does not ask.
Busy_Forgotten(i) == FALSE

\* Trade.busy: the task has an order of this trade under way.
Busy(i) == pc \in Waiting /\ h.id = i
Over(i) == tr[i].st \in {"closed", "cancelled"}
Coin(i) == Market[i]

\* _save: the live trades that are not done, in one replaced file.
Saved(T, L) == [t \in Tickers |->
  IF L[t] # 0 /\ T[L[t]].st \in {"pending", "open"}
  THEN [id |-> L[t], st |-> T[L[t]].st, vol |-> T[L[t]].vol, pend |-> T[L[t]].pend]
  ELSE Absent]

Loosened(S, by) == {o \in S : o.by # by \/ ~o.ended}
Loosen(S, by) == {IF o.by = by THEN [o EXCEPT !.by = "loose"] ELSE o : o \in Loosened(S, by)}
Sum(c) == FoldFunction(+, 0, c)
Lower(a, b) == IF a <= b THEN a ELSE b

TypeOK ==
  /\ coin \in [Tickers -> Nat] /\ ords \subseteq Order
  /\ tr \in [Trades -> Trade] /\ nt \in 0..MaxTrades
  /\ live \in [Tickers -> 0..MaxTrades] /\ file \in [Tickers -> Entry]
  /\ dirty \in BOOLEAN
  /\ cache \in [Tickers -> Nat] /\ aged \in BOOLEAN
  /\ buys \in Nat /\ halted \in BOOLEAN /\ newday \in BOOLEAN
  /\ cool \in [Tickers -> {"no", "hot", "warm"}]
  /\ brk \in {"calm", "tripping", "telling", "cooling"}
  /\ enabled \in BOOLEAN /\ stopping \in BOOLEAN /\ thin \subseteq Tickers
  /\ pc \in {"off", "idle", "next"} \cup Waiting
  /\ h \in [left: SUBSET Trades, id: 0..MaxTrades, can: BOOLEAN, want: 0..Size, qty: 0..Size]
  /\ pc \in Waiting => h.id # 0
  /\ have \in [Trades -> Nat] /\ bought \in [Trades -> Nat]
  /\ today \in Nat /\ late \in BOOLEAN /\ clean \in BOOLEAN /\ cut \subseteq Trades
  /\ trouble \in 0..MaxTrouble /\ crashes \in 0..MaxCrashes /\ turns \in 0..MaxTurns

Init ==
  /\ coin = Prior /\ ords = {}
  /\ tr = [i \in Trades |-> [st |-> "none", vol |-> 0, pend |-> FALSE]]
  /\ nt = 0 /\ live = [t \in Tickers |-> 0] /\ file = [t \in Tickers |-> Absent]
  /\ dirty = FALSE /\ cache = Prior /\ aged = FALSE
  /\ buys = 0 /\ halted = FALSE /\ newday = FALSE /\ cool = [t \in Tickers |-> "no"]
  /\ brk = "calm" /\ enabled = TRUE /\ stopping = FALSE /\ thin = {}
  /\ pc = "idle" /\ h = NoJob
  /\ have = [i \in Trades |-> 0] /\ bought = [i \in Trades |-> 0]
  /\ today = 0 /\ late = FALSE /\ clean = TRUE /\ cut = {}
  /\ trouble = 0 /\ crashes = 0 /\ turns = 0

Trouble == trouble < MaxTrouble /\ trouble' = trouble + 1
Calm    == UNCHANGED trouble
Turn    == turns < MaxTurns /\ turns' = turns + 1

----------------------------------------------------------------------------
(* RiskManager.  Its day turns when the counters are next looked at.        *)

\* Mutated form: the counter starts again although the day is the same.
BuysNow_Zero == 0

BuysNow == IF newday THEN 0 ELSE buys
HaltNow == halted /\ ~newday

\* roll_day_if_needed.
RollDay == newday' = FALSE /\ buys' = BuysNow /\ halted' = HaltNow

\* Midnight, once until the risk manager has seen it.
NextDay ==
  /\ Free /\ ~newday /\ Turn
  /\ newday' = TRUE /\ today' = 0 /\ late' = (pc = "buySend")
  /\ UNCHANGED <<exchange, memory, file, dirty, balances, buys, halted, cool,
                 control, task, have, bought, clean, cut, trouble, crashes>>

\* update_equity, which process_tick reaches only when the breaker is calm.
UpdateEquity ==
  /\ Free /\ brk = "calm"
  /\ newday' = FALSE /\ buys' = BuysNow
  /\ \/ halted' = HaltNow /\ UNCHANGED turns
     \/ halted' = TRUE /\ Turn
  /\ UNCHANGED <<exchange, memory, file, dirty, balances, cool, control, task,
                 history, trouble, crashes>>

\* check_buy, with the balances c.
MayBuy(i, c) ==
  /\ ~HaltNow /\ BuysNow < MaxBuys
  /\ c[Coin(i)] + Size <= MaxPosition
  /\ Sum(c) + Size <= MaxExposure
  /\ cool[Coin(i)] = "no"

\* register_order: last_order_ts holds for 60 s, balances for 15 s, so the
\* ticker of an order cools only after fresh balances or with old ones.
Registered(i) == cool' = [cool EXCEPT ![Coin(i)] = "hot"]
Refreshed(c)  == [t \in Tickers |-> IF c[t] = "hot" THEN "warm" ELSE c[t]]

CooldownEnds(t) ==
  /\ Free
  /\ \/ cool[t] = "warm"
     \/ cool[t] = "hot" /\ aged
  /\ cool' = [cool EXCEPT ![t] = "no"]
  /\ UNCHANGED <<exchange, memory, file, dirty, balances, buys, halted, newday,
                 control, task, history, budget>>

----------------------------------------------------------------------------
(* Balances. *)

\* _refresh_balances: a query that fails leaves the old balances.
Refresh ==
  \/ cache' = coin /\ aged' = FALSE /\ cool' = Refreshed(cool) /\ Calm
  \/ Trouble /\ UNCHANGED <<cache, aged, cool>>

\* The balances are older than BALANCE_REFRESH_SEC.
Age ==
  /\ Free /\ ~aged /\ aged' = TRUE
  /\ UNCHANGED <<exchange, memory, file, dirty, cache, risk, control, task,
                 history, budget>>

\* The clock's own refresh.
RefreshTick ==
  /\ Free /\ aged /\ Refresh
  /\ UNCHANGED <<exchange, memory, file, dirty, buys, halted, newday, control, task,
                 history, crashes, turns>>

----------------------------------------------------------------------------
(* The exchange.  A market order executes, unless it is cancelled before;   *)
(* what a sell order sells is not free any more.                            *)

Accept(i, side, qty) ==
  LET n == CHOOSE k \in 0..Cardinality(ords) : \A o \in ords : o.n # k IN
  /\ Cardinality(ords) < MaxOrders
  /\ ords' = ords \cup {[n |-> n, id |-> i, side |-> side, qty |-> qty,
                         ended |-> FALSE, by |-> "sent"]}

\* The order whose answer the task awaits.
Mine == CHOOSE o \in ords : o.by = "sent"

Ended(o) == IF o.by = "loose" THEN ords \ {o}
            ELSE (ords \ {o}) \cup {[o EXCEPT !.ended = TRUE]}

Execute(o) ==
  /\ ~o.ended
  /\ ords' = Ended(o)
  /\ coin' = IF o.side = "bid" THEN [coin EXCEPT ![Coin(o.id)] = @ + o.qty] ELSE coin
  /\ UNCHANGED <<memory, file, dirty, balances, risk, control, task, history, budget>>

\* What a cancelled order takes back.
Undone(o) ==
  /\ clean' = FALSE
  /\ have' = [have EXCEPT ![o.id] = IF o.side = "ask" THEN @ + o.qty
                                   ELSE @ - Lower(@, o.qty)]
  /\ coin' = IF o.side = "ask" THEN [coin EXCEPT ![Coin(o.id)] = @ + o.qty] ELSE coin

----------------------------------------------------------------------------
(* _sync_active_orders. *)

SyncEnded(o) ==
  /\ Free /\ o.by = "tracked" /\ o.ended
  /\ ords' = ords \ {o} /\ Refresh
  /\ UNCHANGED <<coin, memory, file, dirty, buys, halted, newday, control, task,
                 history, crashes, turns>>

\* ORDER_TIMEOUT_SEC without execution.
SyncTimeout(o) ==
  /\ Free /\ o.by = "tracked" /\ ~o.ended
  /\ ords' = ords \ {o} /\ Undone(o) /\ Trouble
  /\ cache' = coin' /\ aged' = FALSE /\ cool' = Refreshed(cool)
  /\ UNCHANGED <<memory, file, dirty, buys, halted, newday, control, task,
                 bought, today, late, cut, crashes, turns>>

\* Five times that without an answer to get_order.
SyncGiveUp(o) ==
  /\ Free /\ o.by = "tracked" /\ Trouble
  /\ ords' = (ords \ {o}) \cup {x \in {[o EXCEPT !.by = "loose"]} : ~x.ended}
  /\ UNCHANGED <<coin, memory, file, dirty, balances, risk, control, task,
                 history, crashes, turns>>

----------------------------------------------------------------------------
(* _drive_all and _drive: one task for all live trades, one after another.  *)

OnTick ==
  /\ pc = "idle" /\ ~stopping
  /\ \E t \in Tickers : live[t] # 0
  /\ pc' = "next"
  /\ h' = [NoJob EXCEPT !.left = {live[t] : t \in Tickers} \ {0}, !.can = brk # "cooling"]
  /\ UNCHANGED <<exchange, memory, file, dirty, balances, risk, control, history, budget>>

DriveEnd ==
  /\ pc = "next" /\ h.left = {}
  /\ pc' = "idle" /\ h' = NoJob
  /\ UNCHANGED <<exchange, memory, file, dirty, balances, risk, control, history, budget>>

\* To the next trade of the list taken at the start.
Onward(i) == pc' = "next" /\ h' = [h EXCEPT !.left = @ \ {i}, !.id = 0, !.want = 0, !.qty = 0]
At(p, i, want, qty) == pc' = p /\ h' = [h EXCEPT !.id = i, !.want = want, !.qty = qty]

\* The trade is done: _finish_live and _save.
Dropped(i) == /\ live' = [live EXCEPT ![Coin(i)] = 0]
              /\ file' = Saved(tr', live')
Retired(i) ==
  /\ tr' = [tr EXCEPT ![i].st = "cancelled"] /\ Dropped(i)
  /\ Onward(i)

\* A trade that a scan has finished since: whatever is live now goes.
DrivePop(i) ==
  /\ pc = "next" /\ i \in h.left /\ Over(i)
  /\ live' = [live EXCEPT ![Coin(i)] = 0] /\ Onward(i)
  /\ UNCHANGED <<exchange, tr, nt, file, dirty, balances, risk, control, history, budget>>

\* No price, or a price that asks for nothing.  An exit asked for at the
\* close of a bar goes out at any price.
DriveSkip(i) ==
  /\ pc = "next" /\ i \in h.left /\ ~Over(i)
  /\ IF tr[i].st = "open" /\ tr[i].pend THEN Trouble ELSE Calm
  /\ Onward(i)
  /\ UNCHANGED <<exchange, memory, file, dirty, balances, risk, control, history, crashes, turns>>

\* Expired, below its stop, the gate closed, or the market not fit to buy.
DriveCancel(i) ==
  /\ pc = "next" /\ i \in h.left /\ tr[i].st = "pending"
  /\ Retired(i)
  /\ UNCHANGED <<exchange, nt, dirty, balances, risk, control, history, budget>>

\* check_buy.  It may also refuse for want of money.
BuyChecked(i, c) ==
  /\ RollDay
  /\ \/ MayBuy(i, c) /\ At("buySend", i, 0, 0) /\ UNCHANGED <<memory, file>>
     \/ Retired(i) /\ UNCHANGED nt

DriveEnter(i) ==
  /\ pc = "next" /\ i \in h.left /\ tr[i].st = "pending" /\ enabled /\ h.can
  /\ IF aged
     THEN At("buyBal", i, 0, 0) /\ UNCHANGED <<memory, file, buys, halted, newday>>
     ELSE BuyChecked(i, cache)
  /\ UNCHANGED <<exchange, dirty, balances, cool, control, history, budget>>

BuyBal ==
  /\ pc = "buyBal" /\ Refresh /\ BuyChecked(h.id, cache')
  /\ UNCHANGED <<exchange, dirty, control, history, crashes, turns>>

BuyAccepted ==
  /\ pc = "buySend" /\ Accept(h.id, "bid", Size)
  /\ have' = [have EXCEPT ![h.id] = @ + Size]
  /\ bought' = [bought EXCEPT ![h.id] = @ + 1] /\ today' = today + 1
  /\ pc' = "buyLanded" /\ UNCHANGED h
  /\ UNCHANGED <<coin, memory, file, dirty, balances, risk, control, late, clean, cut, budget>>

\* No order, and place_order returns None.
BuyRefused ==
  /\ pc = "buySend" /\ pc' = "buyFailed" /\ UNCHANGED h
  /\ UNCHANGED <<exchange, memory, file, dirty, balances, risk, control, history, budget>>

Answered(p) ==
  /\ ords' = (ords \ {Mine}) \cup {[Mine EXCEPT !.by = "tracked"]}
  /\ Registered(h.id)
  /\ pc' = p

\* Mutated form: the clock ends the tick while notify_trade is awaited.
BuyAnswered_NoShield ==
  /\ pc = "buyLanded" /\ Answered("next")
  /\ h' = [h EXCEPT !.left = {}, !.id = 0]
  /\ buys' = buys + 1
  /\ UNCHANGED <<coin, memory, file, dirty, balances, halted, newday, control,
                 history, budget>>

BuyAnswered ==
  /\ pc = "buyLanded" /\ Answered("buyTold") /\ UNCHANGED h
  /\ buys' = buys + 1
  /\ UNCHANGED <<coin, memory, file, dirty, balances, halted, newday, control,
                 history, budget>>

\* An accepted order whose answer is lost: place_order returns None as well.
AnswerLost(from, to) ==
  /\ pc = from /\ pc' = to /\ UNCHANGED h
  /\ Trouble /\ clean' = FALSE
  /\ ords' = Loosen(ords, "sent")
  /\ UNCHANGED <<coin, memory, file, dirty, balances, risk, control,
                 have, bought, today, late, cut, crashes, turns>>
BuyLost  == AnswerLost("buyLanded", "buyFailed")
SellLost == AnswerLost("sellLanded", "sellFailed")

\* notify_error is done: the entry is given up.
BuyFailed ==
  /\ pc = "buyFailed" /\ Retired(h.id)
  /\ UNCHANGED <<exchange, nt, dirty, balances, risk, control, history, budget>>

\* notify_trade is done: mark_filled and _save.
BuyDone ==
  /\ pc = "buyTold"
  /\ tr' = [tr EXCEPT ![h.id].st = "open", ![h.id].vol = Size]
  /\ file' = Saved(tr', live) /\ Onward(h.id)
  /\ UNCHANGED <<exchange, nt, live, dirty, balances, risk, control, history, budget>>

\* place_market_sell from its sizing on, and check_sell: no order when nothing is
\* held, nor, at this tick and the next ones, while it is worth too little.
SellSized(i, want, c) ==
  /\ RollDay
  /\ IF c[Coin(i)] > 0 /\ Coin(i) \notin thin
     THEN At("sellSend", i, want, Lower(want, c[Coin(i)]))
     ELSE Onward(i)

\* Nothing held: the balances are asked for once more.
SellChecked(i, want, c) ==
  IF c[Coin(i)] > 0 THEN SellSized(i, want, c)
  ELSE At("sellFresh", i, want, 0) /\ UNCHANGED <<buys, halted, newday>>

\* The stop, a target (all of it, or the first half) or pending_exit.
DriveExit(i) ==
  /\ pc = "next" /\ i \in h.left /\ tr[i].st = "open"
  /\ \E want \in {1, tr[i].vol} :
       /\ tr[i].pend => want = tr[i].vol
       /\ IF aged THEN At("sellBal", i, want, 0) /\ UNCHANGED <<buys, halted, newday>>
                  ELSE SellChecked(i, want, cache)
  /\ UNCHANGED <<exchange, memory, file, dirty, balances, cool, control, history, budget>>

SellBal ==
  /\ pc = "sellBal" /\ Refresh /\ SellChecked(h.id, h.want, cache')
  /\ UNCHANGED <<exchange, memory, file, dirty, control, history, crashes, turns>>

SellFresh ==
  /\ pc = "sellFresh" /\ Refresh /\ SellSized(h.id, h.want, cache')
  /\ UNCHANGED <<exchange, memory, file, dirty, control, history, crashes, turns>>

SellAccepted ==
  /\ pc = "sellSend" /\ coin[Coin(h.id)] >= h.qty
  /\ coin' = [coin EXCEPT ![Coin(h.id)] = @ - h.qty]
  /\ Accept(h.id, "ask", h.qty)
  /\ have' = [have EXCEPT ![h.id] = @ - Lower(@, h.qty)]
  /\ pc' = "sellLanded" /\ UNCHANGED h
  /\ UNCHANGED <<memory, file, dirty, balances, risk, control, bought, today, late, clean, cut, budget>>

SellRefused ==
  /\ pc = "sellSend" /\ pc' = "sellFailed" /\ UNCHANGED h
  /\ IF coin[Coin(h.id)] >= h.qty THEN Trouble ELSE Calm
  /\ UNCHANGED <<exchange, memory, file, dirty, balances, risk, control, history, crashes, turns>>

SellAnswered ==
  /\ pc = "sellLanded" /\ Answered("sellTold") /\ UNCHANGED h
  /\ UNCHANGED <<coin, memory, file, dirty, balances, buys, halted, newday, control,
                 history, budget>>

\* Mutated form: pending_exit is cleared although nothing was sold.
SellFailed_Forgets ==
  /\ pc = "sellFailed" /\ Onward(h.id)
  /\ tr' = [tr EXCEPT ![h.id].pend = FALSE]
  /\ UNCHANGED <<exchange, nt, live, file, dirty, balances, risk, control, history, budget>>

\* exit_failures: the trade is tried again at the next tick.
SellFailed ==
  /\ pc = "sellFailed" /\ Onward(h.id)
  /\ UNCHANGED <<exchange, memory, file, dirty, balances, risk, control, history, budget>>

\* mark_exit for what was asked, whatever place_market_sell could sell.
SellDone ==
  /\ pc = "sellTold"
  /\ LET left == tr[h.id].vol - h.want IN
       IF left = 0
       THEN /\ tr' = [tr EXCEPT ![h.id].st = "closed", ![h.id].vol = 0, ![h.id].pend = FALSE]
            /\ Dropped(h.id)
       ELSE /\ tr' = [tr EXCEPT ![h.id].vol = left]
            /\ live' = live /\ file' = Saved(tr', live)
  /\ Onward(h.id)
  /\ cut' = IF h.qty < h.want THEN cut \cup {h.id} ELSE cut
  /\ UNCHANGED <<exchange, nt, dirty, balances, risk, control,
                 have, bought, today, late, clean, budget>>

Drive ==
  \/ DriveEnd
  \/ \E i \in Trades : DrivePop(i) \/ DriveSkip(i) \/ DriveCancel(i) \/ DriveEnter(i)
                       \/ DriveExit(i)
  \/ BuyBal \/ BuyAccepted \/ BuyRefused \/ BuyAnswered \/ BuyLost \/ BuyFailed \/ BuyDone
  \/ SellBal \/ SellFresh \/ SellAccepted \/ SellRefused \/ SellAnswered \/ SellLost
  \/ SellFailed \/ SellDone

----------------------------------------------------------------------------
(* Scans. *)

\* process_bar: the live trade of the ticker expires or is to be sold, unless
\* it is busy; then a signal may open a trade.
ScanBar(t) ==
  \E does \in {"nothing", "expires", "exits"}, new \in BOOLEAN :
    LET old == live[t] IN
    /\ Free /\ (does # "nothing" \/ new)
    /\ does = "expires" => old # 0 /\ tr[old].st = "pending" /\ ~Busy(old)
    /\ does = "exits" => old # 0 /\ tr[old].st = "open" /\ ~Busy(old)
    /\ new => /\ enabled /\ brk # "cooling" /\ ~halted /\ nt < MaxTrades /\ Market[nt + 1] = t
              /\ old = 0 \/ does = "expires"
    /\ tr' = [i \in Trades |->
         CASE i = old /\ does = "expires" -> [tr[i] EXCEPT !.st = "cancelled"]
           [] i = old /\ does = "exits"   -> [tr[i] EXCEPT !.pend = TRUE]
           [] new /\ i = nt + 1           -> [st |-> "pending", vol |-> 0, pend |-> FALSE]
           [] OTHER                       -> tr[i]]
    /\ nt' = IF new THEN nt + 1 ELSE nt
    /\ live' = [live EXCEPT ![t] = IF new THEN nt + 1 ELSE IF does = "expires" THEN 0 ELSE @]
    /\ dirty' = TRUE
    /\ UNCHANGED <<exchange, file, balances, risk, control, task, history, budget>>

\* The end of scan.
ScanSave ==
  /\ Free /\ dirty /\ dirty' = FALSE /\ file' = Saved(tr, live)
  /\ UNCHANGED <<exchange, memory, balances, risk, control, task, history, budget>>

----------------------------------------------------------------------------
(* The breaker, in process_tick: cancel_all and a notification come before  *)
(* the cooldown starts; the clock may end the tick in between.              *)

Breaker(from, to) == Free /\ brk = from /\ brk' = to

Trip ==
  /\ Breaker("calm", "tripping") /\ Turn
  /\ UNCHANGED <<exchange, memory, file, dirty, balances, risk, enabled, stopping, thin, task,
                 history, trouble, crashes>>

\* cancel_all_open at the exchange.
TripCancels(o) ==
  /\ brk = "tripping" /\ ~o.ended
  /\ ords' = Ended(o) /\ Undone(o)
  /\ UNCHANGED <<memory, file, dirty, balances, risk, control, task, bought, today, late, cut, budget>>

\* active_orders.clear().
TripClears ==
  /\ Breaker("tripping", "telling")
  /\ ords' = Loosen(ords, "tracked")
  /\ UNCHANGED <<coin, memory, file, dirty, balances, risk, enabled, stopping, thin, task,
                 history, budget>>

Cools ==
  /\ Breaker("telling", "cooling") \/ Breaker("cooling", "calm")
  /\ UNCHANGED <<exchange, memory, file, dirty, balances, risk, enabled, stopping, thin, task,
                 history, budget>>

\* wait_for in Clock._safe_call.
TripTimeout ==
  /\ Breaker("tripping", "calm") \/ Breaker("telling", "calm")
  /\ Trouble
  /\ UNCHANGED <<exchange, memory, file, dirty, balances, risk, enabled, stopping, thin, task,
                 history, crashes, turns>>

\* The price of a market with a live trade falls below what a sale takes, and
\* comes back, or does not.
PriceFalls(t) ==
  /\ Free /\ t \notin thin /\ live[t] # 0 /\ Turn /\ thin' = thin \cup {t}
  /\ UNCHANGED <<exchange, memory, file, dirty, balances, risk, brk, enabled, stopping, task,
                 history, trouble, crashes>>

PriceRises(t) ==
  /\ Free /\ t \in thin /\ thin' = thin \ {t}
  /\ UNCHANGED <<exchange, memory, file, dirty, balances, risk, brk, enabled, stopping, task,
                 history, budget>>

\* _apply_naked_gate.
ApplyGate ==
  /\ Free /\ Turn /\ enabled' = ~enabled
  /\ UNCHANGED <<exchange, memory, file, dirty, balances, risk, brk, stopping, thin, task,
                 history, trouble, crashes>>

----------------------------------------------------------------------------
(* Stops, kills and restarts. *)

SigTerm ==
  /\ Free /\ Turn /\ ~stopping /\ stopping' = TRUE
  /\ UNCHANGED <<exchange, memory, file, dirty, balances, risk, brk, enabled, thin, task,
                 history, trouble, crashes>>

GoesDown ==
  /\ pc' = "off" /\ h' = NoJob /\ dirty' = FALSE /\ brk' = "calm" /\ stopping' = FALSE
  /\ aged' = TRUE
  /\ ords' = Loosen(Loosen(ords, "sent"), "tracked")
  /\ clean' = (clean /\ pc \notin Landed)
  /\ UNCHANGED <<coin, memory, cache, risk, enabled, thin, have, bought, today, late, cut>>

\* drain, then _cleanup saves.  drain waits for the task, but not for ever.
Stop ==
  /\ Free /\ stopping
  /\ IF pc = "idle" THEN Calm ELSE Trouble
  /\ file' = Saved(tr, live) /\ GoesDown /\ UNCHANGED <<crashes, turns>>

Crash ==
  /\ Free /\ crashes < MaxCrashes /\ crashes' = crashes + 1
  /\ GoesDown /\ UNCHANGED <<file, trouble, turns>>

\* _load, reconcile_on_startup and the gate.  Without balances the equity is
\* nothing, which may halt.
Restart ==
  /\ ~Up /\ pc' = "idle" /\ UNCHANGED h
  /\ live' = [t \in Tickers |-> file[t].id]
  /\ tr' = [i \in Trades |->
       IF \E t \in Tickers : file[t].id = i
       THEN LET e == file[Coin(i)] IN [tr[i] EXCEPT !.st = e.st, !.vol = e.vol, !.pend = e.pend]
       ELSE IF tr[i].st \in {"pending", "open"} THEN [tr[i] EXCEPT !.st = "cancelled", !.pend = FALSE]
       ELSE tr[i]]
  /\ newday' = FALSE /\ buys' = BuysNow
  /\ LET c == IF newday THEN [t \in Tickers |-> "no"] ELSE cool IN
       \/ /\ cache' = coin /\ aged' = FALSE /\ cool' = Refreshed(c) /\ Calm
          /\ halted' = HaltNow
          /\ ords' = {[o EXCEPT !.by = "tracked"] : o \in ords}
       \/ /\ cache' = [t \in Tickers |-> 0] /\ aged' = TRUE /\ cool' = c /\ Trouble
          /\ halted' \in {HaltNow, TRUE}
          /\ ords' \in {ords, {[o EXCEPT !.by = "tracked"] : o \in ords}}
  /\ enabled' = enabled
  /\ UNCHANGED <<coin, nt, file, dirty, brk, stopping, thin, history, crashes, turns>>

Next ==
  \/ NextDay \/ UpdateEquity \/ Age \/ RefreshTick \/ OnTick \/ Drive \/ ScanSave
  \/ Trip \/ TripClears \/ Cools \/ TripTimeout \/ ApplyGate \/ SigTerm \/ Stop \/ Crash \/ Restart
  \/ \E t \in Tickers : CooldownEnds(t) \/ ScanBar(t) \/ PriceFalls(t) \/ PriceRises(t)
  \/ \E o \in ords : Execute(o) \/ SyncEnded(o) \/ SyncTimeout(o) \/ SyncGiveUp(o) \/ TripCancels(o)

Spec == Init /\ [][Next]_vars

\* The clock ticks and the task goes on; the exchange executes
\* and the clock sees it.
Fairness ==
  /\ WF_vars(OnTick) /\ WF_vars(Drive)
  /\ WF_vars(\E o \in ords : Execute(o)) /\ WF_vars(\E o \in ords : SyncEnded(o))

LiveSpec == Spec /\ Fairness

----------------------------------------------------------------------------
(* Properties.  "clean" says that no order was cancelled at the exchange,   *)
(* lost its answer or was in flight when the process died.                  *)

\* The trade is not between the acceptance of its order and mark_filled or
\* mark_exit.
Settled(i) == ~(pc \in Landed /\ h.id = i)

\* A trade is bought at most once: neither a tick that the clock gives up, nor
\* the next one, nor a restart sends its buy again (docs/NAKED_FOREX.md:187).
BuysOnce == clean => \A i \in Trades : bought[i] <= 1

\* What a trade holds at the exchange is what the live trades say: no coin is
\* left without the trade that watches its stop, and no trade sells a coin that
\* is not its own (naked_strategy.py:486-488).
MemoryTrue ==
  clean /\ Up => \A i \in Trades \ cut : Settled(i) =>
    have[i] = IF live[Coin(i)] = i /\ tr[i].st = "open" THEN tr[i].vol ELSE 0

\* And what naked/state.json says, at every moment a restart can read it.
FileTrue ==
  clean => \A i \in Trades \ cut : Settled(i) =>
    have[i] = IF file[Coin(i)].id = i /\ file[Coin(i)].st = "open"
              THEN file[Coin(i)].vol ELSE 0

\* What is bought and not sold is what memory and disk say, at every moment a
\* tick or a restart can read them, but for a trade whose sale was cut to an old
\* balance and marked whole.
RecordsTrue == TypeOK /\ MemoryTrue /\ FileTrue

\* The buys of a calendar day stay within MAX_BUYS_PER_DAY, over restarts too
\* (README.md:115), but for one that was checked before midnight.
BuysBounded == clean /\ ~late => today <= MaxBuys

\* What the trades hold stays within MAX_TOTAL_EXPOSURE_KRW (README.md:113).
ExposureBounded == clean => Sum(have) + Sum(Prior) <= MaxExposure

\* An exit asked for at the close of a bar is sold, if no order went wrong, or it
\* is worth less than an order may be: when the price is back it is sold, or
\* falls again.
ExitHappens ==
  \A i \in Trades :
    tr[i].st = "open" /\ tr[i].pend /\ Up /\ Coin(i) \notin thin ~>
      tr[i].st # "open" \/ ~clean \/ stopping \/ ~Up \/ Coin(i) \in thin

(* What the comments say and the code does not do.                          *)

\* execution_engine.py:305: a sale never exceeds what is held, and the strategy
\* marks what it asked for (naked_strategy.py:653-657): a sale cut to an old
\* balance ends its trade, and the rest has none.
NothingCut == clean => cut = {}

\* naked_strategy.py:642-643: what would be refused for ever is sold whole; the
\* whole may be worth too little as well, and is refused at every tick.
ExitAlways ==
  \A i \in Trades : tr[i].st = "open" /\ tr[i].pend /\ Up ~> tr[i].st # "open" \/ ~clean \/ stopping \/ ~Up
=============================================================================
