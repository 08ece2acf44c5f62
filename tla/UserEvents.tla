----------------------------- MODULE UserEvents -----------------------------
(***************************************************************************)
(* From the messages of the user data stream to the record of the bot: the *)
(* deduplicator (websocket.py), the order tracker (user_events.py), the    *)
(* handler of the engine (engine.py), the order rows, and the fills table  *)
(* that messages and REST queries both write (context.py, db.py).          *)
(*                                                                         *)
(* Trades follow each other.  Each has an entry order "EN" and two         *)
(* conditional orders: the target "TP" of one contract and the stop "SL"   *)
(* of the whole position.  A conditional order that triggers starts a      *)
(* market order whose client id is not one of the bot's: only the algo     *)
(* messages and the order row link it to the conditional order.  How the   *)
(* orders are placed, and what else the handlers do, is in EntryFlow and   *)
(* ProtectExit.                                                            *)
(***************************************************************************)
EXTENDS Naturals, Sequences, FiniteSets

CONSTANTS
  NT,          \* trades
  Qty,         \* contracts of an entry order
  MaxSeen,     \* messages the deduplicator remembers
  Backlog,     \* the exchange waits while so many messages are on the way
  MaxTrouble   \* messages that come twice, lost streams and requests, crashes

ASSUME EventsAssumption ==
  /\ NT \in Nat \ {0} /\ Qty \in Nat \ {0}
  /\ MaxSeen \in Nat /\ Backlog \in Nat /\ MaxTrouble \in Nat

Trades  == 1..NT
Orders  == Trades \X {"EN", "TP", "SL"}
Conds   == Trades \X {"TP", "SL"}
Fills   == Orders \X (1..Qty)        \* an order and its quantity after the fill
Entry(i)  == <<i, "EN">>
Guards(i) == {<<i, "TP">>, <<i, "SL">>}

VARIABLES
  plain,    \* exchange: entry orders and the market orders of triggered ones
  algo,     \* exchange: status of the conditional orders
  fills,    \* exchange: the fills that happened
  now,      \* exchange: messages sent, the clock that stamps them
  net,      \* messages on the way, up to the queue of the engine
  conn,     \* the stream is connected
  row,      \* disk: status of the order rows
  rowLink,  \* disk: rows that know the market order of their conditional order
  book,     \* disk: the trade each recorded fill is booked to
  phase,    \* disk: the state of the trade records
  marked,   \* disk: trades with their target in tp_filled
  seen,     \* memory: EventDeduper
  trk, tra, \* memory: OrderTracker.orders and .algos
  link,     \* memory: OrderTracker.actual_to_algo
  counted,  \* memory: OrderTracker.seen_trades
  pc, job,  \* memory: where the task with the lock is, the message it is at
  gap,      \* history: a message or the memory was lost
  synced,   \* history: trades whose fills were fetched when they were closed
  lives,    \* history: starts of the process
  trouble   \* the part of MaxTrouble that is spent

exchange == <<plain, algo, fills>>
network  == <<now, net, conn, gap>>
orders   == <<row, rowLink>>
record   == <<phase, marked, synced>>
tracker  == <<trk, tra, link, counted>>
task     == <<pc, job>>
vars == <<exchange, network, orders, record, book, seen, tracker, task, lives, trouble>>

----------------------------------------------------------------------------
(* Statuses and messages. *)

PlainStatus == {"NEW", "PARTIALLY_FILLED", "FILLED", "EXPIRED"}
AlgoStatus  == {"NEW", "TRIGGERED", "FINISHED", "CANCELED"}
Status      == PlainStatus \cup AlgoStatus

OrderRank == [s \in Status |->
  CASE s = "NEW" -> 0 [] s = "PARTIALLY_FILLED" -> 1 [] OTHER -> 2]
AlgoRank == [s \in Status |->
  CASE s = "NEW" -> 0 [] s = "TRIGGERED" -> 2 [] OTHER -> 3]

\* cum: executed so far (z, aq); last: executed by this message (l); link:
\* the market order is named (ai); at: the time stamp.
Message == [kind: {"order", "algo"}, id: Orders, st: Status, cum: 0..Qty,
            last: 0..Qty, link: BOOLEAN, at: Nat]

OrderMsg(o, s, cum, last, at) ==
  [kind |-> "order", id |-> o, st |-> s, cum |-> cum, last |-> last,
   link |-> FALSE, at |-> at]
AlgoMsg(c, s, qty, linked, at) ==
  [kind |-> "algo", id |-> c, st |-> s, cum |-> qty, last |-> 0,
   link |-> linked, at |-> at]

IsTrade(m) == m.kind = "order" /\ m.last > 0
FillOf(m)  == <<m.id, m.cum>>

NoPlain   == [st |-> "none", cum |-> 0, qty |-> 0]
NoTracked == [st |-> "none", cum |-> 0, ms |-> 0]
NoJob     == OrderMsg(Entry(1), "NEW", 0, 0, 0)

\* Owners in the book: a trade, nobody (trade_id NULL), or not recorded yet.
Nobody  == 0
Missing == NT + 1

Holding(i) == plain[Entry(i)].cum - plain[<<i, "TP">>].cum - plain[<<i, "SL">>].cum
Flat(i)    == plain[Entry(i)].cum = plain[<<i, "TP">>].cum + plain[<<i, "SL">>].cum

\* engine.trade: the one record that is not CLOSED.
Active == {i \in Trades : phase[i] \in {"pending", "open"}}

----------------------------------------------------------------------------
TypeOK ==
  /\ plain \in [Orders -> [st: PlainStatus \cup {"none"}, cum: 0..Qty, qty: 0..Qty]]
  /\ algo \in [Conds -> AlgoStatus \cup {"none"}]
  /\ fills \subseteq Fills
  /\ now \in Nat /\ net \subseteq Message /\ conn \in BOOLEAN
  /\ row \in [Orders -> Status \cup {"none"}] /\ rowLink \subseteq Conds
  /\ book \in [Fills -> 0..NT + 1]
  /\ phase \in [Trades -> {"none", "pending", "open", "closed"}]
  /\ marked \subseteq Trades
  /\ seen \in Seq(Message)
  /\ trk \in [Orders -> [st: Status \cup {"none"}, cum: 0..Qty, ms: Nat]]
  /\ tra \in [Conds -> Status \cup {"none"}]
  /\ link \subseteq Conds /\ counted \subseteq Fills
  /\ pc \in {"free", "entering", "act"} /\ job \in Message
  /\ gap \in BOOLEAN /\ synced \subseteq Trades
  /\ lives \in Nat /\ trouble \in 0..MaxTrouble

Init ==
  /\ plain = [o \in Orders |-> NoPlain] /\ algo = [c \in Conds |-> "none"]
  /\ fills = {}
  /\ now = 0 /\ net = {} /\ conn = TRUE /\ gap = FALSE
  /\ row = [o \in Orders |-> "none"] /\ rowLink = {}
  /\ phase = [i \in Trades |-> "none"] /\ marked = {} /\ synced = {}
  /\ book = [f \in Fills |-> Missing]
  /\ seen = <<>>
  /\ trk = [o \in Orders |-> NoTracked] /\ tra = [c \in Conds |-> "none"]
  /\ link = {} /\ counted = {}
  /\ pc = "free" /\ job = NoJob
  /\ lives = 1 /\ trouble = 0

----------------------------------------------------------------------------
(* The exchange: orders execute in parts, and every change is a message     *)
(* that is lost when the stream is down.                                    *)

Live(o) == plain[o].st \in {"NEW", "PARTIALLY_FILLED"}

Emit(msgs, clock) ==
  /\ now' = clock /\ UNCHANGED conn
  /\ net' = IF conn THEN net \cup msgs ELSE net
  /\ gap' = (gap \/ (~conn /\ msgs # {}))

\* Messages pile up while an entry holds the lock.
OnlyExchange ==
  /\ Cardinality(net) < Backlog \/ pc = "entering"
  /\ UNCHANGED <<orders, record, book, seen, tracker, task, lives, trouble>>

Fill(o) == \E c \in 1..Qty :
  LET s == IF c = plain[o].qty THEN "FILLED" ELSE "PARTIALLY_FILLED" IN
  /\ Live(o) /\ plain[o].cum < c /\ c <= plain[o].qty
  /\ plain' = [plain EXCEPT ![o] = [st |-> s, cum |-> c, qty |-> plain[o].qty]]
  /\ fills' = fills \cup {<<o, c>>}
  /\ Emit({OrderMsg(o, s, c, c - plain[o].cum, now + 1)}, now + 1)
  /\ UNCHANGED algo /\ OnlyExchange

\* The rest of a market order finds nobody to trade with.
Expire(i) == LET o == Entry(i) IN
  /\ Live(o)
  /\ plain' = [plain EXCEPT ![o] =
                [st |-> "EXPIRED", cum |-> plain[o].cum, qty |-> plain[o].qty]]
  /\ Emit({OrderMsg(o, "EXPIRED", plain[o].cum, 0, now + 1)}, now + 1)
  /\ UNCHANGED <<algo, fills>> /\ OnlyExchange

Trigger(c) ==
  /\ algo[c] = "NEW" /\ ~Flat(c[1]) /\ \A o \in Orders : ~Live(o)
  /\ algo' = [algo EXCEPT ![c] = "TRIGGERED"]
  /\ plain' = [plain EXCEPT ![c] =
       [st |-> "NEW", cum |-> 0, qty |-> IF c[2] = "TP" THEN 1 ELSE Holding(c[1])]]
  /\ Emit({AlgoMsg(c, "TRIGGERED", 0, TRUE, now + 1),
           OrderMsg(c, "NEW", 0, 0, now + 2)}, now + 2)
  /\ UNCHANGED fills /\ OnlyExchange

\* Its market order is done, or there was nothing left to reduce.
Finish(c) ==
  /\ \/ algo[c] = "TRIGGERED" /\ plain[c].st = "FILLED"
     \/ algo[c] = "NEW" /\ Flat(c[1])
  /\ algo' = [algo EXCEPT ![c] = "FINISHED"]
  /\ Emit({AlgoMsg(c, "FINISHED", plain[c].cum, plain[c].st # "none", now + 1)}, now + 1)
  /\ UNCHANGED <<plain, fills>> /\ OnlyExchange

----------------------------------------------------------------------------
(* The stream. *)

Trouble == trouble < MaxTrouble /\ trouble' = trouble + 1

\* What the engine has not queued yet is lost.
Disconnect ==
  /\ conn /\ Trouble
  /\ conn' = FALSE
  /\ \E kept \in SUBSET net : net' = kept /\ gap' = (gap \/ kept # net)
  /\ UNCHANGED <<exchange, now, orders, record, book, seen, tracker, task, lives>>

Reconnect ==
  /\ ~conn /\ conn' = TRUE
  /\ UNCHANGED <<exchange, now, net, gap, orders, record, book, seen, tracker, task,
                 lives, trouble>>

\* A message may overtake others and may come again.
Take(m) ==
  /\ pc = "free" /\ m \in net
  /\ \/ net' = net \ {m} /\ UNCHANGED trouble
     \/ UNCHANGED net /\ Trouble
  /\ UNCHANGED <<now, conn, gap, lives>>

InSeen(m) == \E k \in DOMAIN seen : seen[k] = m

Remember(m) == seen' =
  IF Len(seen) < MaxSeen THEN Append(seen, m) ELSE Tail(Append(seen, m))

\* EventDeduper.seen: nothing else happens.
Repeat(m) ==
  /\ Take(m) /\ InSeen(m)
  /\ UNCHANGED <<exchange, orders, record, book, seen, tracker, task>>

----------------------------------------------------------------------------
(* The order tracker. *)

\* OrderTracker.apply_order: t is what is known of the order.
Stale(t, m) ==
  \/ m.cum < t.cum
  \/ OrderRank[m.st] < OrderRank[t.st]
  \/ OrderRank[m.st] = 2 /\ OrderRank[t.st] = 2 /\ m.st # t.st
  \/ m.at < t.ms /\ m.cum <= t.cum /\ OrderRank[m.st] <= OrderRank[t.st]

\* Mutated form: every message that says something else is taken.
Accepts_Any(t, m) == t.st = "none" \/ m.st # t.st \/ m.cum # t.cum

Accepts(t, m) ==
  \/ t.st = "none"
  \/ (m.st # t.st \/ m.cum # t.cum) /\ ~Stale(t, m)

Tracked(t, m) ==
  IF Accepts(t, m)
  THEN [st |-> m.st, cum |-> m.cum, ms |-> IF m.at > t.ms THEN m.at ELSE t.ms]
  ELSE t

\* OrderTracker.apply_algo: s is the status known of the conditional order.
AlgoChanges(s, m) == s = "none" \/ (AlgoRank[m.st] >= AlgoRank[s] /\ m.st # s)

\* Mutated form: the last message wins.
NewAlgo_Latest(s, m) == m.st

NewAlgo(s, m) == IF AlgoChanges(s, m) THEN m.st ELSE s

----------------------------------------------------------------------------
(* The fills table. *)

\* The trade of a fill: by the client id of its order, by the row that knows
\* the market order, by the tracker, else the trade that holds a position.
Owner(o, links, holder) ==
  IF o[2] = "EN" \/ o \in links \/ o \in link THEN o[1] ELSE holder

\* A trade holds a position from its confirmed entry until it is CLOSED.
Holder == IF \E i \in Trades : phase[i] = "open"
          THEN CHOOSE i \in Trades : phase[i] = "open" ELSE Nobody

\* Mutated form: a fill of an unknown order is left out.
SyncFills_KnownOnly(i, links) ==
  book' = [f \in Fills |->
    IF f \in fills /\ book[f] = Missing /\ Owner(f[1], links, Nobody) = i
    THEN i ELSE book[f]]

\* sync_fills while i is the trade: its fills and, when they are recent, those
\* of earlier trades.
SyncFills(i, links) == \E recent \in BOOLEAN :
  book' = [f \in Fills |->
    IF f \in fills /\ book[f] = Missing /\ (f[1][1] = i \/ recent)
    THEN Owner(f[1], links, i) ELSE book[f]]

\* The requests of a step work, or some of them do not.
Answered(ok) == IF ok THEN UNCHANGED trouble ELSE Trouble

----------------------------------------------------------------------------
(* Trades, as far as messages and fills depend on them. *)

\* The entry order is on the exchange; its task holds the lock until the
\* order is confirmed.
Place(i) == LET o == Entry(i) IN
  /\ pc = "free" /\ phase[i] = "none" /\ \A j \in Trades : j < i => phase[j] = "closed"
  /\ plain' = [plain EXCEPT ![o] = [st |-> "NEW", cum |-> 0, qty |-> Qty]]
  /\ row' = [row EXCEPT ![o] = "NEW"]
  /\ phase' = [phase EXCEPT ![i] = "pending"]
  /\ pc' = "entering"
  /\ Emit({OrderMsg(o, "NEW", 0, 0, now + 1)}, now + 1)
  /\ UNCHANGED <<algo, fills, rowLink, marked, synced, book, seen, tracker, job, lives,
                 trouble>>

\* By the entry task, or by recovery after a crash: the final status is stored,
\* the fills are fetched, stop and target are placed.
Confirm(i) == LET o == Entry(i) IN
  /\ pc # "act" /\ phase[i] = "pending" /\ plain[o].cum > 0 /\ ~Live(o)
  /\ \/ SyncFills(i, rowLink) /\ Answered(TRUE)
     \/ UNCHANGED book /\ Answered(FALSE)
  /\ algo' = [c \in Conds |-> IF c \in Guards(i) THEN "NEW" ELSE algo[c]]
  /\ row' = [x \in Orders |-> IF x = o THEN plain[o].st
                             ELSE IF x \in Guards(i) THEN "NEW" ELSE row[x]]
  /\ phase' = [phase EXCEPT ![i] = "open"]
  /\ pc' = "free"
  /\ Emit({AlgoMsg(<<i, "SL">>, "NEW", 0, FALSE, now + 1),
           AlgoMsg(<<i, "TP">>, "NEW", 0, FALSE, now + 2)}, now + 2)
  /\ UNCHANGED <<plain, fills, rowLink, marked, synced, seen, tracker, job, lives>>

\* Nothing was executed.
GiveUp(i) == LET o == Entry(i) IN
  /\ pc # "act" /\ phase[i] = "pending" /\ plain[o].cum = 0 /\ plain[o].st = "EXPIRED"
  /\ row' = [row EXCEPT ![o] = "EXPIRED"]
  /\ phase' = [phase EXCEPT ![i] = "closed"]
  /\ pc' = "free"
  /\ UNCHANGED <<exchange, network, rowLink, marked, synced, book, seen, tracker, job,
                 lives, trouble>>

\* cancel_trade_orders: open in the rows or at the exchange.
ToCancel(i) == {c \in Guards(i) : algo[c] = "NEW" \/ row[c] \in {"NEW", "TRIGGERED"}}

\* ExitManager.finalize: an order that can no longer be cancelled is asked for,
\* then the fills are fetched.  Requests may fail, the trade is CLOSED all the
\* same.
Close(i) == \E done \in SUBSET ToCancel(i), fetched \in BOOLEAN :
  LET gone == {c \in done : algo[c] = "NEW"} IN
  /\ phase[i] = "open" /\ Flat(i)
  /\ Answered(fetched /\ done = ToCancel(i))
  /\ algo' = [c \in Conds |-> IF c \in gone THEN "CANCELED" ELSE algo[c]]
  /\ row' = [o \in Orders |-> IF o \in done THEN algo'[o] ELSE row[o]]
  /\ rowLink' = rowLink \cup {c \in done : plain[c].st # "none"}
  /\ IF fetched THEN SyncFills(i, rowLink') /\ synced' = synced \cup {i}
                ELSE UNCHANGED <<book, synced>>
  /\ phase' = [phase EXCEPT ![i] = "closed"]
  /\ Emit({AlgoMsg(c, "CANCELED", 0, FALSE, now + IF c[2] = "TP" THEN 1 ELSE 2) :
             c \in gone}, now + 2)
  /\ UNCHANGED <<plain, fills, seen, tracker, lives>>

----------------------------------------------------------------------------
(* Engine._handle_user_event: from the tracker to the fills table without   *)
(* an await; what the fill means for the trade comes after it.              *)

\* seen_trades, and the unique key of the fills table.
NewFill(m) == IsTrade(m) /\ FillOf(m) \notin counted

\* Mutated form: a fill that is there is written again.
Inserted_Replaces(m) == NewFill(m)

Inserted(m) == NewFill(m) /\ book[FillOf(m)] = Missing

HandleOrder(m) == LET own == Owner(m.id, rowLink, Holder) IN
  /\ Take(m) /\ ~InSeen(m) /\ m.kind = "order"
  /\ Remember(m)
  /\ trk' = [trk EXCEPT ![m.id] = Tracked(@, m)]
  /\ counted' = IF NewFill(m) THEN counted \cup {FillOf(m)} ELSE counted
  /\ row' = IF m.id[2] = "EN" /\ Accepts(trk[m.id], m)
            THEN [row EXCEPT ![m.id] = m.st] ELSE row
  /\ book' = IF Inserted(m) THEN [book EXCEPT ![FillOf(m)] = own] ELSE book
  /\ IF Inserted(m) /\ own \in Active
     THEN pc' = "act" /\ job' = m ELSE UNCHANGED task
  /\ UNCHANGED <<exchange, rowLink, record, tra, link>>

\* The row takes the status whether the tracker takes it or not.
HandleAlgo(m) == LET c == m.id IN
  /\ Take(m) /\ ~InSeen(m) /\ m.kind = "algo"
  /\ Remember(m)
  /\ tra' = [tra EXCEPT ![c] = NewAlgo(@, m)]
  /\ link' = IF m.link THEN link \cup {c} ELSE link
  /\ row' = [row EXCEPT ![c] = m.st]
  /\ rowLink' = IF m.link THEN rowLink \cup {c} ELSE rowLink
  /\ IF /\ c[1] \in Active /\ AlgoChanges(tra[c], m)
        /\ \/ c[2] = "SL" /\ m.st \in {"TRIGGERED", "FINISHED"}
           \/ c[2] = "TP" /\ m.st = "FINISHED" /\ m.cum > 0
     THEN pc' = "act" /\ job' = m ELSE UNCHANGED task
  /\ UNCHANGED <<exchange, record, book, trk, counted>>

\* Mutated form: only the fill of the market order marks the target.
MarksTarget_ByFill(m) ==
  m.id[2] = "TP" /\ m.kind = "order" /\ m.id \in link /\ m.st = "FILLED"

\* The target is executed: by its market order, once it is known to be the
\* target's, or by the message that the conditional order is finished.
MarksTarget(m) ==
  /\ m.id[2] = "TP"
  /\ m.kind = "order" => m.id \in link /\ m.st = "FILLED"

Mark == marked' = IF MarksTarget(job) THEN marked \cup {job.id[1]} ELSE marked

\* _on_trade_fill, _mark_tp_filled and _check_flat: a position that is gone
\* closes the trade, unless the query fails.
Act ==
  /\ pc = "act" /\ pc' = "free" /\ job' = NoJob
  /\ Mark
  /\ \/ UNCHANGED <<exchange, network, orders, phase, synced, book, seen, tracker,
                     lives, trouble>>
     \/ job.id[2] # "EN" /\ \E i \in Trades : Close(i)

----------------------------------------------------------------------------
(* Recovery and crashes. *)

\* The reconciliation finds the position gone.
CloseFlat(i) == pc = "free" /\ Close(i) /\ UNCHANGED <<marked, task>>

\* Step 11 asks for the orders its rows call open and the exchange does not.
RefreshRow(o) ==
  /\ pc = "free" /\ row[o] \in {"NEW", "PARTIALLY_FILLED"}
  /\ IF o \in Conds THEN algo[o] # "NEW" ELSE ~Live(o)
  /\ row' = [row EXCEPT ![o] = IF o \in Conds THEN algo[o] ELSE plain[o].st]
  /\ rowLink' = IF o \in Conds /\ plain[o].st # "none" THEN rowLink \cup {o} ELSE rowLink
  /\ UNCHANGED <<exchange, network, record, book, seen, tracker, task, lives, trouble>>

\* What is in memory and what is on the way is gone; the stream starts anew.
Crash ==
  /\ Trouble /\ lives' = lives + 1
  /\ net' = {} /\ conn' = FALSE /\ gap' = TRUE
  /\ seen' = <<>> /\ counted' = {} /\ link' = {}
  /\ trk' = [o \in Orders |-> NoTracked] /\ tra' = [c \in Conds |-> "none"]
  /\ pc' = "free" /\ job' = NoJob
  /\ UNCHANGED <<exchange, now, orders, record, book>>

----------------------------------------------------------------------------
Exchange ==
  \/ \E o \in Orders : Fill(o)
  \/ \E i \in Trades : Expire(i)
  \/ \E c \in Conds : Trigger(c) \/ Finish(c)

Stream == Disconnect \/ Reconnect

Handle == Act \/ \E m \in net : Repeat(m) \/ HandleOrder(m) \/ HandleAlgo(m)

Trade ==
  \/ \E i \in Trades : Place(i) \/ Confirm(i) \/ GiveUp(i) \/ CloseFlat(i)
  \/ \E o \in Orders : RefreshRow(o)

\* The last trade of the instance is over.
Over == (\A i \in Trades : phase[i] = "closed") /\ UNCHANGED vars

Next == Exchange \/ Stream \/ Handle \/ Trade \/ Crash \/ Over

Spec == Init /\ [][Next]_vars

----------------------------------------------------------------------------
(* Properties. *)

\* Whether what is known of an order has only gone forward.
OrdersForward == \A o \in Orders : trk[o].st # "none" =>
  /\ trk'[o].st # "none" /\ trk'[o].cum >= trk[o].cum
  /\ OrderRank[trk'[o].st] >= OrderRank[trk[o].st]
  /\ OrderRank[trk[o].st] = 2 => trk'[o].st = trk[o].st
AlgosForward == \A c \in Conds : tra[c] # "none" =>
  tra'[c] # "none" /\ AlgoRank[tra'[c]] >= AlgoRank[tra[c]]

\* Within the life of a process what the tracker knows of an order only goes
\* forward, in rank and in quantity, and a final status stays, whatever the
\* order, the repetition and the loss of the messages (OrderTracker).
NeverBack == [][lives' = lives => OrdersForward /\ AlgosForward]_vars

Quiet == pc = "free" /\ net = {} /\ ~gap

\* When every message has arrived, in any order and repeated or not, the
\* tracker and the entry rows are what the exchange says.
Converged == Quiet =>
  /\ \A o \in Orders : plain[o].st # "none" =>
       trk[o].st = plain[o].st /\ trk[o].cum = plain[o].cum
  /\ \A c \in Conds : tra[c] = algo[c]
  /\ \A i \in Trades : row[Entry(i)] = plain[Entry(i)].st

\* A target is marked only when its market order is executed, and once every
\* message of an open trade has arrived, in any order, it is marked.
MarkedRight ==
  /\ \A i \in marked : plain[<<i, "TP">>].st = "FILLED"
  /\ \A i \in Trades :
       Quiet /\ phase[i] = "open" /\ algo[<<i, "TP">>] = "FINISHED"
         /\ plain[<<i, "TP">>].st = "FILLED" => i \in marked

\* A trade whose fills were fetched when it was closed has all its fills in
\* the book, and no other trade has one of them.
BooksComplete == \A f \in fills : f[1][1] \in synced => book[f] = f[1][1]

(* Why BooksComplete and MarkedRight hold: the inductive invariant. *)

\* Trades come one after the other, and orders come with their trade.
InTurn ==
  /\ \A i, j \in Trades : phase[i] # "none" /\ j < i => phase[j] = "closed"
  /\ \A i \in Trades : phase[i] = "none" => plain[Entry(i)] = NoPlain
  /\ \A i \in Trades : phase[i] \in {"none", "pending"} =>
       \A c \in Guards(i) : algo[c] = "none"
  /\ \A c \in Conds : algo[c] \in {"none", "NEW", "CANCELED"} => plain[c] = NoPlain

\* A live order has something left, a market order of a guard never sells more
\* than there is, and executes in full.
Sizes ==
  /\ \A o \in Orders : /\ plain[o].cum <= plain[o].qty
                       /\ Live(o) => plain[o].cum < plain[o].qty
  /\ \A c \in Conds : ~Live(c) => plain[c].cum = plain[c].qty
  /\ \A i \in Trades :
       plain[<<i, "TP">>].qty + plain[<<i, "SL">>].qty <= plain[Entry(i)].cum

\* Once its entry is confirmed nothing but its guards changes the position of a
\* trade, and a closed trade is flat for ever.
Settled == \A i \in Trades :
  /\ phase[i] \in {"open", "closed"} => ~Live(Entry(i))
  /\ phase[i] = "closed" => Flat(i)

\* Messages tell of what has happened.
Truthful(m) ==
  /\ IsTrade(m) => FillOf(m) \in fills
  /\ m.kind = "order" /\ m.st = "FILLED" => plain[m.id].st = "FILLED"
  /\ m.kind = "algo" => m.id \in Conds
  /\ m.kind = "algo" /\ m.st = "FINISHED" /\ m.cum > 0 => plain[m.id].st = "FILLED"

Honest ==
  /\ \A m \in net : Truthful(m)
  /\ pc = "act" => Truthful(job) /\ (MarksTarget(job) => plain[job.id].st = "FILLED")
  /\ \A i \in marked : plain[<<i, "TP">>].st = "FILLED"

\* Fills come from orders that were placed; those of a trade that is not closed
\* are booked to it or missing; a trade is synced when it is closed.
Books ==
  /\ synced \subseteq {i \in Trades : phase[i] = "closed"}
  /\ \A f \in fills : plain[f[1]].st # "none"
  /\ \A f \in Fills \ fills : book[f] = Missing
  /\ \A f \in fills : phase[f[1][1]] # "closed" => book[f] \in {Missing, f[1][1]}
  /\ BooksComplete

IInv == TypeOK /\ InTurn /\ Sizes /\ Settled /\ Honest /\ Books

(* Why Converged holds, and MarkedRight in full: what the bot was told of an *)
(* order is never ahead of the order, and what it was not told is on the way. *)

\* x: a message, or what the tracker knows.
IsNow(x, o)  == x.st = plain[o].st /\ x.cum = plain[o].cum
Behind(x, o) ==
  /\ plain[o].st # "none" /\ x.cum <= plain[o].cum
  /\ OrderRank[x.st] <= OrderRank[plain[o].st]
  /\ OrderRank[x.st] = 2 => x.st = plain[o].st
AlgoBehind(s, c) ==
  /\ algo[c] # "none" /\ AlgoRank[s] <= AlgoRank[algo[c]]
  /\ AlgoRank[s] = AlgoRank[algo[c]] => s = algo[c]

Possible(m) ==
  /\ m.kind = "order" => Behind(m, m.id)
  /\ m.kind = "algo" => /\ m.id \in Conds /\ AlgoBehind(m.st, m.id)
                        /\ m.st = "FINISHED" => m.cum = plain[m.id].cum

\* A message that tells how things are now has been taken in.
TakenIn(m) ==
  /\ m.kind = "order" /\ IsNow(m, m.id) => IsNow(trk[m.id], m.id)
  /\ m.kind = "algo" /\ m.st = algo[m.id] => tra[m.id] = m.st

NeverAhead ==
  /\ \A m \in net : Possible(m)
  /\ \A k \in DOMAIN seen : Possible(seen[k]) /\ TakenIn(seen[k])
  /\ \A o \in Orders : trk[o].st # "none" => Behind(trk[o], o)
  /\ \A c \in Conds : tra[c] # "none" => AlgoBehind(tra[c], c)

OnTheWay == ~gap =>
  /\ \A o \in Orders : plain[o].st # "none" /\ ~IsNow(trk[o], o) =>
       \E m \in net : m.kind = "order" /\ m.id = o /\ IsNow(m, o)
  /\ \A c \in Conds : algo[c] # "none" /\ tra[c] # algo[c] =>
       \E m \in net : m.kind = "algo" /\ m.id = c /\ m.st = algo[c]

\* A row is not older than the tracker, a target that is known to be finished
\* is marked or about to be, and orders end for good.
RowsFollow == \A i \in Trades : LET o == Entry(i) IN
  /\ plain[o].st = "none" => row[o] = "none"
  /\ plain[o].st # "none" /\ IsNow(trk[o], o) => row[o] = plain[o].st
MarksFollow == \A i \in Trades : LET c == <<i, "TP">> IN
  phase[i] = "open" /\ tra[c] = "FINISHED" /\ plain[c].st = "FILLED" =>
    i \in marked \/ (pc = "act" /\ job.kind = "algo" /\ job.id = c)
Ended ==
  /\ \A o \in Orders : plain[o].st = "FILLED" => plain[o].cum > 0
  /\ \A c \in Conds : algo[c] = "FINISHED" => ~Live(c)

NewsInv == NeverAhead /\ OnTheWay /\ RowsFollow /\ MarksFollow /\ Ended

\* Messages and queries write every fill down once, for the owner it keeps.
Ledger == INSTANCE FillLedger WITH
  executed <- fills, book <- book, Owners <- 0..NT, Fills <- Fills, Missing <- Missing
LedgerSpec == Ledger!Spec
=============================================================================
